--------------------------- MODULE ChangeSetProofs ---------------------------
(***************************************************************************)
(* Proofs about ChangeSets, for every set of ids, principals, devices and  *)
(* callers and every TTL, capacity and clock bound.                        *)
(*                                                                         *)
(* The argument.  A record is unclaimed while it is Planned or Approved.   *)
(* The write gate lets an unclaimed record replace only an unclaimed one,  *)
(* and no recovery produces one, so "not unclaimed" is permanent both in   *)
(* memory and in the file.  A change set that was run or reported retired  *)
(* is not unclaimed in either place (Spent), hence it cannot be claimed:   *)
(* a claim needs an Approved record in memory.                             *)
(***************************************************************************)
EXTENDS ChangeSets, FiniteSetTheorems, TLAPS

Unclaimed(r) == r.state \in {"Planned", "Approved"}

\* Only a stored record has an owner to speak of.
Owned(m) == \A i \in Ids : Exists(m[i]) => m[i].owner \in Principals

\* Only a drawn id has a record.
Known(m) == \A i \in Ids : Exists(m[i]) => i \in minted

\* A call under way has its change set, and what it will write is typed.
CallsWellFormed ==
    \A c \in Callers : calls[c].step # "idle" =>
        /\ calls[c].id \in Ids
        /\ calls[c].step = "emit" => Authority(calls[c].next) \in Principals

\* TypeOK in parts, with what it leaves open.
StoreTypes ==
    /\ changeSets \in [Ids -> ChangeSetRecord] /\ file \in [Ids -> ChangeSetRecord]
    /\ Owned(changeSets) /\ Owned(file)

ProcessTypes ==
    /\ up \in BOOLEAN /\ labMode \in BOOLEAN /\ clock \in 0 .. MaxClock
    /\ guard \in [Devices -> Callers \cup {NoOne}]

CallTypes == calls \in [Callers -> Call] /\ CallsWellFormed

HistoryTypes ==
    /\ minted \subseteq Ids /\ runs \in [Ids -> Nat] /\ retired \subseteq Ids
    /\ consent \in [Ids -> SUBSET Principals] /\ trail \subseteq Ids \X Principals

TypeInv == StoreTypes /\ ProcessTypes /\ CallTypes /\ HistoryTypes

\* What was run or reported retired is not claimable, here or after a restart.
Spent ==
    \A i \in Ids : (runs[i] # 0 \/ i \in retired) =>
        i \in minted /\ ~Unclaimed(changeSets[i]) /\ ~Unclaimed(file[i])

\* A terminal record in memory is not unclaimed in the file either, so a
\* caller told of it can rely on it across a restart.
SettledOnDisk ==
    \A i \in Ids : Terminal(changeSets[i].state) => ~Unclaimed(file[i])

SpendInv ==
    /\ Known(changeSets) /\ Known(file)
    /\ Spent
    /\ SettledOnDisk
    /\ OneApprovalOneRun

\* An approval as approve_change_set or a waiver makes it.
WellGranted(r) ==
    \/ r.approver \in Humans \ {r.owner}
    \/ r.approver = NoOne /\ r.waiver # "none"

\* ... and the call that made it was carried out by one of the principals who.
Authorised(who, r) ==
    \/ r.approver \in (who \cap Humans) \ {r.owner}
    \/ r.approver = NoOne /\ r.waiver # "none" /\ r.owner \in who

Granted(who, r) ==
    /\ r.state = "Planned" => r.approver = NoOne
    /\ r.state = "Approved" => Authorised(who, r)

\* What a call k is about to write.
CallGranted(given, k) ==
    /\ k.step = "update" =>
          /\ k.next.state = "Approved" => WellGranted(k.next)
          /\ k.next.state # "Planned"
    /\ k.step = "overwrite" => Granted(given[k.id], k.next)
    /\ k.step \in {"link", "settle", "vendor"} => k.next.state = "Applying"

\* Every Approved record, stored or about to be stored, was granted.
GrantInv ==
    /\ \A i \in Ids : Granted(consent[i], changeSets[i]) /\ Granted(consent[i], file[i])
    /\ \A c \in Callers : CallGranted(consent, calls[c])

-----------------------------------------------------------------------------
(* Records and calls *)

\* The empty record and the idle call are of their types.
LEMMA EmptyTypes == NoRecord \in ChangeSetRecord /\ IdleCall \in Call
BY ConstantsAssumption DEF NoRecord, ChangeSetRecord, ChangeSetState, WaiverKind,
   IdleCall, Call, Steps

\* Every update the calls make of a record yields a record, and leaves the
\* fields it does not name alone.
LEMMA SetState ==
    ASSUME NEW r \in ChangeSetRecord, NEW s \in ChangeSetState
    PROVE  LET n == [r EXCEPT !.state = s] IN
           /\ n \in ChangeSetRecord
           /\ n.state = s /\ n.owner = r.owner /\ n.device = r.device
           /\ n.approver = r.approver /\ n.waiver = r.waiver
BY DEF ChangeSetRecord

\* approve_change_set: state, approver and the signed rendering.
LEMMA SetApproval ==
    ASSUME NEW r \in ChangeSetRecord, NEW p \in Principals
    PROVE  LET n == [r EXCEPT !.state = "Approved", !.approver = p, !.signed = r.preview] IN
           /\ n \in ChangeSetRecord
           /\ n.state = "Approved" /\ n.owner = r.owner /\ n.approver = p
BY DEF ChangeSetRecord, ChangeSetState

\* The two waivers: state, kind and expiry.
LEMMA SetWaiver ==
    ASSUME NEW r \in ChangeSetRecord, NEW kind \in WaiverKind, NEW until \in Nat
    PROVE  LET n == [r EXCEPT !.state = "Approved", !.waiver = kind, !.until = until]
               l == [r EXCEPT !.state = "Approved", !.waiver = kind] IN
           /\ n \in ChangeSetRecord /\ l \in ChangeSetRecord
           /\ n.state = "Approved" /\ n.owner = r.owner /\ n.approver = r.approver
           /\ n.waiver = kind
           /\ l.state = "Approved" /\ l.owner = r.owner /\ l.approver = r.approver
           /\ l.waiver = kind
BY DEF ChangeSetRecord, ChangeSetState

\* The rendering, the task handle and the handleless marker.
LEMMA SetDetail ==
    ASSUME NEW r \in ChangeSetRecord
    PROVE  /\ LET n == [r EXCEPT !.preview = 1 - r.preview] IN
              /\ n \in ChangeSetRecord
              /\ n.state = r.state /\ n.owner = r.owner /\ n.approver = r.approver
              /\ n.waiver = r.waiver
           /\ LET n == [r EXCEPT !.task = TRUE] IN
              /\ n \in ChangeSetRecord
              /\ n.state = r.state /\ n.owner = r.owner /\ n.approver = r.approver
              /\ n.waiver = r.waiver
           /\ LET n == normalise_apply_marker(r) IN
              /\ n \in ChangeSetRecord
              /\ n.state = r.state /\ n.owner = r.owner /\ n.approver = r.approver
              /\ n.waiver = r.waiver
<1>1. LET n == [r EXCEPT !.preview = 1 - r.preview] IN
      /\ n \in ChangeSetRecord
      /\ n.state = r.state /\ n.owner = r.owner /\ n.approver = r.approver
      /\ n.waiver = r.waiver
  <2>1. r.preview \in {0, 1}  BY DEF ChangeSetRecord
  <2>2. 1 - r.preview \in {0, 1}  BY <2>1
  <2>3. QED  BY <2>2 DEF ChangeSetRecord
<1>2. LET n == [r EXCEPT !.task = TRUE] IN
      /\ n \in ChangeSetRecord
      /\ n.state = r.state /\ n.owner = r.owner /\ n.approver = r.approver
      /\ n.waiver = r.waiver
  BY DEF ChangeSetRecord
<1>3. LET n == normalise_apply_marker(r) IN
      /\ n \in ChangeSetRecord
      /\ n.state = r.state /\ n.owner = r.owner /\ n.approver = r.approver
      /\ n.waiver = r.waiver
  <2>1. CASE r.state = "Applying"  BY <2>1 DEF normalise_apply_marker
  <2>2. CASE r.state # "Applying"
    BY <2>2 DEF ChangeSetRecord, normalise_apply_marker
  <2>3. QED  BY <2>1, <2>2
<1>4. QED  BY <1>1, <1>2, <1>3

\* The claim: state and marker.
LEMMA SetClaim ==
    ASSUME NEW r \in ChangeSetRecord, NEW b \in BOOLEAN
    PROVE  LET n == [r EXCEPT !.state = "Applying", !.noHandle = b] IN
           /\ n \in ChangeSetRecord
           /\ n.state = "Applying" /\ n.owner = r.owner
BY DEF ChangeSetRecord, ChangeSetState

\* A fresh plan.
LEMMA FreshRecord ==
    ASSUME NEW owner \in Principals, NEW device \in Devices, NEW t \in Nat
    PROVE  LET n == [NoRecord EXCEPT !.state = "Planned", !.owner = owner,
                                     !.device = device, !.expires = t + ApprovalTtl] IN
           /\ n \in ChangeSetRecord
           /\ n.state = "Planned" /\ n.owner = owner /\ n.approver = NoOne
<1>1. t + ApprovalTtl \in Nat  BY ConstantsAssumption
<1>2. NoRecord.approver = NoOne  BY DEF NoRecord
<1>3. NoRecord \in ChangeSetRecord  BY EmptyTypes
<1>4. QED  BY <1>1, <1>2, <1>3 DEF ChangeSetRecord, ChangeSetState

\* Moving a call on keeps the calls typed and the other calls as they were.
LEMMA ContinueTypes ==
    ASSUME NEW c \in Callers, NEW step \in Steps, NEW id \in Ids,
           NEW observed \in ChangeSetState \cup {"Absent"}, NEW next \in ChangeSetRecord,
           calls \in [Callers -> Call],
           Continue(c, step, id, observed, next)
    PROVE  /\ calls' \in [Callers -> Call]
           /\ calls'[c].step = step /\ calls'[c].id = id /\ calls'[c].next = next
           /\ \A x \in Callers \ {c} : calls'[x] = calls[x]
<1>1. [step |-> step, id |-> id, observed |-> observed, next |-> next] \in Call
  BY DEF Call
<1>2. QED  BY <1>1 DEF Continue

\* So does returning.
LEMMA ReturnTypes ==
    ASSUME NEW c \in Callers, calls \in [Callers -> Call], Return(c)
    PROVE  /\ calls' \in [Callers -> Call]
           /\ calls'[c].step = "idle"
           /\ \A x \in Callers \ {c} : calls'[x] = calls[x]
<1>1. calls'[c] = IdleCall  BY DEF Return
<1>2. IdleCall.step = "idle"  BY DEF IdleCall
<1>3. QED  BY <1>1, <1>2, EmptyTypes DEF Return

-----------------------------------------------------------------------------
(* The store *)

\* An accepted write keeps the owner it found.
LEMMA WriteTypes ==
    ASSUME NEW id \in Ids, NEW next \in ChangeSetRecord, NEW via, StoreTypes,
           check_change_set_write(changeSets[id], next, via)
    PROVE  /\ [changeSets EXCEPT ![id] = next] \in [Ids -> ChangeSetRecord]
           /\ Owned([changeSets EXCEPT ![id] = next])
           /\ next.owner \in Principals
<1>1. next.owner = changeSets[id].owner /\ Exists(changeSets[id])
  BY DEF check_change_set_write
<1>2. next.owner \in Principals  BY <1>1 DEF StoreTypes, Owned
<1>3. QED  BY <1>2 DEF StoreTypes, Owned

\* Persisting a typed map leaves both copies typed, whatever the outcome.
LEMMA PersistTypes ==
    ASSUME StoreTypes, NEW new \in [Ids -> ChangeSetRecord], Owned(new), NEW outcome,
           PersistOrRollBack(changeSets, new, outcome)
    PROVE  StoreTypes'
BY DEF StoreTypes, Owned, PersistOrRollBack, FileAfter

\* Releasing a guard keeps the guards typed.
LEMMA ReleaseTypes ==
    ASSUME NEW c \in Callers, guard \in [Devices -> Callers \cup {NoOne}], ReleaseGuard(c)
    PROVE  guard' \in [Devices -> Callers \cup {NoOne}]
BY DEF ReleaseGuard

\* The sweep and the eviction only expire or drop records.
LEMMA KeptTypes ==
    ASSUME NEW m \in [Ids -> ChangeSetRecord], Owned(m), NEW now
    PROVE  LET kept == EvictTerminal(Sweep(m, now)) IN
           /\ kept \in [Ids -> ChangeSetRecord] /\ Owned(kept)
           /\ \A i \in Ids :
                 \/ kept[i] = m[i]
                 \/ kept[i] = NoRecord /\ m[i].state # "Applying"
                 \/ /\ kept[i] = [m[i] EXCEPT !.state = "Expired"]
                    /\ Unclaimed(m[i])
<1> DEFINE swept == Sweep(m, now)
           kept == EvictTerminal(swept)
<1>1. ASSUME NEW i \in Ids
      PROVE  /\ swept[i] \in ChangeSetRecord
             /\ Exists(swept[i]) => swept[i].owner \in Principals
             /\ \/ swept[i] = m[i]
                \/ /\ swept[i] = [m[i] EXCEPT !.state = "Expired"]
                   /\ Unclaimed(m[i])
  <2>1. CASE PastDeadline(m[i], now)
    <3>1. swept[i] = [m[i] EXCEPT !.state = "Expired"]  BY <2>1 DEF Sweep
    <3>2. Unclaimed(m[i]) /\ Exists(m[i])
      BY <2>1 DEF PastDeadline, is_expirable, Unclaimed, Exists
    <3>3. "Expired" \in ChangeSetState  BY DEF ChangeSetState
    <3>4. QED  BY <3>1, <3>2, <3>3, SetState DEF Owned
  <2>2. CASE ~PastDeadline(m[i], now)
    <3>1. swept[i] = m[i]  BY <2>2 DEF Sweep
    <3>2. QED  BY <3>1 DEF Owned
  <2>3. QED  BY <2>1, <2>2
<1>2. swept \in [Ids -> ChangeSetRecord]
  <2>1. swept = [i \in Ids |-> swept[i]]  BY DEF Sweep
  <2>2. QED  BY <1>1, <2>1
<1>3. \A i \in Ids : \/ kept[i] = swept[i]
                     \/ kept[i] = NoRecord /\ Terminal(swept[i].state)
  BY <1>2 DEF EvictTerminal
<1>4. kept \in [Ids -> ChangeSetRecord]
  BY <1>2, EmptyTypes DEF EvictTerminal
<1>5. ~Exists(NoRecord)  BY DEF Exists, NoRecord
<1>6. Owned(kept)  BY <1>1, <1>3, <1>5 DEF Owned
<1>7. ASSUME NEW i \in Ids, Terminal(swept[i].state)  PROVE m[i].state # "Applying"
  BY <1>1, <1>7 DEF Terminal, Unclaimed
<1>8. QED  BY <1>1, <1>3, <1>4, <1>6, <1>7

-----------------------------------------------------------------------------
(* Type correctness *)

\* A fresh plan joins a typed store.
LEMMA CreateTypes ==
    ASSUME TypeInv, NEW c \in Callers, NEW id \in Ids, NEW owner \in Principals,
           NEW device \in Devices, create_change_set(c, id, owner, device)
    PROVE  TypeInv'
<1> DEFINE kept == EvictTerminal(Sweep(changeSets, clock))
           record == [NoRecord EXCEPT !.state = "Planned", !.owner = owner,
                                      !.device = device, !.expires = clock + ApprovalTtl]
           inserted == [kept EXCEPT ![id] = record]
<1>1. StoreTypes /\ ProcessTypes /\ CallTypes /\ HistoryTypes  BY DEF TypeInv
<1>2. kept \in [Ids -> ChangeSetRecord] /\ Owned(kept)
  BY <1>1, KeptTypes DEF StoreTypes
<1>3. record \in ChangeSetRecord /\ record.owner = owner
  <2>1. clock \in Nat  BY <1>1, ConstantsAssumption DEF ProcessTypes
  <2>2. QED  BY <2>1, FreshRecord
<1> HIDE DEF kept, record
<1>4. inserted \in [Ids -> ChangeSetRecord] /\ Owned(inserted)
  BY <1>2, <1>3 DEF Owned
<1> HIDE DEF inserted
<1>5. StoreTypes'
  <2>1. CASE \E outcome \in {"lost", "unsure"} : PersistOrRollBack(changeSets, kept, outcome)
    BY <2>1, <1>1, <1>2, PersistTypes
  <2>2. CASE PersistOrRollBack(changeSets, kept, "ok")
    BY <2>2, <1>1, <1>2, PersistTypes
  <2>3. CASE \E outcome \in Outcomes :
                /\ changeSets' = IF outcome = "ok" THEN inserted ELSE kept
                /\ file' = FileAfter(IF kept = changeSets THEN file ELSE kept,
                                     inserted, outcome)
    BY <2>3, <1>1, <1>2, <1>4 DEF StoreTypes, FileAfter, Owned
  <2>4. QED  BY <2>1, <2>2, <2>3 DEF create_change_set, insert_change_set, kept, record, inserted
<1>6. ProcessTypes'  BY <1>1 DEF create_change_set, insert_change_set, process, ProcessTypes
<1>7. CallTypes'  BY <1>1 DEF create_change_set, insert_change_set, CallTypes, CallsWellFormed
<1>8. HistoryTypes'
  <2>1. minted' \subseteq Ids  BY <1>1 DEF create_change_set, insert_change_set, HistoryTypes
  <2>2. UNCHANGED <<runs, retired, consent, trail>>  BY DEF create_change_set, insert_change_set
  <2>3. QED  BY <1>1, <2>1, <2>2 DEF HistoryTypes
<1>9. QED  BY <1>5, <1>6, <1>7, <1>8 DEF TypeInv

\* A call that moves on from a record it just read.
LEMMA CallMoveTypes ==
    ASSUME TypeInv, NEW c \in Callers, NEW step \in Steps \ {"emit"}, NEW id \in Ids,
           NEW observed \in ChangeSetState \cup {"Absent"}, NEW next \in ChangeSetRecord,
           Continue(c, step, id, observed, next)
    PROVE  CallTypes'
<1>1. calls \in [Callers -> Call] /\ CallsWellFormed  BY DEF TypeInv, CallTypes
<1>2. QED  BY <1>1, ContinueTypes DEF CallTypes, CallsWellFormed

\* A call that returns.
LEMMA CallReturnTypes ==
    ASSUME TypeInv, NEW c \in Callers, Return(c)
    PROVE  CallTypes'
<1>1. calls \in [Callers -> Call] /\ CallsWellFormed  BY DEF TypeInv, CallTypes
<1>2. QED  BY <1>1, ReturnTypes DEF CallTypes, CallsWellFormed

\* The reads of approve, waive, status, cancel, render and apply.
LEMMA ReadTypes ==
    ASSUME TypeInv, NEW c \in Callers, NEW id \in Ids,
           \/ \E p \in Principals : approve_change_set(c, id, p)
           \/ waive_approval(c, id)
           \/ waive_approval_operator(c, id, "operator", 0)
           \/ \E until \in 1 .. MaxClock : waive_approval_operator(c, id, "timed", until)
           \/ change_set_status(c, id)
           \/ \E p \in Principals : cancel_change_set(c, id, p)
           \/ VendorRendersPreview(c, id)
           \/ apply_change_set(c, id)
    PROVE  TypeInv'
<1> DEFINE r == changeSets[id]
           s == r.state
<1>1. StoreTypes /\ ProcessTypes /\ CallTypes /\ HistoryTypes  BY DEF TypeInv
<1>2. r \in ChangeSetRecord  BY <1>1 DEF StoreTypes
<1>3. s \in ChangeSetState \cup {"Absent"}  BY <1>2 DEF ChangeSetRecord
<1>4. [r EXCEPT !.state = "Expired"] \in ChangeSetRecord
      /\ [r EXCEPT !.state = "Cancelled"] \in ChangeSetRecord
  <2>1. "Expired" \in ChangeSetState /\ "Cancelled" \in ChangeSetState  BY DEF ChangeSetState
  <2>2. QED  BY <1>2, <2>1, SetState
<1>5. "update" \in Steps \ {"emit"} /\ "overwrite" \in Steps \ {"emit"}
      /\ "queued" \in Steps \ {"emit"}
  BY DEF Steps
<1>6. UNCHANGED <<store, process, clock, guard>>
  BY DEF approve_change_set, waive_approval, waive_approval_operator, change_set_status,
         cancel_change_set, VendorRendersPreview, apply_change_set
<1>7. StoreTypes' /\ ProcessTypes'
  BY <1>1, <1>6 DEF store, process, StoreTypes, ProcessTypes, Owned
<1>8. UNCHANGED calls => CallTypes'
  BY <1>1 DEF CallTypes, CallsWellFormed
<1>9. UNCHANGED <<minted, runs, consent, trail>> /\ (retired' = retired \/ retired' = retired \cup {id})
  BY DEF approve_change_set, waive_approval, waive_approval_operator, change_set_status,
         cancel_change_set, VendorRendersPreview, apply_change_set, history
<1>10. HistoryTypes'  BY <1>1, <1>9 DEF HistoryTypes
<1>11. CallTypes'
  <2> HIDE DEF r, s
  <2>1. ASSUME NEW p \in Principals, approve_change_set(c, id, p)  PROVE CallTypes'
    <3>1. [r EXCEPT !.state = "Approved", !.approver = p, !.signed = r.preview] \in ChangeSetRecord
      BY <1>2, SetApproval
    <3>2. QED  BY <1>3, <1>4, <1>5, <2>1, <3>1, CallMoveTypes DEF approve_change_set, r, s
  <2>2. ASSUME waive_approval(c, id)  PROVE CallTypes'
    <3>1. [r EXCEPT !.state = "Approved", !.waiver = "lab"] \in ChangeSetRecord
      BY <1>2, SetWaiver, 0 \in Nat DEF WaiverKind
    <3>2. QED  BY <1>3, <1>4, <1>5, <2>2, <3>1, CallMoveTypes DEF waive_approval, r, s
  <2>3. ASSUME NEW kind \in WaiverKind, NEW until \in Nat, waive_approval_operator(c, id, kind, until)
        PROVE  CallTypes'
    <3>1. [r EXCEPT !.state = "Approved", !.waiver = kind, !.until = until] \in ChangeSetRecord
      BY <1>2, SetWaiver
    <3>2. QED  BY <1>3, <1>4, <1>5, <2>3, <3>1, CallMoveTypes DEF waive_approval_operator, r, s
  <2>4. ASSUME change_set_status(c, id)  PROVE CallTypes'
    BY <1>3, <1>4, <1>5, <1>8, <2>4, CallMoveTypes DEF change_set_status, r, s
  <2>5. ASSUME NEW p \in Principals, cancel_change_set(c, id, p)  PROVE CallTypes'
    BY <1>3, <1>4, <1>5, <1>8, <2>5, CallMoveTypes DEF cancel_change_set, r, s
  <2>6. ASSUME VendorRendersPreview(c, id)  PROVE CallTypes'
    <3>1. [r EXCEPT !.preview = 1 - r.preview] \in ChangeSetRecord  BY <1>2, SetDetail
    <3>2. QED  BY <1>3, <1>5, <2>6, <3>1, CallMoveTypes DEF VendorRendersPreview, r, s
  <2>7. ASSUME apply_change_set(c, id)  PROVE CallTypes'
    BY <1>2, <1>3, <1>4, <1>5, <2>7, CallMoveTypes DEF apply_change_set, r, s
  <2>8. "operator" \in WaiverKind /\ "timed" \in WaiverKind /\ 0 \in Nat
        /\ \A u \in 1 .. MaxClock : u \in Nat
    BY ConstantsAssumption DEF WaiverKind
  <2>9. QED  BY <2>1, <2>2, <2>3, <2>4, <2>5, <2>6, <2>7, <2>8
<1>12. QED  BY <1>7, <1>10, <1>11 DEF TypeInv

\* The write half of approve, waive, status and cancel.
LEMMA UpdateFromTypes ==
    ASSUME TypeInv, NEW c \in Callers, update_change_set_from(c)
    PROVE  TypeInv'
<1> DEFINE k == calls[c]
           next == normalise_apply_marker(k.next)
           accepted == Unmoved(k) /\ check_change_set_write(changeSets[k.id], next, "Update")
           who == Authority(next)
           new == [changeSets EXCEPT ![k.id] = next]
<1>1. StoreTypes /\ ProcessTypes /\ CallTypes /\ HistoryTypes  BY DEF TypeInv
<1>2. k \in Call /\ k.step = "update"
  BY <1>1 DEF CallTypes, update_change_set_from
<1>3. k.id \in Ids  BY <1>1, <1>2 DEF CallTypes, CallsWellFormed
<1>4. k.next \in ChangeSetRecord /\ k.observed \in ChangeSetState \cup {"Absent"}
  BY <1>2 DEF Call
<1>5. next \in ChangeSetRecord  BY <1>4, SetDetail
<1>6. next.approver \in Principals \cup {NoOne}  BY <1>5 DEF ChangeSetRecord
<1>7. UNCHANGED <<up, labMode, clock, guard, minted, runs, trail>>
  BY DEF update_change_set_from, process
<1>8. ProcessTypes'  BY <1>1, <1>7 DEF ProcessTypes
<1> HIDE DEF next
<1>9. CASE ~accepted
  <2>1. Return(c) /\ UNCHANGED <<store, retired, consent>>
    BY <1>9 DEF update_change_set_from, next
  <2>2. CallTypes'  BY <2>1, CallReturnTypes
  <2>3. StoreTypes'  BY <1>1, <2>1 DEF store, StoreTypes, Owned
  <2>4. HistoryTypes'  BY <1>1, <1>7, <2>1 DEF HistoryTypes
  <2>5. QED  BY <1>8, <2>2, <2>3, <2>4 DEF TypeInv
<1>10. CASE accepted
  <2>1. /\ consent' = IF next.state = "Approved"
                      THEN [consent EXCEPT ![k.id] = @ \cup {who}] ELSE consent
        /\ \E outcome \in Outcomes :
              /\ PersistOrRollBack(changeSets, new, outcome)
              /\ retired' = IF Succeeded(outcome) /\ next.state \in {"Cancelled", "Expired"}
                            THEN retired \cup {k.id} ELSE retired
              /\ IF Recorder /\ Succeeded(outcome) /\ next.state = "Approved"
                 THEN Continue(c, "emit", k.id, k.observed, next)
                 ELSE Return(c)
    BY <1>10 DEF update_change_set_from, next
  <2>2. new \in [Ids -> ChangeSetRecord] /\ Owned(new) /\ next.owner \in Principals
    BY <1>1, <1>3, <1>5, <1>10, WriteTypes
  <2>3. StoreTypes'  BY <1>1, <2>1, <2>2, PersistTypes
  <2>4. CallTypes'
    <3>1. CASE Return(c)  BY <3>1, CallReturnTypes
    <3>2. CASE Continue(c, "emit", k.id, k.observed, next)
      <4>1. calls \in [Callers -> Call] /\ CallsWellFormed  BY <1>1 DEF CallTypes
      <4>2. "emit" \in Steps  BY DEF Steps
      <4>3. Authority(next) \in Principals  BY <1>6, <2>2 DEF Authority
      <4> HIDE DEF k
      <4>4. /\ calls' \in [Callers -> Call]
            /\ calls'[c].id = k.id /\ calls'[c].next = next
            /\ \A x \in Callers \ {c} : calls'[x] = calls[x]
        BY <1>3, <1>4, <1>5, <3>2, <4>1, <4>2, ContinueTypes
      <4>5. QED  BY <1>3, <4>1, <4>3, <4>4 DEF CallTypes, CallsWellFormed
    <3>3. QED  BY <2>1, <3>1, <3>2
  <2>5. who \in Principals  BY <1>6, <2>2 DEF Authority
  <2>6. retired' \subseteq Ids  BY <1>1, <1>3, <2>1 DEF HistoryTypes
  <2>7. consent' \in [Ids -> SUBSET Principals]
    BY <1>1, <1>3, <2>1, <2>5 DEF HistoryTypes
  <2>8. HistoryTypes'  BY <1>1, <1>7, <2>6, <2>7 DEF HistoryTypes
  <2>9. QED  BY <1>8, <2>3, <2>4, <2>8 DEF TypeInv
<1>11. QED  BY <1>9, <1>10

\* The other steps of a call that write no record.
LEMMA SilentTypes ==
    ASSUME TypeInv, NEW c \in Callers,
           RecordEvidence(c) \/ CancelQueued(c) \/ GiveUpBeforeClaim(c) \/ TakeGuard(c)
    PROVE  TypeInv'
<1>1. StoreTypes /\ ProcessTypes /\ CallTypes /\ HistoryTypes  BY DEF TypeInv
<1>2. UNCHANGED <<store, process, clock, minted, runs, retired, consent>>
  BY DEF RecordEvidence, CancelQueued, GiveUpBeforeClaim, TakeGuard, history
<1>3. StoreTypes'  BY <1>1, <1>2 DEF store, StoreTypes, Owned
<1>4. trail' \subseteq Ids \X Principals
  <2>1. CASE RecordEvidence(c)
    <3>1. calls[c].id \in Ids /\ Authority(calls[c].next) \in Principals
      BY <1>1, <2>1 DEF RecordEvidence, CallTypes, CallsWellFormed
    <3>2. QED  BY <1>1, <2>1, <3>1 DEF RecordEvidence, HistoryTypes
  <2>2. CASE CancelQueued(c) \/ GiveUpBeforeClaim(c) \/ TakeGuard(c)
    BY <1>1, <2>2 DEF CancelQueued, GiveUpBeforeClaim, TakeGuard, history, HistoryTypes
  <2>3. QED  BY <2>1, <2>2
<1>5. HistoryTypes'  BY <1>1, <1>2, <1>4 DEF HistoryTypes
<1>6. ASSUME TakeGuard(c)
      PROVE  CallTypes' /\ guard' \in [Devices -> Callers \cup {NoOne}]
  <2> DEFINE k == calls[c]
             r == changeSets[k.id]
  <2>1. k.id \in Ids  BY <1>1, <1>6 DEF TakeGuard, CallTypes, CallsWellFormed
  <2>2. r \in ChangeSetRecord  BY <1>1, <2>1 DEF StoreTypes
  <2>3. r.state \in ChangeSetState \cup {"Absent"}  BY <2>2 DEF ChangeSetRecord
  <2>4. "claim" \in Steps \ {"emit"} /\ "overwrite" \in Steps \ {"emit"}  BY DEF Steps
  <2>5. [r EXCEPT !.state = "Expired"] \in ChangeSetRecord
    <3>1. "Expired" \in ChangeSetState  BY DEF ChangeSetState
    <3>2. QED  BY <2>2, <3>1, SetState
  <2>6. \/ Return(c) /\ UNCHANGED guard
        \/ /\ guard' = [guard EXCEPT ![k.next.device] = c]
           /\ \/ Continue(c, "overwrite", k.id, r.state, [r EXCEPT !.state = "Expired"])
              \/ Continue(c, "claim", k.id, r.state, r)
    BY <1>6 DEF TakeGuard
  <2>7. guard' \in [Devices -> Callers \cup {NoOne}]  BY <1>1, <2>6 DEF ProcessTypes
  <2> HIDE DEF k, r
  <2>8. CallTypes'  BY <2>1, <2>2, <2>3, <2>4, <2>5, <2>6, CallMoveTypes, CallReturnTypes
  <2>9. QED  BY <2>7, <2>8
<1>7. CallTypes'
  <2>1. RecordEvidence(c) \/ CancelQueued(c) \/ GiveUpBeforeClaim(c) => Return(c)
    BY DEF RecordEvidence, CancelQueued, GiveUpBeforeClaim
  <2>2. QED  BY <1>6, <2>1, CallReturnTypes
<1>8. ProcessTypes'
  <2>1. RecordEvidence(c) \/ CancelQueued(c) => UNCHANGED guard
    BY DEF RecordEvidence, CancelQueued
  <2>2. GiveUpBeforeClaim(c) => ReleaseGuard(c)  BY DEF GiveUpBeforeClaim
  <2>3. guard' \in [Devices -> Callers \cup {NoOne}]
    BY <1>1, <1>6, <2>1, <2>2, ReleaseTypes DEF ProcessTypes
  <2>4. QED  BY <1>1, <1>2, <2>3 DEF ProcessTypes, process
<1>9. QED  BY <1>3, <1>5, <1>7, <1>8 DEF TypeInv

\* The write of a call that does not compare: update_change_set.
LEMMA UpdateTypes ==
    ASSUME TypeInv, NEW c \in Callers, update_change_set(c)
    PROVE  TypeInv'
<1> DEFINE k == calls[c]
           next == normalise_apply_marker(k.next)
           accepted == check_change_set_write(changeSets[k.id], next, "Update")
           new == [changeSets EXCEPT ![k.id] = next]
<1>1. StoreTypes /\ ProcessTypes /\ CallTypes /\ HistoryTypes  BY DEF TypeInv
<1>2. k \in Call /\ k.step = "overwrite"
  BY <1>1 DEF CallTypes, update_change_set
<1>3. k.id \in Ids  BY <1>1, <1>2 DEF CallTypes, CallsWellFormed
<1>4. next \in ChangeSetRecord  BY <1>2, SetDetail DEF Call
<1>5. UNCHANGED <<up, labMode, clock, minted, runs, consent, trail>>
      /\ Return(c) /\ ReleaseGuard(c)
  BY DEF update_change_set, process
<1>6. ProcessTypes'  BY <1>1, <1>5, ReleaseTypes DEF ProcessTypes
<1>7. CallTypes'  BY <1>5, CallReturnTypes
<1>8. retired' \subseteq Ids  BY <1>1, <1>3 DEF update_change_set, HistoryTypes
<1>9. HistoryTypes'  BY <1>1, <1>5, <1>8 DEF HistoryTypes
<1> HIDE DEF next
<1>10. StoreTypes'
  <2>1. CASE UNCHANGED store  BY <1>1, <2>1 DEF store, StoreTypes, Owned
  <2>2. CASE accepted /\ \E outcome \in Outcomes : PersistOrRollBack(changeSets, new, outcome)
    <3>1. new \in [Ids -> ChangeSetRecord] /\ Owned(new)
      BY <1>1, <1>3, <1>4, <2>2, WriteTypes
    <3>2. QED  BY <1>1, <2>2, <3>1, PersistTypes
  <2>3. QED  BY <2>1, <2>2 DEF update_change_set, next
<1>11. QED  BY <1>6, <1>7, <1>9, <1>10 DEF TypeInv

\* The claim, by apply_change_set or by a vendor server.
LEMMA ClaimTypes ==
    ASSUME TypeInv, NEW c \in Callers, NEW id \in Ids, NEW noHandle \in BOOLEAN,
           NEW step \in Steps \ {"emit"},
           claim_change_set_for_apply(c, id, noHandle, step),
           UNCHANGED <<process, clock, minted, retired, consent, trail>>
    PROVE  TypeInv'
<1> DEFINE claimed == [changeSets[id] EXCEPT !.state = "Applying", !.noHandle = noHandle]
           held == [changeSets EXCEPT ![id] = claimed]
<1>1. StoreTypes /\ ProcessTypes /\ CallTypes /\ HistoryTypes  BY DEF TypeInv
<1>2. claimed \in ChangeSetRecord  BY <1>1, SetClaim DEF StoreTypes
<1> HIDE DEF claimed
<1>3. CASE Return(c) /\ ReleaseGuard(c) /\ UNCHANGED <<store, runs>>
  <2>1. ProcessTypes'  BY <1>1, <1>3, ReleaseTypes DEF ProcessTypes, process
  <2>2. CallTypes'  BY <1>3, CallReturnTypes
  <2>3. StoreTypes'  BY <1>1, <1>3 DEF store, StoreTypes, Owned
  <2>4. HistoryTypes'  BY <1>1, <1>3 DEF HistoryTypes
  <2>5. QED  BY <2>1, <2>2, <2>3, <2>4 DEF TypeInv
<1>4. ASSUME NEW outcome \in Outcomes,
             check_change_set_write(changeSets[id], claimed, "ApplyClaim"),
             changeSets' = MemoryAfterClaim(changeSets, held, outcome),
             file' = FileAfter(file, held, outcome),
             \/ /\ runs' = [runs EXCEPT ![id] = @ + 1]
                /\ Continue(c, step, id, "Applying", claimed)
                /\ UNCHANGED guard
             \/ UNCHANGED runs /\ Return(c) /\ ReleaseGuard(c)
      PROVE  TypeInv'
  <2>1. held \in [Ids -> ChangeSetRecord] /\ Owned(held)
    BY <1>1, <1>2, <1>4, WriteTypes
  <2>2. StoreTypes'
    BY <1>1, <1>4, <2>1 DEF StoreTypes, Owned, MemoryAfterClaim, FileAfter
  <2>3. "Applying" \in ChangeSetState \cup {"Absent"}  BY DEF ChangeSetState
  <2>4. CallTypes'  BY <1>2, <1>4, <2>3, CallMoveTypes, CallReturnTypes
  <2>5. ProcessTypes'  BY <1>1, <1>4, ReleaseTypes DEF ProcessTypes, process
  <2>6. HistoryTypes'  BY <1>1, <1>4 DEF HistoryTypes
  <2>7. QED  BY <2>2, <2>4, <2>5, <2>6 DEF TypeInv
<1>5. QED  BY <1>3, <1>4 DEF claim_change_set_for_apply, claimed

\* One gated write of one record, whatever became of it on disk.
Write(id, next) ==
    /\ check_change_set_write(changeSets[id], next, "Update")
    /\ \E outcome \in Outcomes :
          PersistOrRollBack(changeSets, [changeSets EXCEPT ![id] = next], outcome)

\* The writes of an apply under way, and of a vendor's probe after a restart,
\* are gated writes of a record that leaves the unclaimed states behind.
LEMMA ApplyWrites ==
    ASSUME TypeInv,
           \/ \E c \in Callers : LinkOperation(c) \/ VendorRecordsTask(c) \/ SettleApply(c)
           \/ \E id \in Ids : VendorReprobes(id)
    PROVE  \/ UNCHANGED store
           \/ \E id \in Ids, next \in ChangeSetRecord :
                 /\ Write(id, next)
                 /\ \/ next.state \in {"Applied", "Failed"}
                    \/ \E c \in Callers : /\ calls[c].step \in {"link", "vendor"}
                                          /\ next.state = calls[c].next.state
<1>1. StoreTypes /\ CallTypes  BY DEF TypeInv
<1>2. ASSUME NEW c \in Callers, calls[c].step # "idle"
      PROVE  calls[c].id \in Ids /\ calls[c].next \in ChangeSetRecord
  BY <1>1, <1>2 DEF CallTypes, CallsWellFormed, Call
<1>3. ASSUME NEW r \in ChangeSetRecord, NEW s \in {"Applied", "Failed"}
      PROVE  /\ normalise_apply_marker([r EXCEPT !.state = s]) \in ChangeSetRecord
             /\ normalise_apply_marker([r EXCEPT !.state = s]).state = s
  <2>1. s \in ChangeSetState  BY DEF ChangeSetState
  <2>2. [r EXCEPT !.state = s] \in ChangeSetRecord /\ [r EXCEPT !.state = s].state = s
    BY <2>1, SetState
  <2>3. QED  BY <2>2, SetDetail
<1>4. ASSUME NEW c \in Callers, LinkOperation(c)
      PROVE  \/ UNCHANGED store
             \/ Write(calls[c].id, calls[c].next)
  <2>1. CASE check_change_set_write(changeSets[calls[c].id], calls[c].next, "Update")
    BY <1>4, <2>1 DEF LinkOperation, Write
  <2>2. CASE ~check_change_set_write(changeSets[calls[c].id], calls[c].next, "Update")
    <3>1. PersistOrRollBack(changeSets, changeSets, "lost")  BY <1>4, <2>2 DEF LinkOperation
    <3>2. QED  BY <3>1 DEF PersistOrRollBack, FileAfter, store
  <2>3. QED  BY <2>1, <2>2
<1>5. ASSUME NEW c \in Callers, VendorRecordsTask(c)
      PROVE  Write(calls[c].id, [calls[c].next EXCEPT !.task = TRUE])
  BY <1>5 DEF VendorRecordsTask, Write
<1>6. ASSUME NEW c \in Callers, SettleApply(c)
      PROVE  \/ UNCHANGED store
             \/ \E s \in {"Applied", "Failed"} :
                   Write(calls[c].id, normalise_apply_marker([calls[c].next EXCEPT !.state = s]))
  <2> DEFINE n(s) == normalise_apply_marker([calls[c].next EXCEPT !.state = s])
             ok(s) == check_change_set_write(changeSets[calls[c].id], n(s), "Update")
             new(s) == [changeSets EXCEPT ![calls[c].id] = n(s)]
  <2>1. PICK s \in {"Applied", "Failed"}, outcome \in Outcomes :
           (ok(s) \/ outcome = "lost") /\ PersistOrRollBack(changeSets, new(s), outcome)
    BY <1>6 DEF SettleApply
  <2> HIDE DEF n
  <2>2. CASE ok(s)  BY <2>1, <2>2 DEF Write, n
  <2>3. CASE ~ok(s)
    <3>1. PersistOrRollBack(changeSets, new(s), "lost")  BY <2>1, <2>3
    <3>2. QED  BY <3>1 DEF PersistOrRollBack, FileAfter, store
  <2>4. QED  BY <2>2, <2>3
<1>7. ASSUME NEW id \in Ids, VendorReprobes(id)
      PROVE  \E s \in {"Applied", "Failed"} :
                Write(id, normalise_apply_marker([changeSets[id] EXCEPT !.state = s]))
  BY <1>7 DEF VendorReprobes, Write
<1>8. ASSUME NEW c \in Callers, LinkOperation(c) \/ VendorRecordsTask(c) \/ SettleApply(c)
      PROVE  /\ calls[c].step # "idle"
             /\ ~SettleApply(c) => calls[c].step \in {"link", "vendor"}
  BY <1>8 DEF LinkOperation, VendorRecordsTask, SettleApply
<1>9. CASE \E c \in Callers : LinkOperation(c)
  BY <1>2, <1>4, <1>8, <1>9 DEF SettleApply, LinkOperation
<1>10. CASE \E c \in Callers : VendorRecordsTask(c)
  <2>1. PICK c \in Callers : VendorRecordsTask(c)  BY <1>10
  <2>2. calls[c].step = "vendor"  BY <2>1 DEF VendorRecordsTask
  <2>3. /\ [calls[c].next EXCEPT !.task = TRUE] \in ChangeSetRecord
        /\ [calls[c].next EXCEPT !.task = TRUE].state = calls[c].next.state
    BY <1>2, <2>2, SetDetail
  <2>4. QED  BY <1>2, <1>5, <2>1, <2>2, <2>3
<1>11. CASE \E c \in Callers : SettleApply(c)
  <2>1. PICK c \in Callers : SettleApply(c)  BY <1>11
  <2>2. calls[c].id \in Ids /\ calls[c].next \in ChangeSetRecord  BY <1>2, <1>8, <2>1
  <2>3. CASE UNCHANGED store  BY <2>3
  <2>4. ASSUME NEW s \in {"Applied", "Failed"},
               Write(calls[c].id, normalise_apply_marker([calls[c].next EXCEPT !.state = s]))
        PROVE  \E id \in Ids, next \in ChangeSetRecord :
                  Write(id, next) /\ next.state \in {"Applied", "Failed"}
    BY <1>3, <2>2, <2>4
  <2>5. QED  BY <1>6, <2>1, <2>3, <2>4
<1>12. CASE \E id \in Ids : VendorReprobes(id)
  BY <1>1, <1>3, <1>7, <1>12, ZenonT(60) DEF StoreTypes
<1>13. QED  BY <1>9, <1>10, <1>11, <1>12

\* A gated write keeps the store typed.
LEMMA WriteKeepsTypes ==
    ASSUME StoreTypes, NEW id \in Ids, NEW next \in ChangeSetRecord, Write(id, next)
    PROVE  StoreTypes'
BY WriteTypes, PersistTypes DEF Write

\* The apply under way, after the claim.
LEMMA ApplyTypes ==
    ASSUME TypeInv,
           \/ \E c \in Callers : LinkOperation(c) \/ VendorRecordsTask(c) \/ SettleApply(c)
           \/ \E id \in Ids : VendorReprobes(id)
    PROVE  TypeInv'
<1>1. StoreTypes /\ ProcessTypes /\ CallTypes /\ HistoryTypes  BY DEF TypeInv
<1>2. StoreTypes'
  <2>1. UNCHANGED store => StoreTypes'  BY <1>1 DEF store, StoreTypes, Owned
  <2>2. QED  BY <1>1, <2>1, ApplyWrites, WriteKeepsTypes
<1>3. UNCHANGED <<process, clock, history>>
  BY DEF LinkOperation, VendorRecordsTask, SettleApply, VendorReprobes
<1>4. HistoryTypes'  BY <1>1, <1>3 DEF history, HistoryTypes
<1>5. ASSUME NEW c \in Callers, LinkOperation(c) \/ VendorRecordsTask(c) \/ SettleApply(c)
      PROVE  CallTypes' /\ guard' \in [Devices -> Callers \cup {NoOne}]
  <2>1. calls[c].step # "idle"
    BY <1>5 DEF LinkOperation, VendorRecordsTask, SettleApply
  <2>2. calls[c].id \in Ids /\ calls[c].next \in ChangeSetRecord
    BY <1>1, <2>1 DEF CallTypes, CallsWellFormed, Call
  <2>3. [calls[c].next EXCEPT !.task = TRUE] \in ChangeSetRecord  BY <2>2, SetDetail
  <2>4. "Applying" \in ChangeSetState \cup {"Absent"} /\ "settle" \in Steps \ {"emit"}
        /\ "vendor" \in Steps \ {"emit"}
    BY DEF ChangeSetState, Steps
  <2>5. \/ Return(c)
        \/ Continue(c, "settle", calls[c].id, "Applying", calls[c].next)
        \/ Continue(c, "vendor", calls[c].id, "Applying", [calls[c].next EXCEPT !.task = TRUE])
    BY <1>5 DEF LinkOperation, VendorRecordsTask, SettleApply
  <2>6. CallTypes'  BY <2>2, <2>3, <2>4, <2>5, CallMoveTypes, CallReturnTypes
  <2>7. UNCHANGED guard \/ ReleaseGuard(c)
    BY <1>5 DEF LinkOperation, VendorRecordsTask, SettleApply
  <2>8. QED  BY <1>1, <2>6, <2>7, ReleaseTypes DEF ProcessTypes
<1>6. ASSUME NEW id \in Ids, VendorReprobes(id)
      PROVE  CallTypes' /\ guard' \in [Devices -> Callers \cup {NoOne}]
  BY <1>1, <1>6 DEF VendorReprobes, CallTypes, CallsWellFormed, ProcessTypes
<1>7. CallTypes' /\ guard' \in [Devices -> Callers \cup {NoOne}]  BY <1>5, <1>6
<1>8. ProcessTypes'  BY <1>1, <1>3, <1>7 DEF ProcessTypes, process
<1>9. QED  BY <1>2, <1>4, <1>7, <1>8 DEF TypeInv

\* Recovery settles a record or leaves it as it was.
LEMMA RecoverTypes ==
    ASSUME NEW m \in [Ids -> ChangeSetRecord], Owned(m)
    PROVE  /\ Recover(m) \in [Ids -> ChangeSetRecord] /\ Owned(Recover(m))
           /\ \A i \in Ids :
                 \/ Recover(m)[i] = m[i]
                 \/ Recover(m)[i].state = "Failed" /\ m[i].state = "Applying"
<1>1. ASSUME NEW i \in Ids
      PROVE  /\ Recover(m)[i] \in ChangeSetRecord
             /\ Recover(m)[i].owner = m[i].owner
             /\ \/ Recover(m)[i] = m[i]
                \/ Recover(m)[i].state = "Failed" /\ m[i].state = "Applying"
  <2>1. Recover(m)[i] = RecoverChangeSet(m[i])  BY DEF Recover
  <2>2. "Failed" \in ChangeSetState  BY DEF ChangeSetState
  <2>3. \/ RecoverChangeSet(m[i]) = m[i]
        \/ /\ RecoverChangeSet(m[i]) = [m[i] EXCEPT !.state = "Failed"]
           /\ m[i].state = "Applying"
    BY DEF RecoverChangeSet
  <2>4. LET n == [m[i] EXCEPT !.state = "Failed"] IN
        m[i] \in ChangeSetRecord
        /\ n \in ChangeSetRecord /\ n.owner = m[i].owner /\ n.state = "Failed"
    BY <2>2, SetState
  <2>5. CASE RecoverChangeSet(m[i]) = m[i]  BY <2>1, <2>4, <2>5
  <2>6. CASE RecoverChangeSet(m[i]) = [m[i] EXCEPT !.state = "Failed"]
    BY <2>1, <2>3, <2>4, <2>6
  <2>7. QED  BY <2>3, <2>5, <2>6
<1>2. Recover(m) = [i \in Ids |-> Recover(m)[i]]  BY DEF Recover
<1>3. Recover(m) \in [Ids -> ChangeSetRecord]  BY <1>1, <1>2
<1>4. QED  BY <1>1, <1>3 DEF Owned, Exists

\* Stopping, starting and the clock.
LEMMA ProcessStepTypes ==
    ASSUME TypeInv, Crash \/ (\E lab \in LabModes : load(lab)) \/ Tick
    PROVE  TypeInv'
<1>1. StoreTypes /\ ProcessTypes /\ CallTypes /\ HistoryTypes  BY DEF TypeInv
<1>2. HistoryTypes'
  <2>1. UNCHANGED history  BY DEF Crash, load, Tick
  <2>2. QED  BY <1>1, <2>1 DEF history, HistoryTypes
<1>3. CASE Crash
  <2>1. ~Exists(NoRecord)  BY DEF Exists, NoRecord
  <2>2. StoreTypes'  BY <1>1, <1>3, <2>1, EmptyTypes DEF Crash, StoreTypes, Owned
  <2>3. ProcessTypes'  BY <1>1, <1>3 DEF Crash, ProcessTypes
  <2>4. IdleCall.step = "idle"  BY DEF IdleCall
  <2>5. CallTypes'  BY <1>3, <2>4, EmptyTypes DEF Crash, CallTypes, CallsWellFormed
  <2>6. QED  BY <1>2, <2>2, <2>3, <2>5 DEF TypeInv
<1>4. CASE \E lab \in LabModes : load(lab)
  <2>1. PICK lab \in LabModes : load(lab)  BY <1>4
  <2>2. Recover(file) \in [Ids -> ChangeSetRecord] /\ Owned(Recover(file))
    BY <1>1, RecoverTypes DEF StoreTypes
  <2>3. StoreTypes'  BY <1>1, <2>1, <2>2 DEF load, StoreTypes, Owned
  <2>4. UNCHANGED <<clock, guard, calls>>  BY <2>1 DEF load
  <2>5. up' \in BOOLEAN /\ labMode' \in BOOLEAN
    <3>1. CASE UNCHANGED <<up, labMode>>  BY <1>1, <3>1 DEF ProcessTypes
    <3>2. CASE up' = TRUE /\ labMode' = lab  BY <3>2, ConstantsAssumption
    <3>3. QED  BY <2>1, <3>1, <3>2 DEF load
  <2>6. ProcessTypes'  BY <1>1, <2>4, <2>5 DEF ProcessTypes
  <2>7. CallTypes'  BY <1>1, <2>4 DEF CallTypes, CallsWellFormed
  <2>8. QED  BY <1>2, <2>3, <2>6, <2>7 DEF TypeInv
<1>5. CASE Tick
  <2>1. StoreTypes' /\ CallTypes'
    BY <1>1, <1>5 DEF Tick, store, StoreTypes, Owned, CallTypes, CallsWellFormed
  <2>2. clock' \in 0 .. MaxClock
    BY <1>1, <1>5, ConstantsAssumption DEF Tick, ProcessTypes
  <2>3. ProcessTypes'  BY <1>1, <1>5, <2>2 DEF Tick, process, ProcessTypes
  <2>4. QED  BY <1>2, <2>1, <2>3 DEF TypeInv
<1>6. QED  BY <1>3, <1>4, <1>5

\* Every step keeps the types.
LEMMA TypeStep == TypeInv /\ [Next]_vars => TypeInv'
<1> SUFFICES ASSUME TypeInv, [Next]_vars PROVE TypeInv'
  OBVIOUS
<1>1. CASE UNCHANGED vars
  BY <1>1 DEF vars, TypeInv, StoreTypes, Owned, ProcessTypes, CallTypes, CallsWellFormed,
              HistoryTypes
<1>2. ASSUME NEW c \in Callers, Proceed(c)  PROVE TypeInv'
  <2>1. CASE ClaimForApply(c)
    <3>1. calls[c].id \in Ids
      BY <2>1 DEF ClaimForApply, TypeInv, CallTypes, CallsWellFormed
    <3>2. "link" \in Steps \ {"emit"} /\ FALSE \in BOOLEAN  BY DEF Steps
    <3>3. QED  BY <2>1, <3>1, <3>2, ClaimTypes DEF ClaimForApply
  <2>2. QED  BY <1>2, <2>1, UpdateFromTypes, UpdateTypes, SilentTypes, ApplyTypes DEF Proceed
<1>3. ASSUME NEW c \in Callers, Request(c)  PROVE TypeInv'
  <2>1. ASSUME NEW id \in Ids, NEW noHandle \in BOOLEAN, VendorClaims(c, id, noHandle)
        PROVE  TypeInv'
    <3>1. "vendor" \in Steps \ {"emit"}  BY DEF Steps
    <3>2. QED  BY <2>1, <3>1, ClaimTypes DEF VendorClaims
  <2>2. CASE CancelQueued(c) \/ GiveUpBeforeClaim(c) \/ VendorRecordsTask(c)
    BY <2>2, SilentTypes, ApplyTypes
  <2>3. CASE ~(CancelQueued(c) \/ GiveUpBeforeClaim(c) \/ VendorRecordsTask(c))
    BY <1>3, <2>1, <2>3, CreateTypes, ReadTypes DEF Request
  <2>4. QED  BY <2>2, <2>3
<1>4. CASE Next
  BY <1>2, <1>3, <1>4, ApplyTypes, ProcessStepTypes DEF Next
<1>5. QED  BY <1>1, <1>4

\* The initial state is typed.
LEMMA TypeInit == Init => TypeInv
<1> SUFFICES ASSUME Init PROVE TypeInv
  OBVIOUS
<1>1. ~Exists(NoRecord) /\ IdleCall.step = "idle"  BY DEF Exists, NoRecord, IdleCall
<1>2. StoreTypes  BY <1>1, EmptyTypes DEF Init, StoreTypes, Owned
<1>3. labMode \in BOOLEAN  BY ConstantsAssumption DEF Init
<1>4. ProcessTypes  BY <1>3, ConstantsAssumption DEF Init, ProcessTypes
<1>5. CallTypes  BY <1>1, EmptyTypes DEF Init, CallTypes, CallsWellFormed
<1>6. HistoryTypes  BY DEF Init, HistoryTypes
<1>7. QED  BY <1>2, <1>4, <1>5, <1>6 DEF TypeInv

\* The store, the calls and the process keep their types; in particular a call
\* under way always names a change set and a stored record always has an owner.
THEOREM AlwaysTyped == Spec => []TypeInv
BY TypeInit, TypeStep, PTL DEF Spec

\* TypeOK, the type invariant of the runs, for every value of the constants.
THEOREM TypeCorrect == Spec => []TypeOK
<1>1. TypeInv => TypeOK
  BY DEF TypeInv, StoreTypes, ProcessTypes, CallTypes, HistoryTypes, TypeOK
<1>2. QED  BY <1>1, AlwaysTyped, PTL

-----------------------------------------------------------------------------
(* One approval, one run *)

\* The heart of the gate: an unclaimed record replaces only an unclaimed one,
\* an update claims nothing, and a write creates nothing.
LEMMA GateKeepsClaims ==
    ASSUME NEW current, NEW next, check_change_set_write(current, next, "Update")
    PROVE  /\ Exists(current)
           /\ Unclaimed(next) => Unclaimed(current)
           /\ next.state = "Applying" => current.state = "Applying"
           /\ current.state # "Planned" => next.state # "Planned"
           /\ next.state = "Approved" /\ current.approver # NoOne =>
                 next.approver = current.approver
BY DEF check_change_set_write, change_set_transition_allowed, Unclaimed

\* What a step may do to the two copies of a record.
Quiet(i) ==
    /\ Unclaimed(changeSets'[i]) \/ Unclaimed(file'[i]) =>
          Unclaimed(changeSets[i]) \/ Unclaimed(file[i]) \/ i \notin minted
    /\ Exists(changeSets'[i]) \/ Exists(file'[i]) =>
          Exists(changeSets[i]) \/ Exists(file[i]) \/ i \in minted'
    /\ Terminal(changeSets'[i].state) => ~Unclaimed(file'[i])

\* A gated write is quiet on every record.
LEMMA WriteQuiet ==
    ASSUME TypeInv, SpendInv, NEW id \in Ids, NEW next \in ChangeSetRecord, Write(id, next)
    PROVE  \A i \in Ids : Quiet(i)
<1> SUFFICES ASSUME NEW i \in Ids PROVE Quiet(i)
  OBVIOUS
<1> DEFINE new == [changeSets EXCEPT ![id] = next]
<1>1. PICK outcome \in Outcomes : PersistOrRollBack(changeSets, new, outcome)
  BY DEF Write
<1>2. /\ Exists(changeSets[id])
      /\ Unclaimed(next) => Unclaimed(changeSets[id])
  BY GateKeepsClaims DEF Write
<1>3. /\ new[i] = changeSets[i] \/ (i = id /\ new[i] = next)
      /\ \/ changeSets'[i] = new[i] /\ file'[i] = new[i]
         \/ changeSets'[i] = changeSets[i] /\ file'[i] \in {new[i], file[i]}
  BY <1>1 DEF PersistOrRollBack, FileAfter, TypeInv, StoreTypes
<1>4. Terminal(changeSets[i].state) => ~Unclaimed(file[i]) /\ ~Unclaimed(changeSets[i])
  BY DEF SpendInv, SettledOnDisk, Terminal, Unclaimed
<1>5. \A r : Terminal(r.state) => ~Unclaimed(r)  BY DEF Terminal, Unclaimed
<1> HIDE DEF new
<1>6. QED  BY <1>2, <1>3, <1>4, <1>5 DEF Quiet

\* So is planning: the swept and evicted records leave the unclaimed states,
\* and the only new unclaimed record has an id never drawn before.
LEMMA CreateQuiet ==
    ASSUME TypeInv, SpendInv, NEW c \in Callers, NEW id \in Ids, NEW owner \in Principals,
           NEW device \in Devices, create_change_set(c, id, owner, device)
    PROVE  \A i \in Ids : Quiet(i)
<1> SUFFICES ASSUME NEW i \in Ids PROVE Quiet(i)
  OBVIOUS
<1> DEFINE kept == EvictTerminal(Sweep(changeSets, clock))
           record == [NoRecord EXCEPT !.state = "Planned", !.owner = owner,
                                      !.device = device, !.expires = clock + ApprovalTtl]
           inserted == [kept EXCEPT ![id] = record]
<1>1. StoreTypes  BY DEF TypeInv
<1>2. /\ kept \in [Ids -> ChangeSetRecord]
      /\ \/ kept[i] = changeSets[i]
         \/ kept[i] = NoRecord
         \/ kept[i] = [changeSets[i] EXCEPT !.state = "Expired"] /\ Unclaimed(changeSets[i])
  BY <1>1, KeptTypes DEF StoreTypes
<1>3. [changeSets[i] EXCEPT !.state = "Expired"].state = "Expired"
  <2>1. "Expired" \in ChangeSetState  BY DEF ChangeSetState
  <2>2. QED  BY <1>1, <2>1, SetState DEF StoreTypes
<1>4. /\ Unclaimed(kept[i]) => Unclaimed(changeSets[i])
      /\ Exists(kept[i]) => Exists(changeSets[i])
      /\ Terminal(changeSets[i].state) => ~Unclaimed(kept[i])
  BY <1>2, <1>3 DEF Unclaimed, Exists, Terminal, NoRecord
<1>5. id \notin minted => ~Exists(changeSets[id]) /\ ~Exists(file[id])
  BY DEF SpendInv, Known
<1> HIDE DEF kept, record
<1>6. \/ i # id /\ inserted[i] = kept[i]
      \/ i = id /\ id \notin minted /\ minted' \in {minted, minted \cup {id}}
  BY <1>2 DEF create_change_set, insert_change_set, kept, record
<1> HIDE DEF inserted
<1>7. \/ changeSets'[i] = changeSets[i] /\ file'[i] = file[i]
      \/ changeSets'[i] = changeSets[i] /\ file'[i] = kept[i]
      \/ changeSets'[i] = kept[i] /\ file'[i] = kept[i]
      \/ /\ minted' = minted \cup {id}
         /\ changeSets'[i] = kept[i] \/ changeSets'[i] = inserted[i]
         /\ file'[i] = inserted[i]
  <2>1. CASE \E outcome \in {"lost", "unsure"} : PersistOrRollBack(changeSets, kept, outcome)
    BY <2>1 DEF PersistOrRollBack, FileAfter
  <2>2. CASE PersistOrRollBack(changeSets, kept, "ok")
    BY <2>2 DEF PersistOrRollBack, FileAfter
  <2>3. CASE /\ minted' = minted \cup {id}
             /\ \E outcome \in Outcomes :
                /\ changeSets' = IF outcome = "ok" THEN inserted ELSE kept
                /\ file' = FileAfter(IF kept = changeSets THEN file ELSE kept,
                                     inserted, outcome)
    BY <2>3 DEF FileAfter, Outcomes
  <2>4. QED  BY <2>1, <2>2, <2>3 DEF create_change_set, insert_change_set, kept, record, inserted
<1>8. Terminal(changeSets[i].state) => ~Unclaimed(file[i])
  BY DEF SpendInv, SettledOnDisk
<1>9. /\ Terminal(kept[i].state) => ~Unclaimed(kept[i])
      /\ ~Exists(changeSets[i]) => ~Terminal(changeSets[i].state) /\ ~Unclaimed(changeSets[i])
      /\ ~Exists(kept[i]) => ~Terminal(kept[i].state) /\ ~Unclaimed(kept[i])
      /\ ~Exists(file[i]) => ~Unclaimed(file[i])
  BY DEF Terminal, Unclaimed, Exists
<1>10. CASE i # id
  <2>1. inserted[i] = kept[i]  BY <1>6, <1>10
  <2>2. QED  BY <1>4, <1>7, <1>8, <1>9, <2>1, Zenon DEF Quiet
<1>11. CASE i = id
  <2>1. ~Exists(changeSets[i]) /\ ~Exists(file[i]) /\ ~Exists(kept[i]) /\ i \notin minted
    BY <1>4, <1>5, <1>6, <1>11
  <2>2. record.state = "Planned"
    BY EmptyTypes DEF record, ChangeSetRecord
  <2>3. inserted[i] = record  BY <1>2, <1>11 DEF inserted
  <2>4. ~Terminal(inserted[i].state)  BY <2>2, <2>3 DEF Terminal
  <2>5. minted' = minted \cup {id} => i \in minted'  BY <1>11
  <2>6. QED  BY <1>7, <1>9, <2>1, <2>4, <2>5, Zenon DEF Quiet
<1>12. QED  BY <1>10, <1>11

\* So is the claim.
LEMMA ClaimQuiet ==
    ASSUME TypeInv, SpendInv, NEW c \in Callers, NEW id \in Ids, NEW noHandle \in BOOLEAN,
           NEW step, claim_change_set_for_apply(c, id, noHandle, step)
    PROVE  /\ \A i \in Ids : Quiet(i)
           /\ \/ UNCHANGED runs
              \/ /\ runs' = [runs EXCEPT ![id] = @ + 1]
                 /\ changeSets[id].state = "Approved"
                 /\ changeSets'[id].state = "Applying" /\ file'[id].state = "Applying"
<1> DEFINE claimed == [changeSets[id] EXCEPT !.state = "Applying", !.noHandle = noHandle]
           held == [changeSets EXCEPT ![id] = claimed]
<1>1. StoreTypes  BY DEF TypeInv
<1>2. claimed.state = "Applying"  BY <1>1 DEF StoreTypes, ChangeSetRecord
<1> HIDE DEF claimed
<1>3. CASE UNCHANGED <<store, runs>>
  BY <1>3 DEF store, Quiet, SpendInv, SettledOnDisk
<1>4. ASSUME NEW outcome \in Outcomes,
             changeSets[id].state = "Approved",
             changeSets' = MemoryAfterClaim(changeSets, held, outcome),
             file' = FileAfter(file, held, outcome),
             \/ outcome = "ok" /\ runs' = [runs EXCEPT ![id] = @ + 1]
             \/ UNCHANGED runs
      PROVE  /\ \A i \in Ids : Quiet(i)
             /\ \/ UNCHANGED runs
                \/ /\ runs' = [runs EXCEPT ![id] = @ + 1]
                   /\ changeSets'[id].state = "Applying" /\ file'[id].state = "Applying"
  <2>1. changeSets' = held  BY <1>4 DEF MemoryAfterClaim
  <2>2. held[id] = claimed /\ \A i \in Ids \ {id} : held[i] = changeSets[i]
    BY <1>1 DEF StoreTypes
  <2>3. file' = file \/ file' = held  BY <1>4 DEF FileAfter
  <2>4. outcome = "ok" => file' = held  BY <1>4 DEF FileAfter
  <2>5. ASSUME NEW i \in Ids PROVE Quiet(i)
    <3>1. CASE i = id
      <4>1. ~Unclaimed(claimed) /\ ~Terminal(claimed.state) /\ Unclaimed(changeSets[i])
            /\ Exists(changeSets[i])
        BY <1>2, <1>4, <3>1 DEF Unclaimed, Terminal, Exists
      <4>2. QED  BY <2>1, <2>2, <3>1, <4>1 DEF Quiet
    <3>2. CASE i # id
      <4>1. changeSets'[i] = changeSets[i] /\ file'[i] \in {file[i], changeSets[i]}
        BY <2>1, <2>2, <2>3, <3>2
      <4>2. /\ Terminal(changeSets[i].state) => ~Unclaimed(changeSets[i])
            /\ Terminal(changeSets[i].state) => ~Unclaimed(file[i])
        BY DEF Terminal, Unclaimed, SpendInv, SettledOnDisk
      <4>3. QED  BY <4>1, <4>2 DEF Quiet
    <3>3. QED  BY <3>1, <3>2
  <2>6. QED  BY <1>2, <1>4, <2>1, <2>2, <2>4, <2>5
<1>5. QED  BY <1>3, <1>4 DEF claim_change_set_for_apply, Claimable, claimed

\* The only ways a step changes what callers were told and did: one consent,
\* one granted claim of an Approved record, or one report of a settled record.
Told ==
    \/ UNCHANGED <<runs, retired, consent>>
    \/ \E i \in Ids, p \in Principals :
          /\ consent' = [consent EXCEPT ![i] = @ \cup {p}]
          /\ UNCHANGED <<runs, retired>>
    \/ \E i \in Ids :
          /\ runs' = [runs EXCEPT ![i] = @ + 1]
          /\ changeSets[i].state = "Approved"
          /\ changeSets'[i].state = "Applying" /\ file'[i].state = "Applying"
          /\ UNCHANGED <<retired, consent>>
    \/ \E i \in Ids :
          /\ retired' = retired \cup {i}
          /\ Exists(changeSets[i])
          /\ ~Unclaimed(changeSets'[i]) /\ ~Unclaimed(file'[i])
          /\ UNCHANGED <<runs, consent>>

StepOK == (\A i \in Ids : Quiet(i)) /\ Told /\ minted \subseteq minted'

\* The write half of approve, waive, status and cancel.
LEMMA UpdateFromQuiet ==
    ASSUME TypeInv, SpendInv, NEW c \in Callers, update_change_set_from(c)
    PROVE  StepOK
<1> DEFINE k == calls[c]
           next == normalise_apply_marker(k.next)
           accepted == Unmoved(k) /\ check_change_set_write(changeSets[k.id], next, "Update")
           who == Authority(next)
           new == [changeSets EXCEPT ![k.id] = next]
<1>1. StoreTypes /\ CallTypes  BY DEF TypeInv
<1>2. k \in Call /\ k.step = "update"  BY <1>1 DEF CallTypes, update_change_set_from
<1>3. k.id \in Ids  BY <1>1, <1>2 DEF CallTypes, CallsWellFormed
<1>4. next \in ChangeSetRecord  BY <1>2, SetDetail DEF Call
<1>5. UNCHANGED <<minted, runs>>  BY DEF update_change_set_from
<1> HIDE DEF next
<1>6. CASE ~accepted
  <2>1. UNCHANGED <<store, retired, consent>>  BY <1>6 DEF update_change_set_from, next
  <2>2. \A i \in Ids : Quiet(i)  BY <2>1 DEF store, Quiet, SpendInv, SettledOnDisk
  <2>3. QED  BY <1>5, <2>1, <2>2 DEF StepOK, Told
<1>7. CASE accepted
  <2>1. /\ consent' = IF next.state = "Approved"
                      THEN [consent EXCEPT ![k.id] = @ \cup {who}] ELSE consent
        /\ \E outcome \in Outcomes :
              /\ PersistOrRollBack(changeSets, new, outcome)
              /\ retired' = IF Succeeded(outcome) /\ next.state \in {"Cancelled", "Expired"}
                            THEN retired \cup {k.id} ELSE retired
    BY <1>7 DEF update_change_set_from, next
  <2>2. \A i \in Ids : Quiet(i)
    <3>1. Write(k.id, next)  BY <1>7, <2>1 DEF Write
    <3>2. QED  BY <1>3, <1>4, <3>1, WriteQuiet
  <2>3. who \in Principals
    <3>1. next.owner \in Principals  BY <1>1, <1>3, <1>4, <1>7, WriteTypes
    <3>2. QED  BY <1>4, <3>1 DEF ChangeSetRecord, Authority
  <2>4. CASE next.state = "Approved"
    <3>1. retired' = retired  BY <2>1, <2>4
    <3>2. consent' = [consent EXCEPT ![k.id] = @ \cup {who}]  BY <2>1, <2>4
    <3>3. Told  BY <1>3, <1>5, <2>3, <3>1, <3>2 DEF Told
    <3>4. QED  BY <1>5, <2>2, <3>3 DEF StepOK
  <2>5. CASE next.state # "Approved"
    <3>1. consent' = consent  BY <2>1, <2>5
    <3>2. CASE retired' = retired  BY <1>5, <2>2, <3>1, <3>2 DEF StepOK, Told
    <3>3. CASE retired' # retired
      <4>1. /\ PersistOrRollBack(changeSets, new, "ok")
            /\ retired' = retired \cup {k.id} /\ next.state \in {"Cancelled", "Expired"}
        BY <2>1, <3>3 DEF Succeeded
      <4>2. changeSets'[k.id] = next /\ file'[k.id] = next
        BY <1>1, <1>3, <4>1 DEF PersistOrRollBack, FileAfter, StoreTypes
      <4>3. ~Unclaimed(next)  BY <4>1 DEF Unclaimed
      <4>4. Exists(changeSets[k.id])  BY <1>7 DEF check_change_set_write
      <4>5. Told  BY <1>3, <1>5, <3>1, <4>1, <4>2, <4>3, <4>4 DEF Told
      <4>6. QED  BY <1>5, <2>2, <4>5 DEF StepOK
    <3>4. QED  BY <3>2, <3>3
  <2>6. QED  BY <2>4, <2>5
<1>8. QED  BY <1>6, <1>7

\* The write without the comparison.
LEMMA UpdateQuiet ==
    ASSUME TypeInv, SpendInv, NEW c \in Callers, update_change_set(c)
    PROVE  StepOK
<1> DEFINE k == calls[c]
           next == normalise_apply_marker(k.next)
           new == [changeSets EXCEPT ![k.id] = next]
<1>1. StoreTypes /\ CallTypes  BY DEF TypeInv
<1>2. k \in Call /\ k.step = "overwrite"  BY <1>1 DEF CallTypes, update_change_set
<1>3. k.id \in Ids  BY <1>1, <1>2 DEF CallTypes, CallsWellFormed
<1>4. next \in ChangeSetRecord  BY <1>2, SetDetail DEF Call
<1>5. UNCHANGED <<minted, runs, consent>>  BY DEF update_change_set
<1> HIDE DEF next
<1>6. CASE UNCHANGED <<store, retired>>
  <2>1. \A i \in Ids : Quiet(i)  BY <1>6 DEF store, Quiet, SpendInv, SettledOnDisk
  <2>2. QED  BY <1>5, <1>6, <2>1 DEF StepOK, Told
<1>7. ASSUME NEW outcome \in Outcomes,
             check_change_set_write(changeSets[k.id], next, "Update"),
             PersistOrRollBack(changeSets, new, outcome),
             retired' = IF Succeeded(outcome) /\ next.state = "Expired"
                        THEN retired \cup {k.id} ELSE retired
      PROVE  StepOK
  <2>1. \A i \in Ids : Quiet(i)
    <3>1. Write(k.id, next)  BY <1>7 DEF Write
    <3>2. QED  BY <1>3, <1>4, <3>1, WriteQuiet
  <2>2. CASE retired' = retired  BY <1>5, <2>1, <2>2 DEF StepOK, Told
  <2>3. CASE retired' # retired
    <3>1. outcome = "ok" /\ retired' = retired \cup {k.id} /\ next.state = "Expired"
      BY <1>7, <2>3 DEF Succeeded
    <3>2. changeSets'[k.id] = next /\ file'[k.id] = next
      BY <1>1, <1>3, <1>7, <3>1 DEF PersistOrRollBack, FileAfter, StoreTypes
    <3>3. ~Unclaimed(next)  BY <3>1 DEF Unclaimed
    <3>4. Exists(changeSets[k.id])  BY <1>7 DEF check_change_set_write
    <3>5. Told  BY <1>3, <1>5, <3>1, <3>2, <3>3, <3>4 DEF Told
    <3>6. QED  BY <1>5, <2>1, <3>5 DEF StepOK
  <2>4. QED  BY <2>2, <2>3
<1>8. QED  BY <1>6, <1>7 DEF update_change_set, next

\* Every step is quiet and tells callers at most one thing.
LEMMA AllQuiet ==
    ASSUME TypeInv, SpendInv, [Next]_vars
    PROVE  StepOK
<1>1. UNCHANGED store /\ minted \subseteq minted' => \A i \in Ids : Quiet(i)
  BY DEF store, Quiet, SpendInv, SettledOnDisk
<1>2. CASE UNCHANGED vars
  BY <1>1, <1>2 DEF vars, store, StepOK, Told
<1>3. ASSUME NEW c \in Callers, NEW id \in Ids, NEW noHandle \in BOOLEAN, NEW step,
             claim_change_set_for_apply(c, id, noHandle, step),
             UNCHANGED <<process, clock, minted, retired, consent, trail>>
      PROVE  StepOK
  <2>1. Told  BY <1>3, ClaimQuiet DEF Told
  <2>2. QED  BY <1>3, <2>1, ClaimQuiet DEF StepOK
<1>4. ASSUME \/ \E c \in Callers : LinkOperation(c) \/ VendorRecordsTask(c) \/ SettleApply(c)
             \/ \E id \in Ids : VendorReprobes(id)
      PROVE  StepOK
  <2>1. UNCHANGED history
    BY <1>4 DEF LinkOperation, VendorRecordsTask, SettleApply, VendorReprobes
  <2>2. \A i \in Ids : Quiet(i)
    BY <1>1, <1>4, <2>1, ApplyWrites, WriteQuiet DEF history
  <2>3. QED  BY <2>1, <2>2 DEF history, StepOK, Told
<1>5. ASSUME NEW c \in Callers, Proceed(c)  PROVE StepOK
  <2>1. CASE ClaimForApply(c)
    <3>1. calls[c].id \in Ids
      BY <2>1 DEF ClaimForApply, TypeInv, CallTypes, CallsWellFormed
    <3>2. QED  BY <1>3, <2>1, <3>1 DEF ClaimForApply
  <2>2. CASE RecordEvidence(c) \/ TakeGuard(c)
    BY <1>1, <2>2 DEF RecordEvidence, TakeGuard, history, StepOK, Told
  <2>3. QED  BY <1>4, <1>5, <2>1, <2>2, UpdateFromQuiet, UpdateQuiet DEF Proceed
<1>6. ASSUME NEW c \in Callers, Request(c)  PROVE StepOK
  <2>1. ASSUME NEW id \in Ids, NEW p \in Principals, NEW d \in Devices,
               create_change_set(c, id, p, d)
        PROVE  StepOK
    <3>1. UNCHANGED <<runs, retired, consent>> /\ minted \subseteq minted'
      BY <2>1 DEF create_change_set, insert_change_set
    <3>2. QED  BY <2>1, <3>1, CreateQuiet DEF StepOK, Told
  <2>2. ASSUME NEW id \in Ids,
               change_set_status(c, id) \/ \E p \in Principals : cancel_change_set(c, id, p)
        PROVE  StepOK
    <3>1. UNCHANGED <<store, minted, runs, consent>>
      BY <2>2 DEF change_set_status, cancel_change_set
    <3>2. \/ UNCHANGED retired
          \/ retired' = retired \cup {id} /\ changeSets[id].state \in {"Cancelled", "Expired"}
      BY <2>2 DEF change_set_status, cancel_change_set
    <3>3. changeSets[id].state \in {"Cancelled", "Expired"} =>
             Exists(changeSets[id]) /\ ~Unclaimed(changeSets[id]) /\ ~Unclaimed(file[id])
      BY DEF Exists, Unclaimed, SpendInv, SettledOnDisk, Terminal
    <3>4. Told  BY <3>1, <3>2, <3>3 DEF Told, store
    <3>5. QED  BY <1>1, <3>1, <3>4 DEF StepOK
  <2>3. ASSUME NEW id \in Ids,
               \/ \E p \in Principals : approve_change_set(c, id, p)
               \/ waive_approval(c, id)
               \/ \E kind, until : waive_approval_operator(c, id, kind, until)
               \/ VendorRendersPreview(c, id)
               \/ apply_change_set(c, id)
        PROVE  StepOK
    <3>1. UNCHANGED <<store, history>>
      BY <2>3 DEF approve_change_set, waive_approval, waive_approval_operator,
                  VendorRendersPreview, apply_change_set
    <3>2. QED  BY <1>1, <3>1 DEF history, StepOK, Told
  <2>4. ASSUME NEW id \in Ids, NEW noHandle \in BOOLEAN, VendorClaims(c, id, noHandle)
        PROVE  StepOK
    BY <1>3, <2>4 DEF VendorClaims
  <2>5. CASE CancelQueued(c) \/ GiveUpBeforeClaim(c)
    BY <1>1, <2>5 DEF CancelQueued, GiveUpBeforeClaim, history, StepOK, Told
  <2>6. CASE VendorRecordsTask(c)  BY <1>4, <2>6
  <2>7. QED  BY <1>6, <2>1, <2>2, <2>3, <2>4, <2>5, <2>6 DEF Request
<1>7. ASSUME Crash \/ (\E lab \in LabModes : load(lab)) \/ Tick  PROVE StepOK
  <2>1. UNCHANGED history  BY <1>7 DEF Crash, load, Tick
  <2>2. ASSUME NEW i \in Ids PROVE Quiet(i)
    <3>1. CASE Crash
      <4>1. changeSets'[i] = NoRecord /\ file'[i] = file[i]  BY <3>1 DEF Crash
      <4>2. ~Exists(NoRecord) /\ ~Unclaimed(NoRecord) /\ ~Terminal(NoRecord.state)
        BY DEF Exists, Unclaimed, Terminal, NoRecord
      <4>3. QED  BY <4>1, <4>2 DEF Quiet
    <3>2. CASE \E lab \in LabModes : load(lab)
      <4> DEFINE new == Recover(file)[i]
      <4>1. /\ file'[i] = new
            /\ changeSets'[i] = new \/ changeSets'[i] = changeSets[i]
        BY <3>2 DEF load
      <4>2. new = file[i] \/ (new.state = "Failed" /\ file[i].state = "Applying")
        BY RecoverTypes DEF TypeInv, StoreTypes
      <4> HIDE DEF new
      <4>3. /\ Unclaimed(new) => Unclaimed(file[i])
            /\ Exists(new) => Exists(file[i])
            /\ Terminal(new.state) => ~Unclaimed(new)
        BY <4>2 DEF Unclaimed, Exists, Terminal
      <4>4. Terminal(changeSets[i].state) => ~Unclaimed(file[i])
        BY DEF SpendInv, SettledOnDisk
      <4>5. QED  BY <4>1, <4>3, <4>4 DEF Quiet
    <3>3. CASE Tick  BY <1>1, <2>1, <3>3 DEF Tick, history
    <3>4. QED  BY <1>7, <3>1, <3>2, <3>3
  <2>3. QED  BY <2>1, <2>2 DEF history, StepOK, Told
<1>8. CASE Next  BY <1>4, <1>5, <1>6, <1>7, <1>8 DEF Next
<1>9. QED  BY <1>2, <1>8

\* The invariant behind "one approval, one run" is inductive.
LEMMA SpendStep == TypeInv /\ SpendInv /\ [Next]_vars => SpendInv'
<1> SUFFICES ASSUME TypeInv, SpendInv, [Next]_vars PROVE SpendInv'
  OBVIOUS
<1>1. StepOK  BY AllQuiet
<1>2. \A i \in Ids : Quiet(i)  BY <1>1 DEF StepOK
<1>3. Known(changeSets)' /\ Known(file)'
  <2>1. minted \subseteq minted'  BY <1>1 DEF StepOK
  <2>2. QED  BY <1>2, <2>1 DEF SpendInv, Known, Quiet
<1>4. SettledOnDisk'  BY <1>2 DEF SettledOnDisk, Quiet
<1>5. runs \in [Ids -> Nat]  BY DEF TypeInv, HistoryTypes
<1>6. ASSUME NEW i \in Ids, runs'[i] # 0 \/ i \in retired'
      PROVE  i \in minted' /\ ~Unclaimed(changeSets'[i]) /\ ~Unclaimed(file'[i])
  <2>1. CASE runs[i] # 0 \/ i \in retired
    BY <1>1, <1>2, <2>1 DEF SpendInv, Spent, Quiet, StepOK
  <2>2. CASE runs[i] = 0 /\ i \notin retired
    <3>1. \/ /\ changeSets[i].state = "Approved"
             /\ changeSets'[i].state = "Applying" /\ file'[i].state = "Applying"
          \/ Exists(changeSets[i]) /\ ~Unclaimed(changeSets'[i]) /\ ~Unclaimed(file'[i])
      BY <1>1, <1>5, <1>6, <2>2 DEF StepOK, Told
    <3>2. Exists(changeSets[i]) /\ ~Unclaimed(changeSets'[i]) /\ ~Unclaimed(file'[i])
      BY <3>1 DEF Exists, Unclaimed
    <3>3. i \in minted'  BY <1>1, <3>2 DEF SpendInv, Known, StepOK
    <3>4. QED  BY <3>2, <3>3
  <2>3. QED  BY <2>1, <2>2
<1>7. Spent'  BY <1>6 DEF Spent
<1>8. OneApprovalOneRun'
  <2>1. ASSUME NEW i \in Ids, changeSets[i].state = "Approved"  PROVE runs[i] = 0
    BY <2>1 DEF SpendInv, Spent, Unclaimed
  <2>2. QED  BY <1>1, <1>5, <2>1 DEF SpendInv, OneApprovalOneRun, StepOK, Told
<1>9. QED  BY <1>3, <1>4, <1>7, <1>8 DEF SpendInv

\* It holds initially: nothing is stored, run or retired.
LEMMA SpendInit == Init => SpendInv
<1> SUFFICES ASSUME Init PROVE SpendInv
  OBVIOUS
<1>1. ~Exists(NoRecord) /\ ~Unclaimed(NoRecord)  BY DEF Exists, Unclaimed, NoRecord
<1>2. QED  BY <1>1 DEF Init, SpendInv, Known, Spent, SettledOnDisk, OneApprovalOneRun

\* The inductive invariant of the store.
THEOREM AlwaysSpent == Spec => [](TypeInv /\ SpendInv)
BY TypeInit, TypeStep, SpendInit, SpendStep, PTL DEF Spec

\* One approval, one execution: claim_change_set_for_apply grants at most one
\* claim of a change set, whatever races, failed writes, crashes and restarts
\* surround it.
THEOREM ApprovalSpentOnce == Spec => []OneApprovalOneRun
<1>1. SpendInv => OneApprovalOneRun  BY DEF SpendInv
<1>2. QED  BY <1>1, AlwaysSpent, PTL

\* A change set reported Cancelled or Expired is never claimed afterwards.
THEOREM RetiredStaysRetired == Spec => RetiredNeverRuns
<1>1. ASSUME TypeInv, SpendInv, [Next]_vars
      PROVE  [\A i \in Ids : i \in retired => runs'[i] = runs[i]]_vars
  <2>1. StepOK  BY <1>1, AllQuiet
  <2>2. runs \in [Ids -> Nat]  BY <1>1 DEF TypeInv, HistoryTypes
  <2>3. ASSUME NEW i \in Ids, changeSets[i].state = "Approved"  PROVE i \notin retired
    BY <1>1, <2>3 DEF SpendInv, Spent, Unclaimed
  <2>4. QED  BY <2>1, <2>2, <2>3 DEF StepOK, Told
<1>2. QED  BY <1>1, AlwaysSpent, PTL DEF Spec, RetiredNeverRuns

-----------------------------------------------------------------------------
(* A claim on disk is a claim in memory *)

\* A gated write never makes the file the only holder of a claim.
LEMMA WriteRemembers ==
    ASSUME StoreTypes, NEW id \in Ids, NEW next \in ChangeSetRecord, Write(id, next),
           NEW i \in Ids, file[i].state = "Applying" => changeSets[i].state = "Applying",
           file'[i].state = "Applying"
    PROVE  changeSets'[i].state = "Applying"
<1> DEFINE new == [changeSets EXCEPT ![id] = next]
<1>1. PICK outcome \in Outcomes : PersistOrRollBack(changeSets, new, outcome)
  BY DEF Write
<1>2. next.state = "Applying" => changeSets[id].state = "Applying"
  BY GateKeepsClaims DEF Write
<1>3. new[i] = changeSets[i] \/ (i = id /\ new[i] = next)  BY DEF StoreTypes
<1> HIDE DEF new
<1>4. QED  BY <1>1, <1>2, <1>3 DEF PersistOrRollBack, FileAfter

\* Every step keeps the claims the file records.
LEMMA RememberStep == TypeInv /\ ClaimNotForgotten /\ [Next]_vars => ClaimNotForgotten'
<1> SUFFICES ASSUME TypeInv, ClaimNotForgotten, [Next]_vars, up',
                    NEW i \in Ids, file'[i].state = "Applying"
             PROVE  changeSets'[i].state = "Applying"
  BY DEF ClaimNotForgotten
<1>1. StoreTypes /\ CallTypes  BY DEF TypeInv
<1>2. up => (file[i].state = "Applying" => changeSets[i].state = "Applying")
  BY DEF ClaimNotForgotten
<1>3. CASE UNCHANGED <<store, up>>  BY <1>2, <1>3 DEF store
<1>4. ASSUME NEW c \in Callers, NEW id \in Ids, NEW noHandle \in BOOLEAN, NEW step, up,
             claim_change_set_for_apply(c, id, noHandle, step)
      PROVE  changeSets'[i].state = "Applying"
  <2> DEFINE claimed == [changeSets[id] EXCEPT !.state = "Applying", !.noHandle = noHandle]
             held == [changeSets EXCEPT ![id] = claimed]
  <2>1. claimed.state = "Applying"  BY <1>1 DEF StoreTypes, ChangeSetRecord
  <2> HIDE DEF claimed
  <2>2. \/ UNCHANGED store
        \/ /\ changeSets' = held
           /\ file' = file \/ file' = held
    BY <1>4 DEF claim_change_set_for_apply, MemoryAfterClaim, FileAfter, claimed
  <2>3. held[i] = changeSets[i] \/ held[i] = claimed  BY <1>1 DEF StoreTypes
  <2> HIDE DEF held
  <2>4. /\ held[i].state = "Applying" \/ held[i] = changeSets[i]
        /\ up
    BY <1>4, <2>1, <2>3
  <2>5. QED  BY <1>2, <2>2, <2>4 DEF store
<1>5. ASSUME up,
             \/ \E c \in Callers : LinkOperation(c) \/ VendorRecordsTask(c) \/ SettleApply(c)
             \/ \E id \in Ids : VendorReprobes(id)
      PROVE  changeSets'[i].state = "Applying"
  <2>1. UNCHANGED store => changeSets'[i].state = "Applying"  BY <1>2, <1>5 DEF store
  <2>2. QED  BY <1>1, <1>2, <1>5, <2>1, ApplyWrites, WriteRemembers
<1>6. ASSUME NEW c \in Callers, Proceed(c)  PROVE changeSets'[i].state = "Applying"
  <2>1. up /\ up' = up
    BY <1>6 DEF Proceed, update_change_set_from, RecordEvidence, update_change_set, TakeGuard,
                ClaimForApply, LinkOperation, SettleApply, process
  <2>2. CASE ClaimForApply(c)
    <3>1. calls[c].id \in Ids  BY <1>1, <2>2 DEF ClaimForApply, CallTypes, CallsWellFormed
    <3>2. QED  BY <1>4, <2>1, <2>2, <3>1 DEF ClaimForApply
  <2>3. CASE RecordEvidence(c) \/ TakeGuard(c)
    BY <1>3, <2>1, <2>3 DEF RecordEvidence, TakeGuard
  <2>4. CASE update_change_set_from(c) \/ update_change_set(c)
    <3> DEFINE next == normalise_apply_marker(calls[c].next)
    <3>1. calls[c].step # "idle"  BY <2>4 DEF update_change_set_from, update_change_set
    <3>2. calls[c].id \in Ids /\ calls[c].next \in ChangeSetRecord
      BY <1>1, <3>1 DEF CallTypes, CallsWellFormed, Call
    <3>3. next \in ChangeSetRecord  BY <3>2, SetDetail
    <3>4. UNCHANGED store \/ Write(calls[c].id, next)
      BY <2>4 DEF update_change_set_from, update_change_set, Write
    <3> HIDE DEF next
    <3>5. QED  BY <1>1, <1>2, <1>3, <2>1, <3>2, <3>3, <3>4, WriteRemembers
  <2>5. QED  BY <1>5, <1>6, <2>1, <2>2, <2>3, <2>4 DEF Proceed
<1>7. ASSUME NEW c \in Callers, Request(c)  PROVE changeSets'[i].state = "Applying"
  <2>1. ASSUME NEW id \in Ids, NEW p \in Principals, NEW d \in Devices,
               create_change_set(c, id, p, d)
        PROVE  changeSets'[i].state = "Applying"
    <3> DEFINE kept == EvictTerminal(Sweep(changeSets, clock))
               record == [NoRecord EXCEPT !.state = "Planned", !.owner = p,
                                          !.device = d, !.expires = clock + ApprovalTtl]
               inserted == [kept EXCEPT ![id] = record]
    <3>1. record.state = "Planned"  BY EmptyTypes DEF ChangeSetRecord
    <3>2. "Expired" \in ChangeSetState  BY DEF ChangeSetState
    <3>3. /\ kept \in [Ids -> ChangeSetRecord]
          /\ \/ kept[i] = changeSets[i]
             \/ kept[i] = NoRecord /\ changeSets[i].state # "Applying"
             \/ /\ kept[i] = [changeSets[i] EXCEPT !.state = "Expired"]
                /\ Unclaimed(changeSets[i])
      BY <1>1, KeptTypes DEF StoreTypes
    <3>4. [changeSets[i] EXCEPT !.state = "Expired"].state = "Expired"
      BY <1>1, <3>2, SetState DEF StoreTypes
    <3> HIDE DEF kept, record
    <3>5. kept[i].state = "Applying" <=> changeSets[i].state = "Applying"
      <4>1. NoRecord.state # "Applying"  BY DEF NoRecord
      <4>2. Unclaimed(changeSets[i]) => changeSets[i].state # "Applying"  BY DEF Unclaimed
      <4>3. "Expired" # "Applying"  OBVIOUS
      <4>4. QED  BY <3>3, <3>4, <4>1, <4>2, <4>3, Zenon
    <3>6. inserted[i] = kept[i] \/ inserted[i] = record  BY <3>3
    <3> HIDE DEF inserted
    <3>7. up /\ up' = up  BY <2>1 DEF create_change_set, insert_change_set, Begins, process
    <3>8. \/ changeSets'[i] = changeSets[i] /\ file'[i] = file[i]
          \/ changeSets'[i] = changeSets[i] /\ file'[i] = kept[i]
          \/ changeSets'[i] = kept[i] /\ file'[i] = kept[i]
          \/ changeSets'[i] = kept[i] /\ file'[i] = inserted[i]
          \/ changeSets'[i] = inserted[i] /\ file'[i] = inserted[i]
      <4>1. CASE \E outcome \in {"lost", "unsure"} : PersistOrRollBack(changeSets, kept, outcome)
        BY <4>1 DEF PersistOrRollBack, FileAfter
      <4>2. CASE PersistOrRollBack(changeSets, kept, "ok")
        BY <4>2 DEF PersistOrRollBack, FileAfter
      <4>3. CASE \E outcome \in Outcomes :
                    /\ changeSets' = IF outcome = "ok" THEN inserted ELSE kept
                    /\ file' = FileAfter(IF kept = changeSets THEN file ELSE kept,
                                         inserted, outcome)
        BY <4>3 DEF FileAfter, Outcomes
      <4>4. QED  BY <2>1, <4>1, <4>2, <4>3 DEF create_change_set, insert_change_set, kept, record, inserted
    <3>9. inserted[i].state = "Applying" => kept[i].state = "Applying"  BY <3>1, <3>6
    <3>10. QED  BY <1>2, <3>5, <3>7, <3>8, <3>9
  <2>2. ASSUME NEW id \in Ids, NEW noHandle \in BOOLEAN, VendorClaims(c, id, noHandle)
        PROVE  changeSets'[i].state = "Applying"
    BY <1>4, <2>2 DEF VendorClaims, Begins
  <2>3. CASE VendorRecordsTask(c)  BY <1>5, <2>3 DEF VendorRecordsTask
  <2>4. CASE CancelQueued(c) \/ GiveUpBeforeClaim(c)
    BY <1>3, <2>4 DEF CancelQueued, GiveUpBeforeClaim, process
  <2>5. ASSUME NEW id \in Ids,
               \/ \E p \in Principals : approve_change_set(c, id, p)
               \/ waive_approval(c, id)
               \/ \E kind, until : waive_approval_operator(c, id, kind, until)
               \/ change_set_status(c, id)
               \/ \E p \in Principals : cancel_change_set(c, id, p)
               \/ VendorRendersPreview(c, id)
               \/ apply_change_set(c, id)
        PROVE  changeSets'[i].state = "Applying"
    <3>1. UNCHANGED <<store, process>>
      BY <2>5 DEF approve_change_set, waive_approval, waive_approval_operator,
                  change_set_status, cancel_change_set, VendorRendersPreview, apply_change_set
    <3>2. QED  BY <1>3, <3>1 DEF process
  <2>6. QED  BY <1>7, <2>1, <2>2, <2>3, <2>4, <2>5 DEF Request
<1>8. ASSUME Crash \/ (\E lab \in LabModes : load(lab)) \/ Tick
      PROVE  changeSets'[i].state = "Applying"
  <2>1. CASE Crash  BY <2>1 DEF Crash
  <2>2. CASE \E lab \in LabModes : load(lab)  BY <2>2 DEF load
  <2>3. CASE Tick  BY <1>3, <2>3 DEF Tick, process
  <2>4. QED  BY <1>8, <2>1, <2>2, <2>3
<1>9. CASE Next
  <2>1. \A id \in Ids : VendorReprobes(id) => up  BY DEF VendorReprobes
  <2>2. QED  BY <1>5, <1>6, <1>7, <1>8, <1>9, <2>1 DEF Next
<1>10. CASE UNCHANGED vars  BY <1>3, <1>10 DEF vars, store
<1>11. QED  BY <1>9, <1>10

\* While the server runs, a claim the file may hold is never available again:
\* the branch of claim_change_set_for_apply that keeps an unpersisted claim.
THEOREM ClaimsAreKept == Spec => []ClaimNotForgotten
<1>1. Init => ClaimNotForgotten
  BY DEF Init, ClaimNotForgotten, NoRecord
<1>2. QED  BY <1>1, RememberStep, AlwaysTyped, PTL DEF Spec

-----------------------------------------------------------------------------
(* Every run was authorised *)

\* A record that is neither Planned nor Approved is granted by anybody.
LEMMA SettledGranted ==
    ASSUME NEW who, NEW r, ~Unclaimed(r)
    PROVE  Granted(who, r)
BY DEF Granted, Unclaimed

\* Consent only grows, and what was granted stays granted.
LEMMA GrantedGrows ==
    ASSUME NEW less, NEW more, less \subseteq more, NEW r, Granted(less, r)
    PROVE  Granted(more, r)
BY DEF Granted, Authorised

\* Persisting keeps each copy of a record old or makes it new.
LEMMA PersistShape ==
    ASSUME NEW new, NEW outcome, PersistOrRollBack(changeSets, new, outcome), NEW i \in Ids
    PROVE  /\ changeSets'[i] = changeSets[i] \/ changeSets'[i] = new[i]
           /\ file'[i] = file[i] \/ file'[i] = new[i]
BY DEF PersistOrRollBack, FileAfter

\* A gated write of a granted record keeps the stores granted.
LEMMA WriteGranted ==
    ASSUME StoreTypes, GrantInv, NEW id \in Ids, NEW next \in ChangeSetRecord, Write(id, next),
           \A i \in Ids : consent[i] \subseteq consent'[i],
           Granted(consent'[id], next)
    PROVE  \A i \in Ids : Granted(consent'[i], changeSets'[i]) /\ Granted(consent'[i], file'[i])
<1> SUFFICES ASSUME NEW i \in Ids
             PROVE  Granted(consent'[i], changeSets'[i]) /\ Granted(consent'[i], file'[i])
  OBVIOUS
<1> DEFINE new == [changeSets EXCEPT ![id] = next]
<1>1. /\ changeSets'[i] = changeSets[i] \/ changeSets'[i] = new[i]
      /\ file'[i] = file[i] \/ file'[i] = new[i]
  <2>1. PICK outcome \in Outcomes : PersistOrRollBack(changeSets, new, outcome)  BY DEF Write
  <2> HIDE DEF new
  <2>2. QED  BY <2>1, PersistShape
<1>2. new[i] = changeSets[i] \/ (i = id /\ new[i] = next)  BY DEF StoreTypes
<1>3. Granted(consent'[i], changeSets[i]) /\ Granted(consent'[i], file[i])
  BY GrantedGrows DEF GrantInv
<1> HIDE DEF new
<1>4. QED  BY <1>1, <1>2, <1>3

\* Calls that did not move keep what they are about to write granted.
LEMMA CallStaysGranted ==
    ASSUME NEW k, CallGranted(consent, k), k.step # "idle" => k.id \in Ids,
           \A i \in Ids : consent[i] \subseteq consent'[i]
    PROVE  CallGranted(consent', k)
<1>1. CASE k.step = "overwrite"
  <2>1. k.id \in Ids  BY <1>1
  <2>2. Granted(consent'[k.id], k.next)  BY <1>1, <2>1, GrantedGrows DEF CallGranted
  <2>3. QED  BY <1>1, <2>2 DEF CallGranted
<1>2. CASE k.step # "overwrite"  BY <1>2 DEF CallGranted
<1>3. QED  BY <1>1, <1>2

\* A call that returns or moves on leaves the calls granted if what it moves
\* on with is.
LEMMA CallsGranted ==
    ASSUME TypeInv, GrantInv, NEW c \in Callers,
           \A i \in Ids : consent[i] \subseteq consent'[i],
           \/ Return(c)
           \/ \E step \in Steps, id \in Ids, observed \in ChangeSetState \cup {"Absent"},
                 next \in ChangeSetRecord :
                 /\ Continue(c, step, id, observed, next)
                 /\ step = "update" => /\ next.state = "Approved" => WellGranted(next)
                                       /\ next.state # "Planned"
                 /\ step = "overwrite" => Granted(consent'[id], next)
                 /\ step \in {"link", "settle", "vendor"} => next.state = "Applying"
    PROVE  \A x \in Callers : CallGranted(consent', calls'[x])
<1>1. calls \in [Callers -> Call] /\ CallsWellFormed  BY DEF TypeInv, CallTypes
<1>2. ASSUME NEW x \in Callers \ {c}  PROVE CallGranted(consent', calls[x])
  BY <1>2, CallStaysGranted, <1>1 DEF GrantInv, CallsWellFormed
<1>3. CASE Return(c)
  <2>1. calls'[c].step = "idle" /\ \A x \in Callers \ {c} : calls'[x] = calls[x]
    BY <1>1, <1>3, ReturnTypes
  <2>2. CallGranted(consent', calls'[c])  BY <2>1 DEF CallGranted
  <2>3. QED  BY <1>2, <2>1, <2>2
<1>4. ASSUME NEW step \in Steps, NEW id \in Ids,
             NEW observed \in ChangeSetState \cup {"Absent"}, NEW next \in ChangeSetRecord,
             Continue(c, step, id, observed, next),
             step = "update" => /\ next.state = "Approved" => WellGranted(next)
                                /\ next.state # "Planned",
             step = "overwrite" => Granted(consent'[id], next),
             step \in {"link", "settle", "vendor"} => next.state = "Applying"
      PROVE  \A x \in Callers : CallGranted(consent', calls'[x])
  <2>1. /\ calls'[c].step = step /\ calls'[c].id = id /\ calls'[c].next = next
        /\ \A x \in Callers \ {c} : calls'[x] = calls[x]
    BY <1>1, <1>4, ContinueTypes
  <2>2. CallGranted(consent', calls'[c])  BY <1>4, <2>1 DEF CallGranted
  <2>3. QED  BY <1>2, <2>1, <2>2
<1>5. QED  BY <1>3, <1>4

\* Planning stores records that need no approval yet.
LEMMA CreateGranted ==
    ASSUME TypeInv, GrantInv, NEW c \in Callers, NEW id \in Ids, NEW owner \in Principals,
           NEW device \in Devices, create_change_set(c, id, owner, device)
    PROVE  GrantInv'
<1> DEFINE kept == EvictTerminal(Sweep(changeSets, clock))
           record == [NoRecord EXCEPT !.state = "Planned", !.owner = owner,
                                      !.device = device, !.expires = clock + ApprovalTtl]
           inserted == [kept EXCEPT ![id] = record]
<1>1. StoreTypes  BY DEF TypeInv
<1>2. UNCHANGED <<calls, consent>>  BY DEF create_change_set, insert_change_set
<1>3. record.state = "Planned" /\ record.approver = NoOne
  <2>1. NoRecord.approver = NoOne  BY DEF NoRecord
  <2>2. QED  BY <2>1, EmptyTypes DEF ChangeSetRecord
<1>4. kept \in [Ids -> ChangeSetRecord]  BY <1>1, KeptTypes DEF StoreTypes
<1>5. ASSUME NEW i \in Ids PROVE Granted(consent[i], kept[i])
  <2>1. \/ kept[i] = changeSets[i]
        \/ kept[i] = NoRecord
        \/ kept[i] = [changeSets[i] EXCEPT !.state = "Expired"]
    BY <1>1, KeptTypes DEF StoreTypes
  <2>2. "Expired" \in ChangeSetState  BY DEF ChangeSetState
  <2>3. [changeSets[i] EXCEPT !.state = "Expired"].state = "Expired"
    BY <1>1, <2>2, SetState DEF StoreTypes
  <2>4. ~Unclaimed(NoRecord) /\ ~Unclaimed([changeSets[i] EXCEPT !.state = "Expired"])
    BY <2>3 DEF Unclaimed, NoRecord
  <2> HIDE DEF kept
  <2>5. QED  BY <2>1, <2>4, SettledGranted, Zenon DEF GrantInv
<1> HIDE DEF kept, record
<1>6. ASSUME NEW i \in Ids PROVE Granted(consent[i], inserted[i])
  <2>1. inserted[i] = kept[i] \/ inserted[i] = record  BY <1>4
  <2>2. Granted(consent[i], record)  BY <1>3 DEF Granted
  <2>3. QED  BY <1>5, <2>1, <2>2
<1> HIDE DEF inserted
<1>7. ASSUME NEW i \in Ids
      PROVE  Granted(consent[i], changeSets'[i]) /\ Granted(consent[i], file'[i])
  <2>1. /\ changeSets'[i] = changeSets[i] \/ changeSets'[i] = kept[i] \/ changeSets'[i] = inserted[i]
        /\ file'[i] = file[i] \/ file'[i] = kept[i] \/ file'[i] = inserted[i]
    <3>1. CASE \E outcome \in {"lost", "unsure"} : PersistOrRollBack(changeSets, kept, outcome)
      BY <3>1 DEF PersistOrRollBack, FileAfter
    <3>2. CASE PersistOrRollBack(changeSets, kept, "ok")
      BY <3>2 DEF PersistOrRollBack, FileAfter
    <3>3. CASE \E outcome \in Outcomes :
                  /\ changeSets' = IF outcome = "ok" THEN inserted ELSE kept
                  /\ file' = FileAfter(IF kept = changeSets THEN file ELSE kept,
                                       inserted, outcome)
      BY <3>3 DEF FileAfter, Outcomes
    <3>4. QED  BY <3>1, <3>2, <3>3 DEF create_change_set, insert_change_set, kept, record, inserted
  <2>2. QED  BY <1>5, <1>6, <2>1, Zenon DEF GrantInv
<1>8. QED  BY <1>2, <1>7 DEF GrantInv

\* What the reads of approve, waive, status, cancel, render and apply move on
\* with is granted.
LEMMA ReadGranted ==
    ASSUME TypeInv, GrantInv, NEW c \in Callers, NEW id \in Ids,
           \/ \E p \in Principals : approve_change_set(c, id, p)
           \/ waive_approval(c, id)
           \/ waive_approval_operator(c, id, "operator", 0)
           \/ \E until \in 1 .. MaxClock : waive_approval_operator(c, id, "timed", until)
           \/ change_set_status(c, id)
           \/ \E p \in Principals : cancel_change_set(c, id, p)
           \/ VendorRendersPreview(c, id)
           \/ apply_change_set(c, id)
    PROVE  GrantInv'
<1> DEFINE r == changeSets[id]
           s == r.state
           calls_ok == \A x \in Callers : CallGranted(consent', calls'[x])
<1>1. StoreTypes  BY DEF TypeInv
<1>2. r \in ChangeSetRecord  BY <1>1 DEF StoreTypes
<1>3. s \in ChangeSetState \cup {"Absent"}  BY <1>2 DEF ChangeSetRecord
<1>4. UNCHANGED <<store, consent>>
  BY DEF approve_change_set, waive_approval, waive_approval_operator, change_set_status,
         cancel_change_set, VendorRendersPreview, apply_change_set, history
<1>5. \A i \in Ids : consent[i] \subseteq consent'[i]  BY <1>4
<1>6. Granted(consent[id], r)  BY DEF GrantInv
<1>7. LET e == [r EXCEPT !.state = "Expired"]
          x == [r EXCEPT !.state = "Cancelled"] IN
      /\ e \in ChangeSetRecord /\ e.state = "Expired"
      /\ x \in ChangeSetRecord /\ x.state = "Cancelled"
  <2>1. "Expired" \in ChangeSetState /\ "Cancelled" \in ChangeSetState  BY DEF ChangeSetState
  <2>2. QED  BY <1>2, <2>1, SetState
<1>8. "update" \in Steps /\ "overwrite" \in Steps /\ "queued" \in Steps  BY DEF Steps
<1>9. ASSUME NEW step \in {"update", "overwrite"}, NEW n \in ChangeSetRecord,
             Continue(c, step, id, s, n), n.state \in {"Expired", "Cancelled"}
      PROVE  calls_ok
  <2>1. ~Unclaimed(n)  BY <1>9 DEF Unclaimed
  <2>2. Granted(consent'[id], n)  BY <2>1, SettledGranted
  <2>3. QED  BY <1>3, <1>5, <1>8, <1>9, <2>2, CallsGranted
<1>10. ASSUME NEW n \in ChangeSetRecord, Continue(c, "update", id, s, n),
              n.state = "Approved", WellGranted(n)
       PROVE  calls_ok
  BY <1>3, <1>5, <1>8, <1>10, CallsGranted
<1>11. UNCHANGED calls => calls_ok  BY <1>4 DEF GrantInv
<1> HIDE DEF r, s
<1>12. ASSUME NEW p \in Principals, approve_change_set(c, id, p)  PROVE calls_ok
  <2> DEFINE n == [r EXCEPT !.state = "Approved", !.approver = p, !.signed = r.preview]
  <2>1. n \in ChangeSetRecord /\ n.state = "Approved" /\ n.owner = r.owner /\ n.approver = p
    BY <1>2, SetApproval
  <2>2. r.owner # p /\ p \in Humans
        /\ (Continue(c, "update", id, s, [r EXCEPT !.state = "Expired"])
            \/ Continue(c, "update", id, s, n))
    BY <1>12 DEF approve_change_set, MayApprove, r, s
  <2> HIDE DEF n
  <2>3. WellGranted(n)  BY <2>1, <2>2 DEF WellGranted
  <2>4. QED  BY <1>7, <1>9, <1>10, <2>1, <2>2, <2>3
<1>13. ASSUME NEW n \in ChangeSetRecord, s = "Planned", n.state = "Approved",
              n.approver = r.approver, n.waiver # "none",
              \/ Continue(c, "update", id, s, [r EXCEPT !.state = "Expired"])
              \/ Continue(c, "update", id, s, n)
       PROVE  calls_ok
  <2>1. r.approver = NoOne  BY <1>6, <1>13 DEF Granted, s
  <2>2. WellGranted(n)  BY <1>13, <2>1 DEF WellGranted
  <2>3. QED  BY <1>7, <1>9, <1>10, <1>13, <2>2
<1>14. ASSUME waive_approval(c, id)  PROVE calls_ok
  <2> DEFINE n == [r EXCEPT !.state = "Approved", !.waiver = "lab"]
  <2>1. n \in ChangeSetRecord /\ n.state = "Approved" /\ n.approver = r.approver /\ n.waiver = "lab"
    BY <1>2, SetWaiver, 0 \in Nat, ZenonT(60) DEF WaiverKind
  <2>2. s = "Planned" /\ (Continue(c, "update", id, s, [r EXCEPT !.state = "Expired"])
                          \/ Continue(c, "update", id, s, n))
    BY <1>14 DEF waive_approval, r, s
  <2> HIDE DEF n
  <2>3. n.waiver # "none"  BY <2>1
  <2>4. QED  BY <1>13, <2>1, <2>2, <2>3
<1>15. ASSUME NEW kind \in {"operator", "timed"}, NEW until \in Nat,
              waive_approval_operator(c, id, kind, until)
       PROVE  calls_ok
  <2> DEFINE n == [r EXCEPT !.state = "Approved", !.waiver = kind, !.until = until]
  <2>1. kind \in WaiverKind  BY DEF WaiverKind
  <2>2. n \in ChangeSetRecord /\ n.state = "Approved" /\ n.approver = r.approver /\ n.waiver = kind
    BY <1>2, <2>1 DEF ChangeSetRecord, ChangeSetState
  <2>3. s = "Planned" /\ (Continue(c, "update", id, s, [r EXCEPT !.state = "Expired"])
                          \/ Continue(c, "update", id, s, n))
    BY <1>15 DEF waive_approval_operator, r, s
  <2> HIDE DEF n
  <2>4. n.waiver # "none"  BY <2>2
  <2>5. QED  BY <1>13, <2>2, <2>3, <2>4
<1>16. ASSUME change_set_status(c, id)  PROVE calls_ok
  <2>1. UNCHANGED calls \/ Continue(c, "update", id, s, [r EXCEPT !.state = "Expired"])
    BY <1>16 DEF change_set_status, r, s
  <2>2. QED  BY <1>7, <1>9, <1>11, <2>1
<1>17. ASSUME NEW p \in Principals, cancel_change_set(c, id, p)  PROVE calls_ok
  <2>1. UNCHANGED calls \/ Continue(c, "update", id, s, [r EXCEPT !.state = "Cancelled"])
    BY <1>17 DEF cancel_change_set, r, s
  <2>2. QED  BY <1>7, <1>9, <1>11, <2>1
<1>18. ASSUME VendorRendersPreview(c, id)  PROVE calls_ok
  <2> DEFINE n == [r EXCEPT !.preview = 1 - r.preview]
  <2>1. /\ n \in ChangeSetRecord
        /\ n.state = r.state /\ n.owner = r.owner /\ n.approver = r.approver
        /\ n.waiver = r.waiver
    BY <1>2, SetDetail
  <2>2. Continue(c, "overwrite", id, s, n)  BY <1>18 DEF VendorRendersPreview, r, s
  <2> HIDE DEF n
  <2>3. Granted(consent[id], n)  BY <1>6, <2>1 DEF Granted, Authorised
  <2>4. Granted(consent'[id], n)  BY <1>4, <2>3
  <2>5. QED  BY <1>3, <1>5, <1>8, <2>1, <2>2, <2>4, CallsGranted
<1>19. ASSUME apply_change_set(c, id)  PROVE calls_ok
  <2>1. \/ Continue(c, "overwrite", id, s, [r EXCEPT !.state = "Expired"])
        \/ Continue(c, "queued", id, s, r)
    BY <1>19 DEF apply_change_set, r, s
  <2>2. CASE Continue(c, "queued", id, s, r)
    BY <1>2, <1>3, <1>5, <1>8, <2>2, CallsGranted
  <2>3. QED  BY <1>7, <1>9, <2>1, <2>2
<1>20. calls_ok
  <2>1. 0 \in Nat /\ \A u \in 1 .. MaxClock : u \in Nat  BY ConstantsAssumption
  <2> HIDE DEF calls_ok
  <2>2. QED  BY <1>12, <1>14, <1>15, <1>16, <1>17, <1>18, <1>19, <2>1
<1>21. QED  BY <1>4, <1>20 DEF GrantInv, store

\* The write halves store what the call was granted.
LEMMA UpdateGranted ==
    ASSUME TypeInv, GrantInv, NEW c \in Callers,
           update_change_set_from(c) \/ update_change_set(c)
    PROVE  GrantInv'
<1> DEFINE k == calls[c]
           next == normalise_apply_marker(k.next)
           who == Authority(next)
<1>1. StoreTypes /\ CallTypes /\ HistoryTypes  BY DEF TypeInv
<1>2. k \in Call /\ k.step # "idle"
  BY <1>1 DEF CallTypes, update_change_set_from, update_change_set
<1>3. k.id \in Ids  BY <1>1, <1>2 DEF CallTypes, CallsWellFormed
<1>4. k.next \in ChangeSetRecord /\ k.observed \in ChangeSetState \cup {"Absent"}
  BY <1>2 DEF Call
<1>5. /\ next \in ChangeSetRecord /\ next.state = k.next.state /\ next.owner = k.next.owner
      /\ next.approver = k.next.approver /\ next.waiver = k.next.waiver
  BY <1>4, SetDetail
<1>6. CallGranted(consent, k)  BY DEF GrantInv
<1> HIDE DEF next
<1>7. consent \in [Ids -> SUBSET Principals]  BY <1>1 DEF HistoryTypes
<1>8. \/ consent' = consent
      \/ consent' = [consent EXCEPT ![k.id] = @ \cup {who}]
  BY DEF update_change_set_from, update_change_set, next
<1>9. \A i \in Ids : consent[i] \subseteq consent'[i]  BY <1>3, <1>7, <1>8
<1>10. UNCHANGED store \/ Write(k.id, next)
  BY DEF update_change_set_from, update_change_set, Write, next
<1>11. Write(k.id, next) => Granted(consent'[k.id], next) \/ UNCHANGED store
  <2>1. CASE update_change_set(c)
    <3>1. k.step = "overwrite"  BY <2>1 DEF update_change_set
    <3>2. Granted(consent[k.id], k.next)  BY <1>6, <3>1 DEF CallGranted
    <3>3. Granted(consent[k.id], next)  BY <1>5, <3>2 DEF Granted, Authorised
    <3>4. QED  BY <1>3, <1>9, <3>3, GrantedGrows
  <2>2. CASE update_change_set_from(c)
    <3>1. k.step = "update"  BY <2>2 DEF update_change_set_from
    <3>2. /\ next.state = "Approved" => WellGranted(next)
          /\ next.state # "Planned"
      BY <1>5, <1>6, <3>1 DEF CallGranted, WellGranted
    <3>3. CASE next.state # "Approved"  BY <3>2, <3>3 DEF Granted
    <3>4. CASE next.state = "Approved"
      <4>1. UNCHANGED store \/ consent' = [consent EXCEPT ![k.id] = @ \cup {who}]
        BY <2>2, <3>4 DEF update_change_set_from, next
      <4>2. CASE consent' = [consent EXCEPT ![k.id] = @ \cup {who}]
        <5>1. who \in consent'[k.id]  BY <1>3, <1>7, <4>2
        <5>2. NoOne \notin Humans  BY ConstantsAssumption
        <5>3. Authorised(consent'[k.id], next)
          BY <3>2, <3>4, <5>1, <5>2 DEF WellGranted, Authorised, Authority
        <5>4. QED  BY <3>4, <5>3 DEF Granted
      <4>3. QED  BY <4>1, <4>2
    <3>5. QED  BY <3>3, <3>4
  <2>3. QED  BY <2>1, <2>2
<1>12. \A i \in Ids : Granted(consent'[i], changeSets'[i]) /\ Granted(consent'[i], file'[i])
  <2>1. CASE UNCHANGED store
    BY <1>9, <2>1, GrantedGrows DEF store, GrantInv
  <2>2. CASE Write(k.id, next) /\ Granted(consent'[k.id], next)
    BY <1>1, <1>3, <1>5, <1>9, <2>2, WriteGranted
  <2>3. QED  BY <1>10, <1>11, <2>1, <2>2
<1>13. \A x \in Callers : CallGranted(consent', calls'[x])
  <2>1. Return(c) \/ Continue(c, "emit", k.id, k.observed, next)
    BY DEF update_change_set_from, update_change_set, next
  <2>2. "emit" \in Steps  BY DEF Steps
  <2> HIDE DEF k
  <2>3. QED  BY <1>3, <1>4, <1>5, <1>9, <2>1, <2>2, CallsGranted
<1>14. QED  BY <1>12, <1>13 DEF GrantInv

\* The claim writes an Applying record and carries on with it.
LEMMA ClaimGranted ==
    ASSUME TypeInv, GrantInv, NEW c \in Callers, NEW id \in Ids, NEW noHandle \in BOOLEAN,
           NEW step \in Steps \ {"update", "overwrite"},
           claim_change_set_for_apply(c, id, noHandle, step), UNCHANGED consent
    PROVE  GrantInv'
<1> DEFINE claimed == [changeSets[id] EXCEPT !.state = "Applying", !.noHandle = noHandle]
           held == [changeSets EXCEPT ![id] = claimed]
<1>1. StoreTypes  BY DEF TypeInv
<1>2. claimed \in ChangeSetRecord  BY <1>1, SetClaim DEF StoreTypes
<1>3. claimed.state = "Applying"  BY <1>1 DEF StoreTypes, ChangeSetRecord
<1>4. \A i \in Ids : consent[i] \subseteq consent'[i]  OBVIOUS
<1> HIDE DEF claimed
<1>5. /\ changeSets' = changeSets \/ changeSets' = held
      /\ file' = file \/ file' = held
      /\ Return(c) \/ Continue(c, step, id, "Applying", claimed)
  BY DEF claim_change_set_for_apply, MemoryAfterClaim, FileAfter, store, claimed
<1>6. ASSUME NEW i \in Ids PROVE Granted(consent[i], held[i])
  <2>1. held[i] = changeSets[i] \/ held[i] = claimed  BY <1>1 DEF StoreTypes
  <2>2. ~Unclaimed(claimed)  BY <1>3 DEF Unclaimed
  <2>3. Granted(consent[i], claimed)  BY <2>2, SettledGranted
  <2>4. QED  BY <2>1, <2>3 DEF GrantInv
<1> HIDE DEF held
<1>7. \A i \in Ids : Granted(consent'[i], changeSets'[i]) /\ Granted(consent'[i], file'[i])
  BY <1>5, <1>6 DEF GrantInv
<1>8. \A x \in Callers : CallGranted(consent', calls'[x])
  <2>1. "Applying" \in ChangeSetState \cup {"Absent"}  BY DEF ChangeSetState
  <2>2. QED  BY <1>2, <1>3, <1>4, <1>5, <2>1, CallsGranted
<1>9. QED  BY <1>7, <1>8 DEF GrantInv

\* The steps of a call that write nothing, and those after the claim.
LEMMA OtherCallsGranted ==
    ASSUME TypeInv, GrantInv,
           \/ \E c \in Callers :
                 \/ RecordEvidence(c) \/ CancelQueued(c) \/ GiveUpBeforeClaim(c) \/ TakeGuard(c)
                 \/ LinkOperation(c) \/ VendorRecordsTask(c) \/ SettleApply(c)
           \/ \E id \in Ids : VendorReprobes(id)
    PROVE  GrantInv'
<1>1. StoreTypes /\ CallTypes  BY DEF TypeInv
<1>2. UNCHANGED consent
  BY DEF RecordEvidence, CancelQueued, GiveUpBeforeClaim, TakeGuard, LinkOperation,
         VendorRecordsTask, SettleApply, VendorReprobes, history
<1>3. \A i \in Ids : consent[i] \subseteq consent'[i]  BY <1>2
<1>4. \A i \in Ids : Granted(consent'[i], changeSets'[i]) /\ Granted(consent'[i], file'[i])
  <2>1. CASE UNCHANGED store  BY <1>2, <2>1 DEF store, GrantInv
  <2>2. ASSUME NEW id \in Ids, NEW next \in ChangeSetRecord, Write(id, next), ~Unclaimed(next)
        PROVE  \A i \in Ids : Granted(consent'[i], changeSets'[i]) /\ Granted(consent'[i], file'[i])
    BY <1>1, <1>3, <2>2, SettledGranted, WriteGranted
  <2>3. \A c \in Callers, next \in ChangeSetRecord :
           calls[c].step \in {"link", "vendor"} /\ next.state = calls[c].next.state
              => ~Unclaimed(next)
    BY DEF GrantInv, CallGranted, Unclaimed
  <2>4. \A next \in ChangeSetRecord : next.state \in {"Applied", "Failed"} => ~Unclaimed(next)
    BY DEF Unclaimed
  <2>5. CASE \/ \E c \in Callers : LinkOperation(c) \/ VendorRecordsTask(c) \/ SettleApply(c)
             \/ \E id \in Ids : VendorReprobes(id)
    BY <2>1, <2>2, <2>3, <2>4, <2>5, ApplyWrites
  <2>6. CASE \E c \in Callers : RecordEvidence(c) \/ CancelQueued(c) \/ GiveUpBeforeClaim(c)
                                \/ TakeGuard(c)
    BY <2>1, <2>6 DEF RecordEvidence, CancelQueued, GiveUpBeforeClaim, TakeGuard
  <2>7. QED  BY <2>5, <2>6
<1>5. \A x \in Callers : CallGranted(consent', calls'[x])
  <2>1. ASSUME NEW c \in Callers,
               RecordEvidence(c) \/ CancelQueued(c) \/ GiveUpBeforeClaim(c) \/ SettleApply(c)
        PROVE  \A x \in Callers : CallGranted(consent', calls'[x])
    <3>1. Return(c)
      BY <2>1 DEF RecordEvidence, CancelQueued, GiveUpBeforeClaim, SettleApply
    <3>2. QED  BY <1>3, <3>1, CallsGranted
  <2>2. ASSUME NEW c \in Callers, TakeGuard(c)
        PROVE  \A x \in Callers : CallGranted(consent', calls'[x])
    <3> DEFINE id == calls[c].id
               r == changeSets[id]
               e == [r EXCEPT !.state = "Expired"]
    <3>1. id \in Ids  BY <1>1, <2>2 DEF TakeGuard, CallTypes, CallsWellFormed
    <3>2. r \in ChangeSetRecord  BY <1>1, <3>1 DEF StoreTypes
    <3>3. r.state \in ChangeSetState \cup {"Absent"}  BY <3>2 DEF ChangeSetRecord
    <3>4. "Expired" \in ChangeSetState /\ "claim" \in Steps /\ "overwrite" \in Steps
      BY DEF ChangeSetState, Steps
    <3>5. e \in ChangeSetRecord /\ e.state = "Expired"  BY <3>2, <3>4, SetState
    <3>6. \/ Return(c)
          \/ Continue(c, "overwrite", id, r.state, e)
          \/ Continue(c, "claim", id, r.state, r)
      BY <2>2 DEF TakeGuard
    <3> HIDE DEF id, r, e
    <3>7. Granted(consent'[id], e)
      <4>1. ~Unclaimed(e)  BY <3>5 DEF Unclaimed
      <4>2. QED  BY <4>1, SettledGranted
    <3>8. QED  BY <1>3, <3>1, <3>2, <3>3, <3>4, <3>5, <3>6, <3>7, CallsGranted
  <2>3. ASSUME NEW c \in Callers, LinkOperation(c) \/ VendorRecordsTask(c)
        PROVE  \A x \in Callers : CallGranted(consent', calls'[x])
    <3> DEFINE k == calls[c]
               t == [k.next EXCEPT !.task = TRUE]
    <3>1. k.step \in {"link", "vendor"}  BY <2>3 DEF LinkOperation, VendorRecordsTask
    <3>2. k.id \in Ids /\ k.next \in ChangeSetRecord
      BY <1>1, <3>1 DEF CallTypes, CallsWellFormed, Call
    <3>3. k.next.state = "Applying"  BY <3>1 DEF GrantInv, CallGranted
    <3>4. t \in ChangeSetRecord /\ t.state = k.next.state  BY <3>2, SetDetail
    <3>5. "Applying" \in ChangeSetState \cup {"Absent"} /\ "settle" \in Steps /\ "vendor" \in Steps
      BY DEF ChangeSetState, Steps
    <3>6. \/ Return(c)
          \/ Continue(c, "settle", k.id, "Applying", k.next)
          \/ Continue(c, "vendor", k.id, "Applying", t)
      BY <2>3 DEF LinkOperation, VendorRecordsTask
    <3> HIDE DEF k, t
    <3>7. QED  BY <1>3, <3>2, <3>3, <3>4, <3>5, <3>6, CallsGranted
  <2>4. ASSUME NEW id \in Ids, VendorReprobes(id)
        PROVE  \A x \in Callers : CallGranted(consent', calls'[x])
    BY <1>2, <2>4 DEF VendorReprobes, GrantInv
  <2>5. QED  BY <2>1, <2>2, <2>3, <2>4
<1>6. QED  BY <1>4, <1>5 DEF GrantInv

\* Every step keeps every stored approval granted.
LEMMA GrantStep == TypeInv /\ GrantInv /\ [Next]_vars => GrantInv'
<1> SUFFICES ASSUME TypeInv, GrantInv, [Next]_vars PROVE GrantInv'
  OBVIOUS
<1>1. CASE UNCHANGED vars  BY <1>1 DEF vars, GrantInv
<1>2. ASSUME NEW c \in Callers, Proceed(c)  PROVE GrantInv'
  <2>1. CASE ClaimForApply(c)
    <3>1. calls[c].id \in Ids
      BY <2>1 DEF ClaimForApply, TypeInv, CallTypes, CallsWellFormed
    <3>2. "link" \in Steps \ {"update", "overwrite"} /\ FALSE \in BOOLEAN  BY DEF Steps
    <3>3. QED  BY <2>1, <3>1, <3>2, ClaimGranted DEF ClaimForApply
  <2>2. QED  BY <1>2, <2>1, UpdateGranted, OtherCallsGranted DEF Proceed
<1>3. ASSUME NEW c \in Callers, Request(c)  PROVE GrantInv'
  <2>1. ASSUME NEW id \in Ids, NEW noHandle \in BOOLEAN, VendorClaims(c, id, noHandle)
        PROVE  GrantInv'
    <3>1. "vendor" \in Steps \ {"update", "overwrite"}  BY DEF Steps
    <3>2. QED  BY <2>1, <3>1, ClaimGranted DEF VendorClaims
  <2>2. CASE CancelQueued(c) \/ GiveUpBeforeClaim(c) \/ VendorRecordsTask(c)
    BY <2>2, OtherCallsGranted
  <2>3. CASE ~(CancelQueued(c) \/ GiveUpBeforeClaim(c) \/ VendorRecordsTask(c))
    BY <1>3, <2>1, <2>3, CreateGranted, ReadGranted DEF Request
  <2>4. QED  BY <2>2, <2>3
<1>4. CASE Crash \/ (\E lab \in LabModes : load(lab)) \/ Tick
  <2>1. UNCHANGED consent  BY <1>4 DEF Crash, load, Tick, history
  <2>2. ~Unclaimed(NoRecord) /\ IdleCall.step = "idle"  BY DEF Unclaimed, NoRecord, IdleCall
  <2>3. \A x \in Callers : CallGranted(consent', calls'[x])
    <3>1. CASE Crash  BY <2>2, <3>1 DEF Crash, CallGranted
    <3>2. CASE (\E lab \in LabModes : load(lab)) \/ Tick
      BY <2>1, <3>2 DEF load, Tick, GrantInv
    <3>3. QED  BY <1>4, <3>1, <3>2
  <2>4. ASSUME NEW i \in Ids
        PROVE  Granted(consent[i], changeSets'[i]) /\ Granted(consent[i], file'[i])
    <3>1. CASE Crash
      <4>1. changeSets'[i] = NoRecord /\ file'[i] = file[i]  BY <3>1 DEF Crash
      <4>2. QED  BY <2>2, <4>1, SettledGranted DEF GrantInv
    <3>2. CASE \E lab \in LabModes : load(lab)
      <4> DEFINE new == Recover(file)[i]
      <4>1. /\ file'[i] = new
            /\ changeSets'[i] = new \/ changeSets'[i] = changeSets[i]
        BY <3>2 DEF load
      <4>2. new = file[i] \/ new.state = "Failed"
        BY RecoverTypes DEF TypeInv, StoreTypes
      <4> HIDE DEF new
      <4>3. Granted(consent[i], new)
        <5>1. CASE new = file[i]  BY <5>1 DEF GrantInv
        <5>2. CASE new.state = "Failed"
          <6>1. ~Unclaimed(new)  BY <5>2 DEF Unclaimed
          <6>2. QED  BY <6>1, SettledGranted
        <5>3. QED  BY <4>2, <5>1, <5>2
      <4>4. QED  BY <4>1, <4>3 DEF GrantInv
    <3>3. CASE Tick  BY <3>3 DEF Tick, store, GrantInv
    <3>4. QED  BY <1>4, <3>1, <3>2, <3>3
  <2>5. QED  BY <2>1, <2>3, <2>4 DEF GrantInv
<1>5. CASE Next  BY <1>2, <1>3, <1>4, <1>5, OtherCallsGranted DEF Next
<1>6. QED  BY <1>1, <1>5

\* Nothing is stored or under way initially.
LEMMA GrantInit == Init => GrantInv
<1> SUFFICES ASSUME Init PROVE GrantInv
  OBVIOUS
<1>1. ~Unclaimed(NoRecord) /\ IdleCall.step = "idle"  BY DEF Unclaimed, NoRecord, IdleCall
<1>2. \A i \in Ids : Granted(consent[i], changeSets[i]) /\ Granted(consent[i], file[i])
  BY <1>1, SettledGranted DEF Init
<1>3. \A c \in Callers : CallGranted(consent, calls[c])  BY <1>1 DEF Init, CallGranted
<1>4. QED  BY <1>2, <1>3 DEF GrantInv

\* Every Approved record, in memory, in the file or in a caller's hands, was
\* approved by a human other than its owner, or waived.
THEOREM AlwaysGranted == Spec => []GrantInv
BY GrantInit, GrantStep, AlwaysTyped, PTL DEF Spec

\* No claim is granted without the approval or the waiver somebody gave.
THEOREM RunsWereAuthorised == Spec => RunsAreAuthorised
<1>1. ASSUME TypeInv, SpendInv, GrantInv, [Next]_vars
      PROVE  [\A i \in Ids : runs'[i] # runs[i] =>
                 LET r == changeSets[i] IN
                 \/ r.approver \in (consent[i] \cap Humans) \ {r.owner}
                 \/ r.approver = NoOne /\ r.waiver # "none" /\ r.owner \in consent[i]]_vars
  <2>1. StepOK  BY <1>1, AllQuiet
  <2>2. runs \in [Ids -> Nat]  BY <1>1 DEF TypeInv, HistoryTypes
  <2>3. ASSUME NEW i \in Ids, runs'[i] # runs[i]  PROVE changeSets[i].state = "Approved"
    BY <2>1, <2>2, <2>3 DEF StepOK, Told
  <2>4. ASSUME NEW i \in Ids, runs'[i] # runs[i]  PROVE Authorised(consent[i], changeSets[i])
    BY <1>1, <2>3, <2>4 DEF GrantInv, Granted
  <2>5. QED  BY <2>4 DEF Authorised
<1>2. QED  BY <1>1, AlwaysSpent, AlwaysGranted, PTL DEF Spec, RunsAreAuthorised

-----------------------------------------------------------------------------
(* Refinement *)

\* The store, its file, its failures and its restarts implement the one-shot
\* approval: every step consents, runs once, closes, or stutters.
THEOREM RefinesOneShot == Spec => ImplementsOneShot
<1>1. Init => OneShot!Init  BY DEF Init, OneShot!Init
<1>2. ASSUME TypeInv, SpendInv, GrantInv, [Next]_vars
      PROVE  [OneShot!Next]_<<consent, runs, retired>>
  <2>1. Told  BY <1>2, AllQuiet DEF StepOK
  <2>2. CASE UNCHANGED <<runs, retired, consent>>  BY <2>2
  <2>3. ASSUME NEW i \in Ids, NEW p \in Principals,
               consent' = [consent EXCEPT ![i] = @ \cup {p}], UNCHANGED <<runs, retired>>
        PROVE  OneShot!Next
    BY <2>3 DEF OneShot!Next, OneShot!Consent
  <2>4. ASSUME NEW i \in Ids, runs' = [runs EXCEPT ![i] = @ + 1],
               changeSets[i].state = "Approved", UNCHANGED <<retired, consent>>
        PROVE  OneShot!Next
    <3>1. runs[i] = 0 /\ i \notin retired
      BY <1>2, <2>4 DEF SpendInv, Spent, Unclaimed
    <3>2. consent[i] # {}
      BY <1>2, <2>4 DEF GrantInv, Granted, Authorised
    <3>3. runs' = [runs EXCEPT ![i] = 1]  BY <2>4, <3>1
    <3>4. OneShot!Run(i)  BY <2>4, <3>1, <3>2, <3>3 DEF OneShot!Run
    <3>5. QED  BY <3>4 DEF OneShot!Next
  <2>5. ASSUME NEW i \in Ids, retired' = retired \cup {i}, UNCHANGED <<runs, consent>>
        PROVE  OneShot!Next
    BY <2>5 DEF OneShot!Next, OneShot!Close
  <2>6. QED  BY <2>1, <2>2, <2>3, <2>4, <2>5 DEF Told
<1>3. QED
  BY <1>1, <1>2, AlwaysSpent, AlwaysGranted, PTL DEF Spec, ImplementsOneShot, OneShot!Spec

-----------------------------------------------------------------------------
(* What the file says can be read back, and the trail is true of it *)

\* A record whose approval fields validate_state accepts, and which carries
\* none of them while it is Planned.
Good(r) ==
    /\ Loadable(r)
    /\ r.state = "Planned" => r.approver = NoOne /\ r.waiver = "none"

\* What a stored record r may become: the approval is fixed once the record has
\* left Planned, and no record becomes pending again.
Follows(r, n) ==
    /\ Good(n) /\ n.owner = r.owner /\ n.device = r.device
    /\ is_pending(n.state) => is_pending(r.state)
    /\ r.state # "Planned" => n.state # "Planned" /\ n.approver = r.approver /\ n.waiver = r.waiver
    /\ r.state # "Planned" /\ r.approver # NoOne => n.preview = r.preview

Kept(r, n) == n = r \/ ~Exists(n) \/ (Exists(r) /\ Follows(r, n))

\* The map n keeps each record of m, drops it, or lets it go on.
Shrinks(m, n) == \A i \in Ids : Kept(m[i], n[i])

\* Both copies after a step that adds no record.
StoreStep == Shrinks(changeSets, changeSets') /\ (file' = file \/ Shrinks(changeSets, file'))

\* One copy of one record after any step of a running process.
NewCopy(i, n) == Kept(changeSets[i], n) \/ (i \notin minted /\ Good(n))

PaperStep ==
    /\ minted \subseteq minted'
    /\ \A i \in Ids : NewCopy(i, changeSets'[i]) /\ (file'[i] = file[i] \/ NewCopy(i, file'[i]))

Trailed(who, r) ==
    Exists(r) => /\ r.state # "Planned" /\ Authority(r) = who
                 /\ r.approver # NoOne \/ r.waiver # "none"

Papers(i, who) == i \in minted /\ Trailed(who, changeSets[i]) /\ Trailed(who, file[i])

Writing == {"update", "overwrite", "link", "settle", "vendor"}

\* What a call is about to write, against the record it read: a call that read
\* a Planned record compares or stays Planned, one that read a later record
\* carries its approval, and a rendering that does not fit the signed one
\* differs from the one stored.
FromPlanned(k) ==
    /\ Loadable(k.next)
    /\ \/ k.step = "update" /\ k.next.state # "Planned"
       \/ k.step = "overwrite" /\ k.next.state = "Planned" /\ k.next.approver = NoOne /\ k.next.waiver = "none"

FromLater(k, r) ==
    /\ k.next.state # "Planned"
    /\ Exists(r) => r.state # "Planned" /\ k.next.approver = r.approver /\ k.next.waiver = r.waiver
    /\ \/ Loadable(k.next)
       \/ /\ k.step = "overwrite" /\ k.next.approver # NoOne
          /\ Exists(r) => k.next.preview # r.preview

Linked(c) == LET k == calls[c] IN
    k.step \in Writing =>
        /\ k.id \in minted
        /\ IF k.observed = "Planned" THEN FromPlanned(k) ELSE FromLater(k, changeSets[k.id])

PaperInv ==
    /\ \A i \in Ids : Good(changeSets[i]) /\ Good(file[i])
    /\ \A c \in Callers : Linked(c)
    /\ \A c \in Callers : calls[c].step = "emit" => Papers(calls[c].id, Authority(calls[c].next))
    /\ \A e \in trail : Papers(e[1], e[2])

LEMMA KeptGood == ASSUME NEW r, NEW n, Good(r), Kept(r, n) PROVE Good(n)
BY DEF Kept, Good, Follows, Loadable, Exists

\* An approval in the trail outlives every later write.
LEMMA KeptTrailed == ASSUME NEW who, NEW r, NEW n, Trailed(who, r), Kept(r, n) PROVE Trailed(who, n)
BY DEF Kept, Trailed, Follows, Authority

LEMMA StoreStepPapers == ASSUME StoreStep, minted \subseteq minted' PROVE PaperStep
BY DEF StoreStep, Shrinks, PaperStep, NewCopy

\* A call that did not move is still linked to what it read.
LEMMA StaysLinked ==
    ASSUME NEW c \in Callers, Linked(c), PaperStep, calls'[c] = calls[c],
           calls[c].step # "idle" => calls[c].id \in Ids
    PROVE  Linked(c)'
<1> DEFINE k == calls[c]
           r == changeSets[k.id]
           n == changeSets'[k.id]
<1> SUFFICES ASSUME k.step \in Writing
             PROVE  /\ k.id \in minted'
                    /\ IF k.observed = "Planned" THEN FromPlanned(k) ELSE FromLater(k, n)
  BY DEF Linked
<1>1. k.id \in Ids /\ k.id \in minted  BY DEF Linked, Writing
<1>2. Kept(r, n)  BY <1>1 DEF PaperStep, NewCopy
<1>3. k.id \in minted'  BY <1>1 DEF PaperStep
<1>4. CASE k.observed = "Planned"  BY <1>3, <1>4 DEF Linked
<1>5. CASE k.observed # "Planned"
  <2>1. FromLater(k, r)  BY <1>5 DEF Linked
  <2> HIDE DEF k, r, n
  <2>2. FromLater(k, n)  BY <1>2, <2>1 DEF FromLater, Kept, Follows
  <2>3. QED  BY <1>3, <1>5, <2>2
<1>6. QED  BY <1>4, <1>5

\* A step of call c: its own link and what it adds to the trail are left to show.
LEMMA PaperCall ==
    ASSUME TypeInv, PaperInv, PaperStep, NEW c \in Callers,
           \A x \in Callers \ {c} : calls'[x] = calls[x],
           Linked(c)', calls'[c].step = "emit" => Papers(calls[c].id, Authority(calls[c].next))',
           \/ trail' = trail
           \/ calls[c].step = "emit" /\ trail' = trail \cup {<<calls[c].id, Authority(calls[c].next)>>}
    PROVE  PaperInv'
<1>1. ASSUME NEW i \in Ids PROVE Good(changeSets'[i]) /\ Good(file'[i])
  BY <1>1, KeptGood DEF PaperInv, PaperStep, NewCopy
<1>2. ASSUME NEW i \in Ids, NEW who, Papers(i, who)
      PROVE  i \in minted' /\ Trailed(who, changeSets'[i]) /\ Trailed(who, file'[i])
  BY <1>2, KeptTrailed DEF Papers, PaperStep, NewCopy
<1>3. ASSUME NEW x \in Callers \ {c} PROVE Linked(x)'
  BY <1>3, StaysLinked DEF PaperInv, TypeInv, CallTypes, CallsWellFormed
<1>4. ASSUME NEW x \in Callers, calls'[x].step = "emit"
      PROVE  Papers(calls[x].id, Authority(calls[x].next))'
  <2>1. CASE x = c  BY <1>4, <2>1
  <2>2. CASE x # c
    <3>1. calls'[x] = calls[x]  BY <2>2
    <3>2. calls[x].id \in Ids /\ Papers(calls[x].id, Authority(calls[x].next))
      BY <1>4, <3>1 DEF PaperInv, TypeInv, CallTypes, CallsWellFormed
    <3>3. QED  BY <1>2, <3>1, <3>2 DEF Papers, Authority
  <2>3. QED  BY <2>1, <2>2
<1>5. ASSUME NEW e \in trail' PROVE Papers(e[1], e[2])'
  <2>1. e[1] \in Ids /\ Papers(e[1], e[2])
    <3>1. CASE e \in trail  BY <3>1 DEF PaperInv, TypeInv, HistoryTypes
    <3>2. CASE calls[c].step = "emit" /\ e = <<calls[c].id, Authority(calls[c].next)>>
      <4>1. calls[c].id \in Ids /\ Papers(calls[c].id, Authority(calls[c].next))
        BY <3>2 DEF PaperInv, TypeInv, CallTypes, CallsWellFormed
      <4>2. e[1] = calls[c].id /\ e[2] = Authority(calls[c].next)  BY <3>2
      <4>3. QED  BY <4>1, <4>2
    <3>3. QED  BY <3>1, <3>2
  <2>2. QED  BY <1>2, <2>1 DEF Papers
<1>6. QED  BY <1>1, <1>3, <1>4, <1>5 DEF PaperInv

LEMMA ContinueCall ==
    ASSUME TypeInv, NEW c \in Callers, NEW step, NEW id, NEW observed, NEW next,
           Continue(c, step, id, observed, next)
    PROVE  /\ calls'[c].step = step /\ calls'[c].id = id
           /\ calls'[c].observed = observed /\ calls'[c].next = next
           /\ \A x \in Callers \ {c} : calls'[x] = calls[x]
BY DEF Continue, TypeInv, CallTypes

LEMMA ReturnCall ==
    ASSUME TypeInv, NEW c \in Callers, Return(c)
    PROVE  /\ calls'[c].step = "idle" /\ \A x \in Callers \ {c} : calls'[x] = calls[x]
           /\ Linked(c)'
<1>1. calls'[c].step = "idle" /\ \A x \in Callers \ {c} : calls'[x] = calls[x]
  BY ReturnTypes DEF TypeInv, CallTypes
<1>2. QED  BY <1>1 DEF Linked, Writing

\* Nothing is stored.
LEMMA StillStore == ASSUME UNCHANGED store, minted \subseteq minted' PROVE StoreStep /\ PaperStep
<1>1. StoreStep  BY DEF store, StoreStep, Shrinks, Kept
<1>2. QED  BY <1>1, StoreStepPapers

\* A call that returns without storing anything.
LEMMA PaperReturn ==
    ASSUME TypeInv, PaperInv, PaperStep, NEW c \in Callers, Return(c), UNCHANGED trail
    PROVE  PaperInv'
<1>1. calls'[c].step # "emit"  BY ReturnCall
<1>2. QED  BY <1>1, ReturnCall, PaperCall

\* The updates of a record that leave its approval fields alone.
LEMMA SetStatePaper ==
    ASSUME NEW r \in ChangeSetRecord, NEW s \in ChangeSetState, Good(r), s # "Planned"
    PROVE  LET n == [r EXCEPT !.state = s] IN
           /\ Exists(r) => Good(n)
           /\ n.state = s /\ n.owner = r.owner /\ n.device = r.device /\ n.approver = r.approver
           /\ n.waiver = r.waiver /\ n.preview = r.preview
<1> DEFINE n == [r EXCEPT !.state = s]
<1>1. /\ n.state = s /\ n.owner = r.owner /\ n.device = r.device /\ n.approver = r.approver
      /\ n.waiver = r.waiver /\ n.preview = r.preview /\ n.signed = r.signed
  BY DEF ChangeSetRecord
<1> HIDE DEF n
<1>2. Exists(r) => Good(n)  BY <1>1 DEF Good, Loadable
<1>3. QED  BY <1>1, <1>2 DEF n

\* A call that read the stored record r under id and will write n.
LEMMA PaperRead ==
    ASSUME TypeInv, SpendInv, PaperInv, NEW c \in Callers, NEW id \in Ids, NEW step, NEW n,
           Continue(c, step, id, changeSets[id].state, n), UNCHANGED <<store, minted, trail>>,
           Exists(changeSets[id]), step # "emit",
           step \in Writing =>
             /\ step \in {"update", "overwrite"}
             /\ changeSets[id].state = "Planned" =>
                  /\ Loadable(n)
                  /\ \/ step = "update" /\ n.state # "Planned"
                     \/ step = "overwrite" /\ n.state = "Planned" /\ n.approver = NoOne /\ n.waiver = "none"
             /\ changeSets[id].state # "Planned" =>
                  /\ n.state # "Planned" /\ n.approver = changeSets[id].approver
                  /\ n.waiver = changeSets[id].waiver
                  /\ \/ Loadable(n)
                     \/ step = "overwrite" /\ n.approver # NoOne /\ n.preview # changeSets[id].preview
    PROVE  PaperInv'
<1>1. id \in minted  BY DEF SpendInv, Known
<1>2. PaperStep  BY StillStore
<1>3. /\ calls'[c].step = step /\ calls'[c].id = id /\ calls'[c].observed = changeSets[id].state
      /\ calls'[c].next = n /\ \A x \in Callers \ {c} : calls'[x] = calls[x]
  BY ContinueCall
<1>4. changeSets' = changeSets /\ minted' = minted  BY DEF store
<1>5. Linked(c)'
  BY <1>1, <1>3, <1>4 DEF Linked, FromPlanned, FromLater
<1>6. QED  BY <1>2, <1>3, <1>5, PaperCall

\* The reads of approve, waive, status, cancel, render and apply.
LEMMA ReadPapers ==
    ASSUME TypeInv, SpendInv, PaperInv, NEW c \in Callers, NEW id \in Ids,
           \/ \E p \in Principals : approve_change_set(c, id, p)
           \/ waive_approval(c, id)
           \/ waive_approval_operator(c, id, "operator", 0)
           \/ \E until \in 1 .. MaxClock : waive_approval_operator(c, id, "timed", until)
           \/ change_set_status(c, id)
           \/ \E p \in Principals : cancel_change_set(c, id, p)
           \/ VendorRendersPreview(c, id)
           \/ apply_change_set(c, id)
    PROVE  PaperInv'
<1> DEFINE r == changeSets[id]
           s == r.state
           e == [r EXCEPT !.state = "Expired"]
           x == [r EXCEPT !.state = "Cancelled"]
<1>1. r \in ChangeSetRecord /\ Good(r)  BY DEF TypeInv, StoreTypes, PaperInv
<1>2. UNCHANGED <<store, minted, trail>>
  BY DEF approve_change_set, waive_approval, waive_approval_operator, change_set_status,
         cancel_change_set, VendorRendersPreview, apply_change_set, history
<1>3. "Expired" \in ChangeSetState /\ "Cancelled" \in ChangeSetState  BY DEF ChangeSetState
<1>4. /\ Exists(r) => Good(e) /\ Good(x)
      /\ e.state = "Expired" /\ e.approver = r.approver /\ e.waiver = r.waiver
      /\ x.state = "Cancelled" /\ x.approver = r.approver /\ x.waiver = r.waiver
  BY <1>1, <1>3, SetStatePaper
<1>5. Exists(r) => r.owner \in Principals /\ r.owner # NoOne
  BY ConstantsAssumption DEF TypeInv, StoreTypes, Owned
<1> HIDE DEF r, s, e, x
<1>6. ASSUME NEW step \in {"update", "overwrite"}, NEW n \in {e, x}, Exists(r), Continue(c, step, id, s, n),
             step = "overwrite" => s # "Planned"
      PROVE  PaperInv'
  BY <1>2, <1>4, <1>6, PaperRead DEF Good, r, s
<1>7. ASSUME NEW n, s = "Planned", Continue(c, "update", id, s, n), n.state = "Approved", Loadable(n)
      PROVE  PaperInv'
  BY <1>2, <1>7, PaperRead DEF Exists, r, s
<1>8. ASSUME NEW p \in Principals, approve_change_set(c, id, p)  PROVE PaperInv'
  <2> DEFINE n == [r EXCEPT !.state = "Approved", !.approver = p, !.signed = r.preview]
  <2>1. /\ n.state = "Approved" /\ n.owner = r.owner /\ n.approver = p /\ n.waiver = r.waiver
        /\ n.signed = r.preview /\ n.preview = r.preview
    BY <1>1 DEF ChangeSetRecord
  <2>2. s = "Planned" /\ r.owner # p
        /\ (Continue(c, "update", id, s, e) \/ Continue(c, "update", id, s, n))
    BY <1>8 DEF approve_change_set, MayApprove, r, s, e
  <2> HIDE DEF n
  <2>3. Loadable(n) /\ Exists(r)  BY <1>1, <2>1, <2>2 DEF Loadable, Good, Exists, s
  <2>4. QED  BY <1>6, <1>7, <2>1, <2>2, <2>3
<1>9. ASSUME NEW n, s = "Planned", n.state = "Approved", n.approver = r.approver, n.owner = r.owner,
             Continue(c, "update", id, s, e) \/ Continue(c, "update", id, s, n)
      PROVE  PaperInv'
  <2>1. r.approver = NoOne /\ Exists(r)  BY <1>1, <1>9 DEF Good, Exists, s
  <2>2. Loadable(n)  BY <1>5, <1>9, <2>1 DEF Loadable
  <2>3. QED  BY <1>6, <1>7, <1>9, <2>1, <2>2
<1>10. ASSUME waive_approval(c, id)  PROVE PaperInv'
  <2> DEFINE n == [r EXCEPT !.state = "Approved", !.waiver = "lab"]
  <2>1. n.state = "Approved" /\ n.approver = r.approver /\ n.owner = r.owner
    BY <1>1 DEF ChangeSetRecord
  <2>2. s = "Planned" /\ (Continue(c, "update", id, s, e) \/ Continue(c, "update", id, s, n))
    BY <1>10 DEF waive_approval, r, s, e
  <2> HIDE DEF n
  <2>3. QED  BY <1>9, <2>1, <2>2
<1>11. ASSUME NEW kind, NEW until, waive_approval_operator(c, id, kind, until)  PROVE PaperInv'
  <2> DEFINE n == [r EXCEPT !.state = "Approved", !.waiver = kind, !.until = until]
  <2>1. n.state = "Approved" /\ n.approver = r.approver /\ n.owner = r.owner
    BY <1>1 DEF ChangeSetRecord
  <2>2. s = "Planned" /\ (Continue(c, "update", id, s, e) \/ Continue(c, "update", id, s, n))
    BY <1>11 DEF waive_approval_operator, r, s, e
  <2> HIDE DEF n
  <2>3. QED  BY <1>9, <2>1, <2>2
<1>12. UNCHANGED calls => PaperInv'
  <2>1. UNCHANGED calls => Linked(c)' /\ (calls'[c].step = "emit" => Papers(calls[c].id, Authority(calls[c].next))')
    BY <1>2 DEF PaperInv, Linked, FromPlanned, FromLater, Papers, store
  <2>2. QED  BY <1>2, <2>1, StillStore, PaperCall
<1>13. ASSUME change_set_status(c, id)  PROVE PaperInv'
  <2>1. Exists(r) /\ (UNCHANGED calls \/ Continue(c, "update", id, s, e))
    BY <1>13 DEF change_set_status, r, s, e
  <2>2. QED  BY <1>6, <1>12, <2>1
<1>14. ASSUME NEW p \in Principals, cancel_change_set(c, id, p)  PROVE PaperInv'
  <2>1. UNCHANGED calls \/ (Exists(r) /\ Continue(c, "update", id, s, x))
    BY <1>14 DEF cancel_change_set, r, s, x, Exists
  <2>2. QED  BY <1>6, <1>12, <2>1
<1>15. ASSUME VendorRendersPreview(c, id)  PROVE PaperInv'
  <2> DEFINE n == [r EXCEPT !.preview = 1 - r.preview]
  <2>1. /\ n.state = r.state /\ n.owner = r.owner /\ n.approver = r.approver /\ n.waiver = r.waiver
        /\ n.preview # r.preview
    <3>1. n.preview = 1 - r.preview /\ r.preview \in {0, 1}
      BY <1>1 DEF ChangeSetRecord
    <3>2. n.preview # r.preview  BY <3>1
    <3>3. QED  BY <1>1, <3>2 DEF ChangeSetRecord
  <2>2. Continue(c, "overwrite", id, s, n) /\ Exists(r)
    BY <1>15 DEF VendorRendersPreview, r, s, is_expirable, Exists
  <2> HIDE DEF n
  <2>3. n.approver = NoOne => Loadable(n)  BY <1>5, <2>1, <2>2 DEF Loadable
  <2>4. s = "Planned" => n.approver = NoOne /\ n.waiver = "none"  BY <1>1, <2>1 DEF Good, s
  <2>5. QED  BY <1>2, <2>1, <2>2, <2>3, <2>4, PaperRead DEF r, s
<1>16. ASSUME apply_change_set(c, id)  PROVE PaperInv'
  <2>1. /\ s = "Approved" /\ Exists(r)
        /\ Continue(c, "overwrite", id, s, e) \/ Continue(c, "queued", id, s, r)
    BY <1>16 DEF apply_change_set, ApplyGate, r, s, e, Exists
  <2>2. CASE Continue(c, "queued", id, s, r)
    BY <1>2, <2>1, <2>2, PaperRead DEF r, s, Writing
  <2>3. QED  BY <1>6, <2>1, <2>2
<1>17. QED  BY <1>8, <1>10, <1>11, <1>13, <1>14, <1>15, <1>16

\* The write gate on what a call carries: the record goes on.
LEMMA GateFollows ==
    ASSUME NEW r, NEW n, check_change_set_write(r, n, "Update"), Good(n),
           r.state # "Planned" => n.approver = r.approver /\ n.waiver = r.waiver
    PROVE  Exists(r) /\ Follows(r, n)
BY DEF check_change_set_write, change_set_transition_allowed, Follows, is_pending, Exists

\* normalise_apply_marker leaves the approval alone.
LEMMA MarkerPaper ==
    ASSUME NEW r \in ChangeSetRecord
    PROVE  LET n == normalise_apply_marker(r) IN
           /\ n \in ChangeSetRecord /\ n.state = r.state /\ n.approver = r.approver /\ n.waiver = r.waiver
           /\ n.owner = r.owner /\ n.preview = r.preview /\ n.signed = r.signed
           /\ Loadable(r) => Loadable(n)
<1> DEFINE n == normalise_apply_marker(r)
<1>1. /\ n \in ChangeSetRecord /\ n.state = r.state /\ n.approver = r.approver /\ n.waiver = r.waiver
      /\ n.owner = r.owner /\ n.preview = r.preview /\ n.signed = r.signed
  <2>1. CASE r.state = "Applying"  BY <2>1 DEF normalise_apply_marker
  <2>2. CASE r.state # "Applying"
    BY <2>2 DEF ChangeSetRecord, normalise_apply_marker
  <2>3. QED  BY <2>1, <2>2
<1> HIDE DEF n
<1>2. Loadable(r) => Loadable(n)  BY <1>1 DEF Loadable, Exists
<1>3. QED  BY <1>1, <1>2 DEF n

\* Writing a record that follows the stored one.
LEMMA FollowingWrite ==
    ASSUME TypeInv, NEW id \in Ids, NEW n, Exists(changeSets[id]), Follows(changeSets[id], n),
           NEW outcome, PersistOrRollBack(changeSets, [changeSets EXCEPT ![id] = n], outcome)
    PROVE  StoreStep
<1> DEFINE new == [changeSets EXCEPT ![id] = n]
<1>1. new[id] = n /\ \A i \in Ids : i # id => new[i] = changeSets[i]
  BY DEF TypeInv, StoreTypes
<1>2. changeSets' \in {changeSets, new} /\ file' \in {file, new}
  BY DEF PersistOrRollBack, FileAfter
<1> HIDE DEF new
<1>3. Shrinks(changeSets, new) /\ Shrinks(changeSets, changeSets)
  BY <1>1 DEF Shrinks, Kept
<1>4. QED  BY <1>2, <1>3 DEF StoreStep

\* A gated write of what a call carries, settled or marked as it may be.
LEMMA CarriedFollows ==
    ASSUME TypeInv, NEW c \in Callers, calls[c].step \in Writing, Linked(c), NEW n,
           Loadable(calls[c].next) => Loadable(n),
           n.state = "Planned" => calls[c].next.state = "Planned",
           n.approver = calls[c].next.approver, n.waiver = calls[c].next.waiver,
           n.preview = calls[c].next.preview,
           calls[c].step = "update" => Unmoved(calls[c]),
           calls[c].observed = "Planned" => n.state = calls[c].next.state,
           check_change_set_write(changeSets[calls[c].id], n, "Update")
    PROVE  Exists(changeSets[calls[c].id]) /\ Follows(changeSets[calls[c].id], n)
<1> DEFINE k == calls[c]
           r == changeSets[k.id]
<1>1. Exists(r) /\ (r.state # "Planned" => n.state # "Planned")
  BY GateKeepsClaims
<1>2. CASE k.observed = "Planned"
  <2>1. FromPlanned(k) /\ Loadable(n)  BY <1>2 DEF Linked, FromPlanned
  <2>2. Good(n)  BY <1>2, <2>1 DEF Good, FromPlanned
  <2>3. r.state = "Planned"
    <3>1. CASE k.step = "update"  BY <1>2, <3>1 DEF Unmoved
    <3>2. CASE k.step # "update"
      <4>1. n.state = "Planned"  BY <1>2, <2>1, <3>2 DEF FromPlanned
      <4>2. QED  BY <1>1, <4>1
    <3>3. QED  BY <3>1, <3>2
  <2>4. QED  BY <2>2, <2>3, GateFollows
<1>3. CASE k.observed # "Planned"
  <2>1. FromLater(k, r)  BY <1>3 DEF Linked
  <2>2. r.state # "Planned" /\ n.approver = r.approver /\ n.waiver = r.waiver /\ n.state # "Planned"
    BY <1>1, <2>1 DEF FromLater
  <2>3. Loadable(n)
    <3>1. CASE Loadable(k.next)  BY <3>1
    <3>2. CASE n.approver # NoOne /\ n.preview # r.preview
      BY <2>2, <3>2 DEF check_change_set_write
    <3>3. QED  BY <1>1, <2>1, <3>1, <3>2 DEF FromLater
  <2>4. Good(n)  BY <2>2, <2>3 DEF Good
  <2>5. QED  BY <2>2, <2>4, GateFollows
<1>4. QED  BY <1>2, <1>3

\* A call under way is typed.
LEMMA CallFacts ==
    ASSUME TypeInv, NEW c \in Callers, calls[c].step # "idle"
    PROVE  calls[c].id \in Ids /\ calls[c].next \in ChangeSetRecord
BY DEF TypeInv, CallTypes, CallsWellFormed, Call

\* update_change_set_from and update_change_set.
LEMMA UpdatePapers ==
    ASSUME TypeInv, SpendInv, GrantInv, PaperInv, NEW c \in Callers,
           update_change_set_from(c) \/ update_change_set(c)
    PROVE  StoreStep /\ PaperInv'
<1> DEFINE k == calls[c]
           next == normalise_apply_marker(k.next)
           r == changeSets[k.id]
           new == [changeSets EXCEPT ![k.id] = next]
<1>1. k.step \in {"update", "overwrite"} /\ k.step \in Writing /\ Linked(c)
  BY DEF update_change_set_from, update_change_set, Writing, PaperInv
<1>2. k.id \in Ids /\ k.next \in ChangeSetRecord /\ k.id \in minted
  BY <1>1, CallFacts DEF Linked
<1>3. /\ next \in ChangeSetRecord /\ next.state = k.next.state /\ next.approver = k.next.approver
      /\ next.waiver = k.next.waiver /\ next.preview = k.next.preview /\ next.owner = k.next.owner
      /\ Loadable(k.next) => Loadable(next)
  BY <1>2, MarkerPaper
<1> HIDE DEF next
<1>4. UNCHANGED <<minted, trail>>
  BY DEF update_change_set_from, update_change_set
<1>5. CASE UNCHANGED store /\ Return(c)
  BY <1>4, <1>5, StillStore, PaperReturn
<1>6. ASSUME NEW outcome \in Outcomes,
             k.step = "update" => Unmoved(k),
             check_change_set_write(r, next, "Update"), PersistOrRollBack(changeSets, new, outcome),
             \/ Return(c)
             \/ /\ k.step = "update" /\ outcome = "ok" /\ next.state = "Approved"
                /\ Continue(c, "emit", k.id, k.observed, next)
      PROVE  StoreStep /\ PaperInv'
  <2>1. Exists(r) /\ Follows(r, next)  BY <1>1, <1>3, <1>6, CarriedFollows
  <2>2. StoreStep  BY <1>2, <1>6, <2>1, FollowingWrite
  <2>3. PaperStep  BY <1>4, <2>2, StoreStepPapers
  <2>4. CASE Return(c)  BY <1>4, <2>2, <2>3, <2>4, PaperReturn
  <2>5. CASE /\ k.step = "update" /\ outcome = "ok" /\ next.state = "Approved"
             /\ Continue(c, "emit", k.id, k.observed, next)
    <3>1. calls'[c].step = "emit" /\ calls'[c].id = k.id /\ calls'[c].next = next
          /\ \A x \in Callers \ {c} : calls'[x] = calls[x]
      BY <2>5, ContinueCall
    <3>2. changeSets'[k.id] = next /\ file'[k.id] = next
      BY <1>2, <1>6, <2>5 DEF PersistOrRollBack, FileAfter, TypeInv, StoreTypes
    <3>3. WellGranted(next)
      BY <1>3, <2>5 DEF GrantInv, CallGranted, WellGranted
    <3>4. next.approver # NoOne \/ next.waiver # "none"
      BY <3>3, ConstantsAssumption DEF WellGranted
    <3>5. Trailed(Authority(next), next)  BY <2>5, <3>4 DEF Trailed
    <3>6. Papers(calls[c].id, Authority(calls[c].next))'
      BY <1>2, <1>4, <3>1, <3>2, <3>5 DEF Papers, Authority, Trailed
    <3>7. Linked(c)'  BY <3>1 DEF Linked, Writing
    <3>8. QED  BY <1>4, <2>2, <2>3, <3>1, <3>6, <3>7, PaperCall
  <2>6. QED  BY <1>6, <2>4, <2>5
<1>7. CASE update_change_set_from(c)
  <2>1. k.step = "update"  BY <1>7 DEF update_change_set_from
  <2>2. \/ UNCHANGED store /\ Return(c)
        \/ /\ Unmoved(k) /\ check_change_set_write(r, next, "Update")
           /\ \E outcome \in Outcomes :
                 /\ PersistOrRollBack(changeSets, new, outcome)
                 /\ IF Recorder /\ Succeeded(outcome) /\ next.state = "Approved"
                    THEN Continue(c, "emit", k.id, k.observed, next)
                    ELSE Return(c)
    BY <1>7 DEF update_change_set_from, next
  <2>3. QED  BY <1>5, <1>6, <2>1, <2>2 DEF Succeeded
<1>8. CASE update_change_set(c)
  <2>1. k.step = "overwrite" /\ Return(c)  BY <1>8 DEF update_change_set
  <2>2. \/ UNCHANGED store
        \/ /\ check_change_set_write(r, next, "Update")
           /\ \E outcome \in Outcomes : PersistOrRollBack(changeSets, new, outcome)
    BY <1>8 DEF update_change_set, next
  <2>3. QED  BY <1>5, <1>6, <2>1, <2>2
<1>9. QED  BY <1>7, <1>8

\* claim_change_set_for_apply: the claim carries the approval it spends.
LEMMA ClaimPapers ==
    ASSUME TypeInv, SpendInv, PaperInv, NEW c \in Callers, NEW id \in Ids, NEW b \in BOOLEAN,
           NEW step \in {"link", "vendor"}, claim_change_set_for_apply(c, id, b, step),
           UNCHANGED <<minted, trail>>
    PROVE  StoreStep /\ PaperInv'
<1> DEFINE r == changeSets[id]
           n == [r EXCEPT !.state = "Applying", !.noHandle = b]
           held == [changeSets EXCEPT ![id] = n]
<1>1. r \in ChangeSetRecord /\ Good(r)  BY DEF TypeInv, StoreTypes, PaperInv
<1>2. /\ n.state = "Applying" /\ n.owner = r.owner /\ n.device = r.device /\ n.approver = r.approver
      /\ n.waiver = r.waiver /\ n.preview = r.preview /\ n.signed = r.signed
  BY <1>1 DEF ChangeSetRecord
<1>3. \/ UNCHANGED store /\ Return(c)
      \/ /\ r.state = "Approved"
         /\ \E outcome \in Outcomes :
               /\ changeSets' = held /\ file' = FileAfter(file, held, outcome)
               /\ Return(c) \/ Continue(c, step, id, "Applying", n)
  BY DEF claim_change_set_for_apply, MemoryAfterClaim, Claimable
<1> HIDE DEF n
<1>4. held[id] = n /\ \A i \in Ids : i # id => held[i] = changeSets[i]
  BY DEF TypeInv, StoreTypes
<1> HIDE DEF r, held
<1>5. CASE UNCHANGED store /\ Return(c)  BY <1>5, StillStore, PaperReturn
<1>6. CASE /\ r.state = "Approved" /\ changeSets' = held /\ file' \in {file, held}
           /\ Return(c) \/ Continue(c, step, id, "Applying", n)
  <2>1. Exists(r) /\ Good(n)  BY <1>1, <1>2, <1>6 DEF Exists, Good, Loadable
  <2>2. Follows(r, n)  BY <1>2, <1>6, <2>1 DEF Follows, is_pending
  <2>3. Shrinks(changeSets, held)  BY <1>4, <2>1, <2>2 DEF Shrinks, Kept, r
  <2>4. StoreStep  BY <1>6, <2>3 DEF StoreStep
  <2>5. PaperStep  BY <2>4, StoreStepPapers
  <2>6. CASE Return(c)  BY <2>4, <2>5, <2>6, PaperReturn
  <2>7. CASE Continue(c, step, id, "Applying", n)
    <3>1. /\ calls'[c].step = step /\ calls'[c].id = id /\ calls'[c].observed = "Applying"
          /\ calls'[c].next = n /\ \A x \in Callers \ {c} : calls'[x] = calls[x]
      BY <2>7, ContinueCall
    <3>2. id \in minted'  BY <2>1 DEF SpendInv, Known, r
    <3>3. changeSets'[id] = n  BY <1>4, <1>6
    <3>4. Linked(c)'
      BY <1>2, <2>1, <3>1, <3>2, <3>3 DEF Linked, FromLater, Good
    <3>5. QED  BY <2>4, <2>5, <3>1, <3>4, PaperCall
  <2>8. QED  BY <1>6, <2>6, <2>7
<1>7. QED  BY <1>3, <1>5, <1>6 DEF FileAfter

\* An operation link, a task handle and a settlement: what a claim carries, with
\* the state or the handle it writes.
LEMMA SettlingPapers ==
    ASSUME TypeInv, GrantInv, PaperInv, NEW c \in Callers,
           calls[c].step \in {"link", "settle", "vendor"}, NEW n, NEW outcome,
           Loadable(calls[c].next) => Loadable(n), n.state # "Planned",
           n.approver = calls[c].next.approver, n.waiver = calls[c].next.waiver,
           n.preview = calls[c].next.preview,
           check_change_set_write(changeSets[calls[c].id], n, "Update"),
           PersistOrRollBack(changeSets, [changeSets EXCEPT ![calls[c].id] = n], outcome)
    PROVE  StoreStep /\ calls[c].observed # "Planned" /\ FromLater(calls[c], changeSets'[calls[c].id])
<1> DEFINE k == calls[c]
<1>1. k.step \in Writing /\ Linked(c) /\ k.id \in Ids  BY CallFacts DEF Writing, PaperInv
<1>2. k.observed # "Planned"  BY <1>1 DEF Linked, FromPlanned
<1>3. Exists(changeSets[k.id]) /\ Follows(changeSets[k.id], n)
  BY <1>1, <1>2, CarriedFollows
<1>4. StoreStep  BY <1>1, <1>3, FollowingWrite
<1>5. Kept(changeSets[k.id], changeSets'[k.id])  BY <1>1, <1>4 DEF StoreStep, Shrinks
<1>6. FromLater(k, changeSets[k.id])  BY <1>1, <1>2 DEF Linked
<1>7. FromLater(k, changeSets'[k.id])  BY <1>5, <1>6 DEF FromLater, Kept, Follows
<1>8. QED  BY <1>2, <1>4, <1>7

\* LinkOperation, VendorRecordsTask and SettleApply.
LEMMA ApplyPapers ==
    ASSUME TypeInv, SpendInv, GrantInv, PaperInv, NEW c \in Callers,
           LinkOperation(c) \/ VendorRecordsTask(c) \/ SettleApply(c)
    PROVE  StoreStep /\ PaperInv'
<1> DEFINE k == calls[c]
<1>1. k.step \in {"link", "settle", "vendor"} /\ k.step \in Writing /\ Linked(c)
  BY DEF LinkOperation, VendorRecordsTask, SettleApply, PaperInv, Writing
<1>2. k.id \in Ids /\ k.id \in minted /\ k.next \in ChangeSetRecord
  BY <1>1, CallFacts DEF Linked
<1>3. k.next.state = "Applying"  BY <1>1 DEF GrantInv, CallGranted
<1>4. UNCHANGED <<minted, trail>>
  BY DEF LinkOperation, VendorRecordsTask, SettleApply, history
<1>5. CASE UNCHANGED store /\ Return(c)  BY <1>4, <1>5, StillStore, PaperReturn
<1>6. ASSUME NEW n, NEW outcome,
             Loadable(k.next) => Loadable(n), n.state # "Planned",
             n.approver = k.next.approver, n.waiver = k.next.waiver, n.preview = k.next.preview,
             check_change_set_write(changeSets[k.id], n, "Update"),
             PersistOrRollBack(changeSets, [changeSets EXCEPT ![k.id] = n], outcome),
             \/ Return(c)
             \/ \E step \in {"settle", "vendor"} : Continue(c, step, k.id, "Applying", n)
      PROVE  StoreStep /\ PaperInv'
  <2>1. StoreStep /\ k.observed # "Planned" /\ FromLater(k, changeSets'[k.id])
    BY <1>1, <1>6, SettlingPapers
  <2>2. PaperStep  BY <1>4, <2>1, StoreStepPapers
  <2>3. CASE Return(c)  BY <1>4, <2>1, <2>2, <2>3, PaperReturn
  <2>4. ASSUME NEW step \in {"settle", "vendor"}, Continue(c, step, k.id, "Applying", n)
        PROVE  PaperInv'
    <3>1. /\ calls'[c].step = step /\ calls'[c].id = k.id /\ calls'[c].observed = "Applying"
          /\ calls'[c].next = n /\ \A x \in Callers \ {c} : calls'[x] = calls[x]
      BY <2>4, ContinueCall
    <3>2. k.step # "overwrite"  BY <1>1
    <3>3. Loadable(n)  BY <1>6, <2>1, <3>2 DEF FromLater
    <3>4. Linked(c)'
      BY <1>2, <1>4, <1>6, <2>1, <3>1, <3>3 DEF Linked, FromLater
    <3>5. QED  BY <1>4, <2>2, <3>1, <3>4, PaperCall
  <2>5. QED  BY <1>6, <2>1, <2>3, <2>4
<1>7. CASE LinkOperation(c)
  <2>1. \/ UNCHANGED store /\ Return(c)
        \/ /\ check_change_set_write(changeSets[k.id], k.next, "Update")
           /\ \E outcome \in Outcomes :
                 /\ PersistOrRollBack(changeSets, [changeSets EXCEPT ![k.id] = k.next], outcome)
                 /\ Return(c) \/ Continue(c, "settle", k.id, "Applying", k.next)
    <3>1. PICK outcome \in Outcomes :
              /\ check_change_set_write(changeSets[k.id], k.next, "Update") \/ outcome = "lost"
              /\ PersistOrRollBack(changeSets,
                    IF check_change_set_write(changeSets[k.id], k.next, "Update")
                    THEN [changeSets EXCEPT ![k.id] = k.next] ELSE changeSets,
                    outcome)
              /\ IF outcome = "ok"
                 THEN Continue(c, "settle", k.id, "Applying", k.next) ELSE Return(c)
      BY <1>7 DEF LinkOperation
    <3>2. CASE check_change_set_write(changeSets[k.id], k.next, "Update")  BY <3>1, <3>2
    <3>3. CASE ~check_change_set_write(changeSets[k.id], k.next, "Update")
      BY <3>1, <3>3 DEF PersistOrRollBack, FileAfter, store
    <3>4. QED  BY <3>2, <3>3
  <2>2. QED  BY <1>3, <1>5, <1>6, <2>1
<1>8. CASE VendorRecordsTask(c)
  <2> DEFINE n == [k.next EXCEPT !.task = TRUE]
  <2>1. /\ n.state = k.next.state /\ n.approver = k.next.approver /\ n.waiver = k.next.waiver
        /\ n.preview = k.next.preview /\ n.owner = k.next.owner /\ n.signed = k.next.signed
    BY <1>2 DEF ChangeSetRecord
  <2>2. /\ check_change_set_write(changeSets[k.id], n, "Update")
        /\ \E outcome \in Outcomes :
              PersistOrRollBack(changeSets, [changeSets EXCEPT ![k.id] = n], outcome)
        /\ Continue(c, "vendor", k.id, "Applying", n)
    BY <1>8 DEF VendorRecordsTask
  <2> HIDE DEF n
  <2>3. Loadable(k.next) => Loadable(n)  BY <2>1 DEF Loadable, Exists
  <2>4. QED  BY <1>3, <1>6, <2>1, <2>2, <2>3
<1>9. CASE SettleApply(c)
  <2>1. PICK s \in {"Applied", "Failed"}, outcome \in Outcomes :
           LET n == normalise_apply_marker([k.next EXCEPT !.state = s]) IN
           /\ check_change_set_write(changeSets[k.id], n, "Update") \/ outcome = "lost"
           /\ PersistOrRollBack(changeSets, [changeSets EXCEPT ![k.id] = n], outcome)
    BY <1>9 DEF SettleApply
  <2> DEFINE m == [k.next EXCEPT !.state = s]
             n == normalise_apply_marker(m)
  <2>2. s \in ChangeSetState /\ m \in ChangeSetRecord  BY <1>2, SetState DEF ChangeSetState
  <2>3. /\ m.state = s /\ m.approver = k.next.approver /\ m.waiver = k.next.waiver
        /\ m.preview = k.next.preview /\ m.owner = k.next.owner /\ m.signed = k.next.signed
    BY <1>2 DEF ChangeSetRecord
  <2> HIDE DEF m
  <2>4. /\ n.state = m.state /\ n.approver = m.approver /\ n.waiver = m.waiver
        /\ n.preview = m.preview
        /\ Loadable(m) => Loadable(n)
    BY <2>2, MarkerPaper
  <2>5. Loadable(k.next) => Loadable(m)  BY <1>3, <2>3 DEF Loadable, Exists
  <2>6. /\ check_change_set_write(changeSets[k.id], n, "Update") \/ outcome = "lost"
        /\ PersistOrRollBack(changeSets, [changeSets EXCEPT ![k.id] = n], outcome)
    BY <2>1 DEF m
  <2> HIDE DEF n
  <2>7. Return(c)  BY <1>9 DEF SettleApply
  <2>8. CASE outcome = "lost"
    BY <1>5, <2>6, <2>7, <2>8 DEF PersistOrRollBack, FileAfter, store
  <2>9. CASE check_change_set_write(changeSets[k.id], n, "Update")
    BY <1>6, <2>3, <2>4, <2>5, <2>6, <2>7, <2>9
  <2>10. QED  BY <2>6, <2>8, <2>9
<1>10. QED  BY <1>7, <1>8, <1>9

\* A step that moves no call.
LEMMA PaperStay ==
    ASSUME TypeInv, PaperInv, PaperStep, UNCHANGED <<calls, trail>>
    PROVE  PaperInv'
<1>1. ASSUME NEW i \in Ids PROVE Good(changeSets'[i]) /\ Good(file'[i])
  BY <1>1, KeptGood DEF PaperInv, PaperStep, NewCopy
<1>2. ASSUME NEW i \in Ids, NEW who, Papers(i, who)
      PROVE  i \in minted' /\ Trailed(who, changeSets'[i]) /\ Trailed(who, file'[i])
  BY <1>2, KeptTrailed DEF Papers, PaperStep, NewCopy
<1>3. ASSUME NEW x \in Callers PROVE Linked(x)'
  BY <1>3, StaysLinked DEF PaperInv, TypeInv, CallTypes, CallsWellFormed
<1>4. ASSUME NEW x \in Callers, calls'[x].step = "emit"
      PROVE  Papers(calls[x].id, Authority(calls[x].next))'
  <2>1. calls[x].id \in Ids /\ Papers(calls[x].id, Authority(calls[x].next))
    BY <1>4 DEF PaperInv, TypeInv, CallTypes, CallsWellFormed
  <2>2. QED  BY <1>2, <2>1 DEF Papers, Authority
<1>5. ASSUME NEW e \in trail' PROVE Papers(e[1], e[2])'
  <2>1. e[1] \in Ids /\ Papers(e[1], e[2])  BY <1>5 DEF PaperInv, TypeInv, HistoryTypes
  <2>2. QED  BY <1>2, <2>1 DEF Papers
<1>6. QED  BY <1>1, <1>3, <1>4, <1>5 DEF PaperInv

\* A restarted vendor server settles a record left Applying.
LEMMA ReprobePapers ==
    ASSUME TypeInv, PaperInv, NEW id \in Ids, VendorReprobes(id)
    PROVE  StoreStep /\ PaperInv'
<1> DEFINE r == changeSets[id]
<1>1. PICK s \in {"Applied", "Failed"}, outcome \in Outcomes :
         LET n == normalise_apply_marker([r EXCEPT !.state = s]) IN
         /\ check_change_set_write(r, n, "Update")
         /\ PersistOrRollBack(changeSets, [changeSets EXCEPT ![id] = n], outcome)
  BY DEF VendorReprobes
<1> DEFINE m == [r EXCEPT !.state = s]
           n == normalise_apply_marker(m)
<1>2. r \in ChangeSetRecord /\ Good(r) /\ r.state = "Applying" /\ Exists(r)
  BY DEF TypeInv, StoreTypes, PaperInv, VendorReprobes, Exists
<1>3. s \in ChangeSetState /\ m \in ChangeSetRecord  BY <1>2, SetState DEF ChangeSetState
<1>4. Good(m) /\ m.state = s /\ m.approver = r.approver /\ m.waiver = r.waiver
  BY <1>2, <1>3, SetStatePaper
<1> HIDE DEF m
<1>5. n.state = m.state /\ n.approver = m.approver /\ n.waiver = m.waiver /\ Loadable(n)
  BY <1>3, <1>4, MarkerPaper DEF Good
<1>6. /\ check_change_set_write(r, n, "Update")
      /\ PersistOrRollBack(changeSets, [changeSets EXCEPT ![id] = n], outcome)
  BY <1>1 DEF m
<1> HIDE DEF n
<1>7. Good(n)  BY <1>4, <1>5 DEF Good
<1>8. Exists(r) /\ Follows(r, n)  BY <1>4, <1>5, <1>6, <1>7, GateFollows
<1> HIDE DEF r
<1>9. StoreStep  BY <1>6, <1>8, FollowingWrite DEF r
<1>10. UNCHANGED <<calls, trail, minted>>  BY DEF VendorReprobes, history
<1>11. QED  BY <1>9, <1>10, StoreStepPapers, PaperStay

\* The steps that write nothing: the guard, the trail, and giving up.
LEMMA QuietPapers ==
    ASSUME TypeInv, SpendInv, PaperInv, NEW c \in Callers,
           TakeGuard(c) \/ RecordEvidence(c) \/ CancelQueued(c) \/ GiveUpBeforeClaim(c)
    PROVE  UNCHANGED store /\ PaperInv'
<1> DEFINE k == calls[c]
           r == changeSets[k.id]
<1>1. UNCHANGED store /\ minted' = minted
  BY DEF TakeGuard, RecordEvidence, CancelQueued, GiveUpBeforeClaim, history
<1>2. PaperStep  BY <1>1, StillStore
<1>3. CASE Return(c) /\ UNCHANGED trail  BY <1>1, <1>2, <1>3, PaperReturn
<1>4. CASE RecordEvidence(c)
  <2>1. /\ k.step = "emit" /\ Return(c)
        /\ trail' = trail \cup {<<k.id, Authority(k.next)>>}
    BY <1>4 DEF RecordEvidence
  <2>2. calls'[c].step # "emit"  BY <2>1, ReturnCall
  <2>3. QED  BY <1>1, <1>2, <2>1, <2>2, ReturnCall, PaperCall
<1>5. CASE TakeGuard(c)
  <2> DEFINE e == [r EXCEPT !.state = "Expired"]
  <2>1. UNCHANGED trail /\ k.step = "queued"  BY <1>5 DEF TakeGuard, history
  <2>2. k.id \in Ids  BY <2>1, CallFacts
  <2>3. r \in ChangeSetRecord /\ Good(r)  BY <2>2 DEF TypeInv, StoreTypes, PaperInv
  <2>4. \/ Return(c)
        \/ /\ r.state = "Approved"
           /\ Continue(c, "overwrite", k.id, r.state, e) \/ Continue(c, "claim", k.id, r.state, r)
    BY <1>5 DEF TakeGuard
  <2>5. "Expired" \in ChangeSetState  BY DEF ChangeSetState
  <2>6. /\ Exists(r) => Good(e)
        /\ e.state = "Expired" /\ e.approver = r.approver /\ e.waiver = r.waiver
    BY <2>3, <2>5, SetStatePaper
  <2> HIDE DEF e
  <2>7. CASE r.state = "Approved" /\ Continue(c, "overwrite", k.id, r.state, e)
    <3>1. Exists(r) /\ Loadable(e)  BY <2>6, <2>7 DEF Exists, Good
    <3>2. QED  BY <1>1, <2>1, <2>2, <2>6, <2>7, <3>1, PaperRead
  <2>8. CASE r.state = "Approved" /\ Continue(c, "claim", k.id, r.state, r)
    <3>1. Exists(r) /\ "claim" \notin Writing  BY <2>8 DEF Exists, Writing
    <3>2. QED  BY <1>1, <2>1, <2>2, <2>8, <3>1, PaperRead
  <2>9. QED  BY <1>1, <1>3, <2>1, <2>4, <2>7, <2>8
<1>6. QED
  BY <1>1, <1>3, <1>4, <1>5 DEF CancelQueued, GiveUpBeforeClaim, history

\* The sweep and the eviction keep each record, retire it or drop it.
LEMMA KeptShrinks ==
    ASSUME TypeInv, PaperInv
    PROVE  Shrinks(changeSets, EvictTerminal(Sweep(changeSets, clock)))
<1> DEFINE kept == EvictTerminal(Sweep(changeSets, clock))
<1> HIDE DEF kept
<1> SUFFICES ASSUME NEW i \in Ids PROVE Kept(changeSets[i], kept[i])
  BY DEF Shrinks, kept
<1> DEFINE r == changeSets[i]
           e == [r EXCEPT !.state = "Expired"]
<1>1. kept[i] = r \/ kept[i] = NoRecord \/ (kept[i] = e /\ Unclaimed(r))
  BY KeptTypes DEF TypeInv, StoreTypes, kept
<1>2. r \in ChangeSetRecord /\ Good(r)  BY DEF TypeInv, StoreTypes, PaperInv
<1>3. "Expired" \in ChangeSetState  BY DEF ChangeSetState
<1>4. /\ Exists(r) => Good(e)
      /\ e.state = "Expired" /\ e.owner = r.owner /\ e.device = r.device
      /\ e.approver = r.approver /\ e.waiver = r.waiver /\ e.preview = r.preview
  BY <1>2, <1>3, SetStatePaper
<1> HIDE DEF e, r
<1>5. CASE kept[i] = r  BY <1>5 DEF Kept, r
<1>6. CASE kept[i] = NoRecord  BY <1>6 DEF Kept, Exists, NoRecord
<1>7. CASE kept[i] = e /\ Unclaimed(r)
  <2>1. Exists(r)  BY <1>7 DEF Unclaimed, Exists
  <2>2. Follows(r, e)  BY <1>4, <2>1 DEF Follows, is_pending
  <2>3. QED  BY <1>7, <2>1, <2>2 DEF Kept, r
<1>8. QED  BY <1>1, <1>5, <1>6, <1>7

\* A new plan is a good record under an id nobody holds.
LEMMA CreatePapers ==
    ASSUME TypeInv, PaperInv, NEW c \in Callers, NEW id \in Ids, NEW owner \in Principals,
           NEW device \in Devices, create_change_set(c, id, owner, device)
    PROVE  PaperInv'
<1> DEFINE kept == EvictTerminal(Sweep(changeSets, clock))
           record == [NoRecord EXCEPT !.state = "Planned", !.owner = owner,
                                      !.device = device, !.expires = clock + ApprovalTtl]
           inserted == [kept EXCEPT ![id] = record]
<1>1. Shrinks(changeSets, kept)  BY KeptShrinks
<1>2. kept \in [Ids -> ChangeSetRecord]  BY KeptTypes DEF TypeInv, StoreTypes
<1>3. record.state = "Planned" /\ record.owner = owner /\ record.approver = NoOne /\ record.waiver = "none"
  BY DEF NoRecord
<1>4. id \notin minted /\ UNCHANGED <<calls, trail>> /\ minted \subseteq minted'
  BY DEF create_change_set, insert_change_set
<1>5. changeSets' \in {changeSets, kept, inserted} /\ file' \in {file, kept, inserted}
  BY DEF create_change_set, insert_change_set, PersistOrRollBack, FileAfter
<1> HIDE DEF kept, record
<1>6. inserted[id] = record /\ \A i \in Ids : i # id => inserted[i] = kept[i]  BY <1>2
<1> HIDE DEF inserted
<1>7. owner # NoOne  BY ConstantsAssumption
<1>8. Good(record)  BY <1>3, <1>7 DEF Good, Loadable
<1>9. ASSUME NEW i \in Ids
      PROVE  NewCopy(i, changeSets[i]) /\ NewCopy(i, kept[i]) /\ NewCopy(i, inserted[i])
  BY <1>1, <1>4, <1>6, <1>8 DEF NewCopy, Shrinks, Kept
<1>10. PaperStep  BY <1>4, <1>5, <1>9 DEF PaperStep
<1>11. QED  BY <1>4, <1>10, PaperStay

\* A process that is down runs no call.
DownInv == ~up => \A c \in Callers : calls[c].step = "idle"

LEMMA DownStep == DownInv /\ [Next]_vars => DownInv'
<1> SUFFICES ASSUME DownInv, [Next]_vars PROVE DownInv'
  OBVIOUS
<1>1. CASE UNCHANGED vars  BY <1>1 DEF vars, DownInv
<1>2. ASSUME NEW c \in Callers, Proceed(c) \/ Request(c) PROVE up /\ up' = up
  BY <1>2 DEF Proceed, Request, update_change_set_from, RecordEvidence, update_change_set, TakeGuard,
     ClaimForApply, LinkOperation, SettleApply, CancelQueued, GiveUpBeforeClaim, VendorRecordsTask,
     create_change_set, approve_change_set, waive_approval, waive_approval_operator,
     change_set_status, cancel_change_set, VendorRendersPreview, apply_change_set, VendorClaims,
     Begins, process
<1>3. ASSUME NEW id \in Ids, VendorReprobes(id) PROVE up /\ up' = up
  BY <1>3 DEF VendorReprobes, process
<1>4. CASE Crash  BY <1>4 DEF Crash, DownInv, IdleCall
<1>5. ASSUME NEW lab \in LabModes, load(lab) PROVE DownInv'  BY <1>5 DEF load, DownInv
<1>6. CASE Tick  BY <1>6 DEF Tick, process, DownInv
<1>7. QED  BY <1>1, <1>2, <1>3, <1>4, <1>5, <1>6 DEF Next, DownInv

\* Recovery keeps each record of the file or settles it.
LEMMA RecoverShrinks ==
    ASSUME TypeInv, PaperInv
    PROVE  Shrinks(file, Recover(file))
<1> SUFFICES ASSUME NEW i \in Ids PROVE Kept(file[i], RecoverChangeSet(file[i]))
  BY DEF Shrinks, Recover
<1> DEFINE r == file[i]
           n == [r EXCEPT !.state = "Failed"]
<1>1. r \in ChangeSetRecord /\ Good(r)  BY DEF TypeInv, StoreTypes, PaperInv
<1>2. "Failed" \in ChangeSetState  BY DEF ChangeSetState
<1>3. /\ Exists(r) => Good(n)
      /\ n.state = "Failed" /\ n.owner = r.owner /\ n.device = r.device
      /\ n.approver = r.approver /\ n.waiver = r.waiver /\ n.preview = r.preview
  BY <1>1, <1>2, SetStatePaper
<1>4. RecoverChangeSet(r) = r \/ (r.state = "Applying" /\ RecoverChangeSet(r) = n)
  BY DEF RecoverChangeSet
<1> HIDE DEF n, r
<1>5. CASE RecoverChangeSet(r) = r  BY <1>5 DEF Kept, r
<1>6. CASE r.state = "Applying" /\ RecoverChangeSet(r) = n
  <2>1. Exists(r)  BY <1>6 DEF Exists
  <2>2. Follows(r, n)  BY <1>3, <2>1 DEF Follows, is_pending
  <2>3. QED  BY <1>6, <2>1, <2>2 DEF Kept, r
<1>7. QED  BY <1>4, <1>5, <1>6

\* The stop, the start and the clock.
LEMMA ProcessPapers ==
    ASSUME TypeInv, DownInv, PaperInv, Crash \/ (\E lab \in LabModes : load(lab)) \/ Tick
    PROVE  PaperInv'
<1>1. CASE Tick  BY <1>1, StillStore, PaperStay DEF Tick, history
<1>2. CASE Crash
  <2>1. \A i \in Ids : ~Exists(changeSets'[i]) /\ Kept(changeSets[i], changeSets'[i])
    BY <1>2 DEF Crash, Kept, Exists, NoRecord
  <2>2. UNCHANGED <<file, minted, trail>> /\ \A c \in Callers : calls'[c].step = "idle"
    BY <1>2 DEF Crash, history, IdleCall
  <2>3. \A i \in Ids : Good(changeSets'[i]) /\ Good(file'[i])
    BY <2>1, <2>2, KeptGood DEF PaperInv
  <2>4. \A c \in Callers : Linked(c)'  BY <2>2 DEF Linked, Writing
  <2>5. \A e \in trail' : Papers(e[1], e[2])'
    BY <2>1, <2>2 DEF PaperInv, Papers, Trailed, TypeInv, HistoryTypes
  <2>6. QED  BY <2>2, <2>3, <2>4, <2>5 DEF PaperInv
<1>3. ASSUME NEW lab \in LabModes, load(lab) PROVE PaperInv'
  <2>1. UNCHANGED <<calls, minted, trail>> /\ \A c \in Callers : calls'[c].step = "idle"
    BY <1>3 DEF load, history, DownInv
  <2>2. /\ changeSets' = changeSets \/ changeSets' = Recover(file)
        /\ file' = Recover(file)
    BY <1>3 DEF load
  <2>3. ASSUME NEW i \in Ids
        PROVE  /\ changeSets'[i] = changeSets[i] \/ Kept(file[i], changeSets'[i])
               /\ Kept(file[i], file'[i])
    BY <2>2, RecoverShrinks DEF Shrinks
  <2>4. ASSUME NEW i \in Ids PROVE Good(changeSets'[i]) /\ Good(file'[i])
    BY <2>3, KeptGood DEF PaperInv
  <2>5. \A c \in Callers : Linked(c)'  BY <2>1 DEF Linked, Writing
  <2>6. ASSUME NEW e \in trail' PROVE Papers(e[1], e[2])'
    <3>1. e[1] \in Ids /\ Papers(e[1], e[2])  BY <2>1 DEF PaperInv, TypeInv, HistoryTypes
    <3>2. Trailed(e[2], changeSets'[e[1]]) /\ Trailed(e[2], file'[e[1]])
      BY <2>3, <3>1, KeptTrailed DEF Papers
    <3>3. QED  BY <2>1, <3>1, <3>2 DEF Papers
  <2>7. QED  BY <2>1, <2>4, <2>5, <2>6 DEF PaperInv
<1>4. QED  BY <1>1, <1>2, <1>3

\* Every step that neither plans, stops nor starts is a StoreStep, and every step
\* keeps the papers.
LEMMA PaperNext ==
    ASSUME TypeInv, SpendInv, GrantInv, DownInv, PaperInv, Next
    PROVE  /\ PaperInv'
           /\ \/ StoreStep \/ Crash \/ (\E lab \in LabModes : load(lab))
              \/ \E c \in Callers, id \in Ids, p \in Principals, d \in Devices : create_change_set(c, id, p, d)
<1>1. ASSUME NEW c \in Callers, Proceed(c) PROVE StoreStep /\ PaperInv'
  <2>1. CASE update_change_set_from(c) \/ update_change_set(c)  BY <2>1, UpdatePapers
  <2>2. CASE LinkOperation(c) \/ SettleApply(c)  BY <2>2, ApplyPapers
  <2>3. CASE RecordEvidence(c) \/ TakeGuard(c)
    <3>1. UNCHANGED store /\ PaperInv'  BY <2>3, QuietPapers
    <3>2. StoreStep  BY <3>1 DEF store, StoreStep, Shrinks, Kept
    <3>3. QED  BY <3>1, <3>2
  <2>4. CASE ClaimForApply(c)
    <3>1. calls[c].step # "idle" /\ claim_change_set_for_apply(c, calls[c].id, FALSE, "link")
          /\ UNCHANGED <<minted, trail>>
      BY <2>4 DEF ClaimForApply
    <3>2. QED  BY <3>1, CallFacts, ClaimPapers
  <2>5. QED  BY <1>1, <2>1, <2>2, <2>3, <2>4 DEF Proceed
<1>2. ASSUME NEW c \in Callers, NEW id \in Ids, NEW b \in BOOLEAN, VendorClaims(c, id, b)
      PROVE  StoreStep /\ PaperInv'
  <2>1. claim_change_set_for_apply(c, id, b, "vendor") /\ UNCHANGED <<minted, trail>>
    BY <1>2 DEF VendorClaims
  <2>2. QED  BY <2>1, ClaimPapers
<1>3. ASSUME NEW c \in Callers, NEW id \in Ids,
             \/ \E p \in Principals : approve_change_set(c, id, p)
             \/ waive_approval(c, id)
             \/ waive_approval_operator(c, id, "operator", 0)
             \/ \E until \in 1 .. MaxClock : waive_approval_operator(c, id, "timed", until)
             \/ change_set_status(c, id)
             \/ \E p \in Principals : cancel_change_set(c, id, p)
             \/ VendorRendersPreview(c, id)
             \/ apply_change_set(c, id)
      PROVE  StoreStep /\ PaperInv'
  <2>1. UNCHANGED store
    BY <1>3 DEF approve_change_set, waive_approval, waive_approval_operator, change_set_status,
           cancel_change_set, VendorRendersPreview, apply_change_set
  <2>2. StoreStep  BY <2>1 DEF store, StoreStep, Shrinks, Kept
  <2>3. QED  BY <1>3, <2>2, ReadPapers
<1>4. ASSUME NEW c \in Callers, CancelQueued(c) \/ GiveUpBeforeClaim(c) \/ VendorRecordsTask(c)
      PROVE  StoreStep /\ PaperInv'
  <2>1. CASE VendorRecordsTask(c)  BY <2>1, ApplyPapers
  <2>2. CASE CancelQueued(c) \/ GiveUpBeforeClaim(c)
    <3>1. UNCHANGED store /\ PaperInv'  BY <2>2, QuietPapers
    <3>2. StoreStep  BY <3>1 DEF store, StoreStep, Shrinks, Kept
    <3>3. QED  BY <3>1, <3>2
  <2>3. QED  BY <1>4, <2>1, <2>2
<1>5. CASE Tick
  <2>1. StoreStep  BY <1>5 DEF Tick, store, StoreStep, Shrinks, Kept
  <2>2. QED  BY <1>5, <2>1, ProcessPapers
<1>6. ASSUME NEW c \in Callers, Request(c)
      PROVE  \/ StoreStep /\ PaperInv'
             \/ /\ PaperInv'
                /\ \E id \in Ids, p \in Principals, d \in Devices : create_change_set(c, id, p, d)
  BY <1>2, <1>3, <1>4, <1>6, CreatePapers DEF Request
<1>7. ASSUME NEW id \in Ids, VendorReprobes(id) PROVE StoreStep /\ PaperInv'
  BY <1>7, ReprobePapers
<1>8. CASE Crash  BY <1>8, ProcessPapers
<1>9. ASSUME NEW lab \in LabModes, load(lab) PROVE PaperInv'  BY <1>9, ProcessPapers
<1>10. QED  BY <1>1, <1>5, <1>6, <1>7, <1>8, <1>9 DEF Next

\* Nothing is stored, under way or reported initially.
LEMMA PaperInit == Init => PaperInv /\ DownInv
<1> SUFFICES ASSUME Init PROVE PaperInv /\ DownInv
  OBVIOUS
<1>1. Good(NoRecord)  BY DEF Good, Loadable, Exists, NoRecord
<1>2. \A i \in Ids : Good(changeSets[i]) /\ Good(file[i])  BY <1>1 DEF Init
<1>3. \A c \in Callers : calls[c].step = "idle"  BY DEF Init, IdleCall
<1>4. \A c \in Callers : Linked(c)  BY <1>3 DEF Linked, Writing
<1>5. trail = {}  BY DEF Init
<1>6. QED  BY <1>2, <1>3, <1>4, <1>5 DEF PaperInv, DownInv

\* Every record stored keeps the approval it was given, every call carries the
\* approval it read, and every approval in the trail is that of the record, for
\* every interleaving, failed write, stop and restart of the coordinator.
THEOREM PapersInvariant == Spec => [](PaperInv /\ DownInv)
<1>1. ASSUME TypeInv, SpendInv, GrantInv, PaperInv, DownInv, [Next]_vars
      PROVE  PaperInv' /\ DownInv'
  <2>1. DownInv'  BY <1>1, DownStep
  <2>2. CASE UNCHANGED vars
    <3>1. UNCHANGED store /\ UNCHANGED <<calls, trail, minted>>  BY <2>2 DEF vars, store
    <3>2. QED  BY <1>1, <2>1, <3>1, StillStore, PaperStay
  <2>3. CASE Next  BY <1>1, <2>1, <2>3, PaperNext
  <2>4. QED  BY <1>1, <2>2, <2>3
<1>2. QED  BY <1>1, PaperInit, AlwaysSpent, AlwaysGranted, PTL DEF Spec

\* Whatever the coordinator writes, validate_state accepts at the next start:
\* no order of approvals, waivers, renderings, applies and failed writes leaves
\* a file that is refused.
THEOREM FileStaysLoadable == Spec => []FileLoadable
<1>1. PaperInv => FileLoadable  BY DEF PaperInv, Good, FileLoadable
<1>2. QED  BY <1>1, PapersInvariant, PTL

\* The evidence trail never names an approval or a waiver that the state file
\* does not hold, or holds as somebody else's.
THEOREM TrailStaysPersisted == Spec => []TrailIsPersisted
<1>1. PaperInv => TrailIsPersisted  BY DEF PaperInv, Papers, Trailed, TrailIsPersisted
<1>2. QED  BY <1>1, PapersInvariant, PTL

-----------------------------------------------------------------------------
(* The bounds of the store *)

Held(m) == {i \in Ids : Exists(m[i])}

\* One pending record per owner and device, and no more records than fit.
Room(m) ==
    /\ \A i, j \in Ids :
          (/\ is_pending(m[i].state) /\ is_pending(m[j].state)
           /\ m[i].owner = m[j].owner /\ m[i].device = m[j].device) => i = j
    /\ IsFiniteSet(Held(m)) /\ Cardinality(Held(m)) <= MaxChangeSets

RoomInv == Room(changeSets) /\ Room(file)

\* A map that only keeps, settles or drops records keeps within the bounds.
LEMMA ShrinkingRoom ==
    ASSUME NEW m, NEW n, Shrinks(m, n), Room(m)
    PROVE  Room(n)
<1>1. ASSUME NEW i \in Ids
      PROVE  /\ Exists(n[i]) => Exists(m[i])
             /\ is_pending(n[i].state) =>
                   is_pending(m[i].state) /\ n[i].owner = m[i].owner /\ n[i].device = m[i].device
  BY <1>1 DEF Shrinks, Kept, Follows, Exists, is_pending
<1>2. Held(n) \subseteq Held(m)  BY <1>1 DEF Held
<1>3. IsFiniteSet(Held(n)) /\ Cardinality(Held(n)) <= Cardinality(Held(m))
  BY <1>2, FS_Subset DEF Room
<1>4. Cardinality(Held(n)) \in Nat /\ Cardinality(Held(m)) \in Nat
  BY <1>3, FS_CardinalityType DEF Room
<1>5. Cardinality(Held(n)) <= MaxChangeSets  BY <1>3, <1>4, ConstantsAssumption DEF Room
<1>6. QED  BY <1>1, <1>3, <1>5 DEF Room

\* A new record fits where the map is not full and its owner has no pending one.
LEMMA AddingRoom ==
    ASSUME NEW m \in [Ids -> ChangeSetRecord], Room(m), NEW id \in Ids, NEW r,
           ~StoreFull(m), ~Blocked(m, r.owner, r.device)
    PROVE  Room([m EXCEPT ![id] = r])
<1> DEFINE n == [m EXCEPT ![id] = r]
<1>1. n[id] = r /\ \A i \in Ids : i # id => n[i] = m[i]  OBVIOUS
<1> HIDE DEF n
<1>2. \A i \in Ids : is_pending(m[i].state) => ~(m[i].owner = r.owner /\ m[i].device = r.device)
  BY DEF Blocked
<1>3. \A i, j \in Ids :
          (/\ is_pending(n[i].state) /\ is_pending(n[j].state)
           /\ n[i].owner = n[j].owner /\ n[i].device = n[j].device) => i = j
  BY <1>1, <1>2 DEF Room
<1>4. IsFiniteSet(Held(m)) /\ Cardinality(Held(m)) \in Nat  BY FS_CardinalityType DEF Room
<1>5. Cardinality(Held(m)) < MaxChangeSets
  BY <1>4, ConstantsAssumption DEF StoreFull, Count, Held
<1>6. IsFiniteSet(Held(m) \cup {id}) /\ Cardinality(Held(m) \cup {id}) <= Cardinality(Held(m)) + 1
  BY <1>4, FS_AddElement
<1>7. Held(n) \subseteq Held(m) \cup {id}  BY <1>1 DEF Held
<1>8. /\ IsFiniteSet(Held(n)) /\ Cardinality(Held(n)) <= Cardinality(Held(m) \cup {id})
      /\ Cardinality(Held(n)) \in Nat /\ Cardinality(Held(m) \cup {id}) \in Nat
  BY <1>6, <1>7, FS_Subset, FS_CardinalityType
<1>9. Cardinality(Held(n)) <= MaxChangeSets  BY <1>4, <1>5, <1>6, <1>8, ConstantsAssumption
<1>10. Room(n)  BY <1>3, <1>8, <1>9 DEF Room
<1>11. QED  BY <1>10 DEF n

LEMMA EmptyRoom ==
    ASSUME NEW m, \A i \in Ids : ~Exists(m[i])
    PROVE  Room(m)
<1>1. Held(m) = {}  BY DEF Held
<1>2. IsFiniteSet(Held(m)) /\ Cardinality(Held(m)) = 0  BY <1>1, FS_EmptySet
<1>3. \A i \in Ids : ~is_pending(m[i].state)  BY DEF Exists, is_pending
<1>4. QED  BY <1>2, <1>3, ConstantsAssumption DEF Room

\* insert_change_set: what it keeps fits, and so does what it adds.
LEMMA CreateRoom ==
    ASSUME TypeInv, PaperInv, RoomInv, NEW c \in Callers, NEW id \in Ids, NEW owner \in Principals,
           NEW device \in Devices, create_change_set(c, id, owner, device)
    PROVE  RoomInv'
<1> DEFINE kept == EvictTerminal(Sweep(changeSets, clock))
           record == [NoRecord EXCEPT !.state = "Planned", !.owner = owner,
                                      !.device = device, !.expires = clock + ApprovalTtl]
           inserted == [kept EXCEPT ![id] = record]
<1>1. kept \in [Ids -> ChangeSetRecord]  BY KeptTypes DEF TypeInv, StoreTypes
<1>2. Room(kept)  BY KeptShrinks, ShrinkingRoom DEF RoomInv
<1>3. \/ changeSets' \in {changeSets, kept} /\ file' \in {file, kept}
      \/ /\ ~StoreFull(kept) /\ ~Blocked(kept, record.owner, record.device)
         /\ changeSets' \in {kept, inserted} /\ file' \in {file, kept, inserted}
  BY DEF create_change_set, insert_change_set, PersistOrRollBack, FileAfter
<1> HIDE DEF kept, record
<1>4. CASE changeSets' \in {changeSets, kept} /\ file' \in {file, kept}
  BY <1>2, <1>4 DEF RoomInv
<1>5. CASE /\ ~StoreFull(kept) /\ ~Blocked(kept, record.owner, record.device)
           /\ changeSets' \in {kept, inserted} /\ file' \in {file, kept, inserted}
  <2>1. Room(inserted)  BY <1>1, <1>2, <1>5, AddingRoom
  <2> HIDE DEF inserted
  <2>2. QED  BY <1>2, <1>5, <2>1 DEF RoomInv
<1>6. QED  BY <1>3, <1>4, <1>5

\* In memory and in the file, an owner has at most one pending change set per
\* device and there are never more than max_change_sets records, whichever of
\* the two writes of an insert fails and wherever the process stops.
THEOREM StoreStaysWithinLimits == Spec => []StoreWithinLimits
<1>1. ASSUME TypeInv, SpendInv, GrantInv, PaperInv, DownInv, RoomInv, [Next]_vars
      PROVE  RoomInv'
  <2>1. CASE UNCHANGED vars  BY <1>1, <2>1 DEF vars, RoomInv
  <2>2. CASE StoreStep  BY <1>1, <2>2, ShrinkingRoom DEF StoreStep, RoomInv
  <2>3. CASE Crash
    <3>1. \A i \in Ids : ~Exists(changeSets'[i])  BY <2>3 DEF Crash, Exists, NoRecord
    <3>2. Room(changeSets') /\ file' = file  BY <2>3, <3>1, EmptyRoom DEF Crash
    <3>3. QED  BY <1>1, <3>2 DEF RoomInv
  <2>4. ASSUME NEW lab \in LabModes, load(lab) PROVE RoomInv'
    <3>1. Room(Recover(file))  BY <1>1, RecoverShrinks, ShrinkingRoom DEF RoomInv
    <3>2. changeSets' \in {changeSets, Recover(file)} /\ file' = Recover(file)  BY <2>4 DEF load
    <3>3. QED  BY <1>1, <3>1, <3>2 DEF RoomInv
  <2>5. ASSUME NEW c \in Callers, NEW id \in Ids, NEW p \in Principals, NEW d \in Devices,
               create_change_set(c, id, p, d)
        PROVE  RoomInv'
    BY <1>1, <2>5, CreateRoom
  <2>6. QED  BY <1>1, <2>1, <2>2, <2>3, <2>4, <2>5, PaperNext
<1>2. Init => RoomInv
  <2>1. ~Exists(NoRecord)  BY DEF Exists, NoRecord
  <2>2. QED  BY <2>1, EmptyRoom DEF Init, RoomInv
<1>3. RoomInv => StoreWithinLimits
  BY DEF RoomInv, Room, StoreWithinLimits, OnePendingPerOwnerAndDevice, WithinCapacity, Count, Held,
         is_pending
<1>4. QED  BY <1>1, <1>2, <1>3, AlwaysSpent, AlwaysGranted, PapersInvariant, PTL DEF Spec
=============================================================================
