--------------------------- MODULE OperationProofs ---------------------------
(***************************************************************************)
(* The operation lifecycle for any number of operations, names, endpoints  *)
(* and callers, with writes that fail at any point and crashes anywhere.   *)
(*                                                                         *)
(* A call past its guard works on a record that is active in memory, and   *)
(* no other call works on it, because an id belongs to one device name and *)
(* the guard is the name's.  So whatever a call writes replaces an active  *)
(* record by one of the same device: nothing becomes active that was not,  *)
(* except in insert(), which looks at every name of the endpoint.          *)
(***************************************************************************)
EXTENDS Operations, TLAPS

Steps == {"idle", "guard", "begin", "claim", "risk", "lock", "check",
          "touch", "stage", "after", "staged", "note", "release", "drop",
          "validating", "validate", "committing", "commit", "reverting",
          "rollback", "reverted", "unlock", "reread", "settle"}
Working == Steps \ {"idle", "guard", "begin"}
StagingSteps == {"claim", "risk", "lock", "check", "touch", "stage", "after", "staged", "note",
                 "release", "drop"}
BeforeStaged == {"claim", "risk", "lock", "check", "touch", "stage", "after"}

\* The states of an operation whose commit the device may still carry out.
InFlight == {"Committing", "Indeterminate"}

\* A map of records: each belongs to the device its id was drawn for, and no
\* two active ones share an endpoint.
StoreOK(m, mint) ==
    /\ m \in [OpIds -> OperationRecord]
    /\ \A o \in OpIds : Exists(m[o]) => m[o].device = mint[o] /\ mint[o] \in Devices
    /\ \A o, p \in OpIds :
          o # p /\ Active(m[o]) /\ Active(m[p]) => EndpointOf[m[o].device] # EndpointOf[m[p].device]

\* A call that has got past "begin".
WorkOK(c) == LET k == calls[c] IN
    /\ k.op \in OpIds /\ Active(ops[k.op]) /\ Exists(k.rec) /\ k.rec.device = k.device
    /\ k.step \in StagingSteps => ops[k.op].state = "Staging"
    /\ k.step \in BeforeStaged => k.rec.state = "Staging"
    /\ k.step = "validating" => k.rec.state = "Validating"
    /\ k.step \in {"committing", "commit"} => k.rec.state = "Committing"
    /\ k.step \in {"reverting", "rollback", "reverted"} => k.rec.state = "Indeterminate"
    /\ k.step = "commit" => ops[k.op].state = "Committing" /\ file[k.op].state = "Committing"
    /\ k.step = "rollback" => ops[k.op].state = "Indeterminate"
    /\ k.op \in sent => k.step = "settle" /\ k.rec.state \in InFlight

CallOK(c) == LET k == calls[c] IN
    /\ k.step # "idle" => k.kind \in Kinds /\ k.device \in Devices
    /\ k.step = "idle" => k.op = NoOne
    /\ k.step # "idle" /\ k.kind \in {"validate", "commit", "discard"} => k.op \in OpIds
    /\ k.op # NoOne => minted[k.op] = k.device
    /\ k.step \notin {"idle", "guard"} => guard[k.device] = c
    /\ k.step \in Working => WorkOK(c)

SentOK ==
    \A o \in sent : file[o].state \in InFlight /\ (up => ops[o].state \in InFlight)

DownOK ==
    ~up => (\A c \in Callers : calls[c].step = "idle") /\ (\A o \in OpIds : ~Exists(ops[o]))

OpInv ==
    /\ TypeOK
    /\ StoreOK(ops, minted) /\ StoreOK(file, minted)
    /\ \A c \in Callers : CallOK(c)
    /\ SentOK /\ DownOK

LEMMA Constants ==
    /\ EndpointOf \in [Devices -> Endpoints]
    /\ NoOne \notin OpIds /\ NoOne \notin Devices /\ NoOne \notin Callers
    /\ "Base" \notin OpIds /\ "Drift" \notin OpIds
    /\ Entry \subseteq {"stage", "apply"}
    /\ MaxOperations \in Nat /\ MaxFaults \in Nat
    /\ RequiresLock \in BOOLEAN /\ Retain \in BOOLEAN
BY ConstantsAssumption DEF ConstantsAssumption

LEMMA NoRecordOK == NoRecord \in OperationRecord /\ ~Exists(NoRecord) /\ ~Active(NoRecord)
                    /\ NoRecord.state = "Absent"
<1>1. NoRecord \in OperationRecord
    BY DEF NoRecord, OperationRecord, Content
<1>. QED
    BY <1>1 DEF NoRecord, Exists, Active

LEMMA IdleCallOK == IdleCall \in Call /\ IdleCall.step = "idle" /\ IdleCall.op = NoOne /\ IdleCall.kind = "idle"
<1>1. IdleCall \in Call
    BY NoRecordOK DEF IdleCall, Call, Content
<1>. QED
    BY <1>1 DEF IdleCall

LEMMA OpInitial == Init => OpInv
<1> SUFFICES ASSUME Init PROVE OpInv
    OBVIOUS
<1>1. TypeOK
    BY NoRecordOK, IdleCallOK, Constants DEF Init, TypeOK, Content
<1>2. StoreOK(ops, minted) /\ StoreOK(file, minted)
    BY NoRecordOK DEF Init, StoreOK
<1>3. \A c \in Callers : CallOK(c)
    BY IdleCallOK DEF Init, CallOK, Working
<1>4. SentOK /\ DownOK
    BY DEF Init, SentOK, DownOK
<1>. QED
    BY <1>1, <1>2, <1>3, <1>4 DEF OpInv
----------------------------------------------------------------------------
(* Maps of records *)

LEMMA ActiveExists == ASSUME NEW r PROVE Active(r) => Exists(r)
BY DEF Active

\* update(): an active record is replaced by one of the same device.
LEMMA UpdateStore ==
    ASSUME NEW m, NEW mint, StoreOK(m, mint), NEW o \in OpIds, Active(m[o]),
           NEW r \in OperationRecord, Exists(r), r.device = m[o].device
    PROVE  StoreOK([m EXCEPT ![o] = r], mint)
<1> DEFINE n == [m EXCEPT ![o] = r]
<1>1. /\ n \in [OpIds -> OperationRecord] /\ n[o] = r
      /\ \A p \in OpIds : p # o => n[p] = m[p]
    BY DEF StoreOK
<1>2. \A p \in OpIds : n[p].device = m[p].device /\ (Active(n[p]) => Active(m[p]))
    BY <1>1
<1>3. \A p \in OpIds : Exists(n[p]) => Exists(m[p])
    BY <1>1, ActiveExists
<1> HIDE DEF n
<1>4. StoreOK(n, mint)
    BY <1>1, <1>2, <1>3 DEF StoreOK
<1>. QED
    BY <1>4 DEF n

\* remove(), and the eviction of terminal records: records go.
LEMMA SmallerStore ==
    ASSUME NEW m, NEW mint, StoreOK(m, mint), NEW n \in [OpIds -> OperationRecord],
           \A o \in OpIds : n[o] = m[o] \/ n[o] = NoRecord
    PROVE  StoreOK(n, mint)
<1>1. \A o \in OpIds : Exists(n[o]) => n[o] = m[o]
    BY NoRecordOK
<1>2. \A o \in OpIds : Active(n[o]) => n[o] = m[o]
    BY NoRecordOK
<1>. QED
    BY <1>1, <1>2 DEF StoreOK

LEMMA EvictedOK ==
    ASSUME StoreOK(ops, minted)
    PROVE  /\ Evicted \in [OpIds -> OperationRecord] /\ StoreOK(Evicted, minted)
           /\ \A o \in OpIds :
                 Evicted[o] = ops[o] \/ (terminal(ops[o].state) /\ Evicted[o] = NoRecord)
<1>1. ops \in [OpIds -> OperationRecord]
    BY DEF StoreOK
<1>2. Evicted \in [OpIds -> OperationRecord]
    BY <1>1, NoRecordOK DEF Evicted
<1>3. \A o \in OpIds : Evicted[o] = ops[o] \/ (terminal(ops[o].state) /\ Evicted[o] = NoRecord)
    BY <1>1 DEF Evicted
<1>. QED
    BY <1>2, <1>3, SmallerStore

\* The devices ids were drawn for are not drawn again.
LEMMA MintMore ==
    ASSUME NEW m, NEW mint, NEW more, StoreOK(m, mint),
           \A o \in OpIds : mint[o] # NoOne => more[o] = mint[o]
    PROVE  StoreOK(m, more)
<1>1. \A o \in OpIds : Exists(m[o]) => more[o] = mint[o]
    BY Constants DEF StoreOK
<1>. QED
    BY <1>1 DEF StoreOK

\* insert(): no name of the endpoint has an active record.
LEMMA InsertStore ==
    ASSUME NEW m, NEW mint, StoreOK(m, mint), NEW o \in OpIds, NEW r \in OperationRecord,
           r.device \in Devices, r.device = mint[o], Admits(m, r.device)
    PROVE  StoreOK([m EXCEPT ![o] = r], mint)
<1> DEFINE n == [m EXCEPT ![o] = r]
<1>1. /\ n \in [OpIds -> OperationRecord] /\ n[o] = r
      /\ \A p \in OpIds : p # o => n[p] = m[p]
    BY DEF StoreOK
<1>2. \A p \in OpIds : p # o /\ Active(n[p]) => EndpointOf[n[p].device] # EndpointOf[r.device]
    BY <1>1 DEF Admits, SameDevice
<1> HIDE DEF n
<1>3. \A p \in OpIds : Exists(n[p]) => n[p].device = mint[p] /\ mint[p] \in Devices
    BY <1>1 DEF StoreOK
<1>4. \A p, q \in OpIds :
          p # q /\ Active(n[p]) /\ Active(n[q]) => EndpointOf[n[p].device] # EndpointOf[n[q].device]
    BY <1>1, <1>2 DEF StoreOK
<1>5. StoreOK(n, mint)
    BY <1>1, <1>3, <1>4 DEF StoreOK
<1>. QED
    BY <1>5 DEF n
----------------------------------------------------------------------------
(* Moves of one call *)

\* Only c moves: the other calls and the guards they hold stay.
OnlyMoves(c) ==
    /\ \A k \in Callers : k # c => calls'[k] = calls[k]
    /\ \A d \in Devices : guard[d] \in Callers /\ guard[d] # c => guard'[d] = guard[d]

\* What is not c's own: the record of o stays for every call that works on it.
Keeps(o) ==
    /\ \/ ops'[o] = ops[o] /\ file'[o] \in {file[o], ops[o]}
       \/ ~Active(ops[o])
    /\ o \in sent' => o \in sent

Owns(c, o) ==
    \/ minted[o] = NoOne
    \/ minted[o] = calls[c].device /\ guard[calls[c].device] = c

LEMMA GoOK ==
    ASSUME TypeOK, NEW c \in Callers, NEW s \in Steps, Go(c, s)
    PROVE  /\ calls' \in [Callers -> Call]
           /\ calls'[c].step = s /\ calls'[c].kind = calls[c].kind /\ calls'[c].op = calls[c].op
           /\ calls'[c].device = calls[c].device /\ calls'[c].rec = calls[c].rec
           /\ calls'[c].want = calls[c].want /\ calls'[c].locked = calls[c].locked
           /\ \A k \in Callers : k # c => calls'[k] = calls[k]
<1>1. calls \in [Callers -> Call] /\ calls[c] \in Call
    BY DEF TypeOK
<1>2. [calls[c] EXCEPT !.step = s] \in Call
    BY <1>1, Zenon DEF Call, Steps
<1>3. calls' = [calls EXCEPT ![c] = [calls[c] EXCEPT !.step = s]]
    BY DEF Go
<1>4. calls' \in [Callers -> Call] /\ calls'[c] = [calls[c] EXCEPT !.step = s]
    BY <1>1, <1>2, <1>3
<1>. QED
    BY <1>1, <1>3, <1>4 DEF Call

LEMMA GoWithOK ==
    ASSUME TypeOK, NEW c \in Callers, NEW s \in Steps, NEW r \in OperationRecord, GoWith(c, s, r)
    PROVE  /\ calls' \in [Callers -> Call]
           /\ calls'[c].step = s /\ calls'[c].kind = calls[c].kind /\ calls'[c].op = calls[c].op
           /\ calls'[c].device = calls[c].device /\ calls'[c].rec = r
           /\ calls'[c].want = calls[c].want /\ calls'[c].locked = calls[c].locked
           /\ \A k \in Callers : k # c => calls'[k] = calls[k]
<1>1. calls \in [Callers -> Call] /\ calls[c] \in Call
    BY DEF TypeOK
<1>2. [calls[c] EXCEPT !.step = s, !.rec = r] \in Call
    BY <1>1, Zenon DEF Call, Steps
<1>3. calls' = [calls EXCEPT ![c] = [calls[c] EXCEPT !.step = s, !.rec = r]]
    BY <1>1 DEF GoWith
<1>4. calls' \in [Callers -> Call] /\ calls'[c] = [calls[c] EXCEPT !.step = s, !.rec = r]
    BY <1>1, <1>2, <1>3
<1>. QED
    BY <1>1, <1>3, <1>4 DEF Call

LEMMA ReturnOK ==
    ASSUME TypeOK, NEW c \in Callers, Return(c)
    PROVE  /\ calls' \in [Callers -> Call] /\ calls'[c] = IdleCall
           /\ guard' \in [Devices -> Callers \cup {NoOne}]
           /\ OnlyMoves(c)
BY IdleCallOK DEF Return, TypeOK, OnlyMoves

LEMMA IdleOK == ASSUME NEW c \in Callers, calls'[c] = IdleCall PROVE CallOK(c)'
BY IdleCallOK DEF CallOK, Working

\* No two calls work on one operation.
LEMMA OtherCall ==
    ASSUME OpInv, NEW c \in Callers, NEW k \in Callers, k # c, OnlyMoves(c),
           \A o \in OpIds : minted[o] # NoOne => minted'[o] = minted[o],
           \A o \in OpIds : Owns(c, o) \/ Keeps(o)
    PROVE  CallOK(k)'
<1> USE DEF OpInv
<1>1. calls \in [Callers -> Call] /\ calls[k] \in Call /\ calls'[k] = calls[k]
    BY DEF TypeOK, OnlyMoves
<1>2. CallOK(k)
    OBVIOUS
<1>3. ASSUME calls[k].step \in Working PROVE WorkOK(k)'
    <2>1. WorkOK(k) /\ calls[k].step # "idle" /\ calls[k].step \notin {"idle", "guard"}
        BY <1>2, <1>3 DEF CallOK, Working
    <2> DEFINE o == calls[k].op
    <2>2. o \in OpIds /\ Active(ops[o]) /\ o # NoOne
        BY <2>1, Constants DEF WorkOK
    <2>3. minted[o] = calls[k].device /\ calls[k].device \in Devices /\ guard[calls[k].device] = k
        BY <1>2, <2>1, <2>2 DEF CallOK
    <2>4. ~Owns(c, o)
        BY <2>3, Constants DEF Owns
    <2>5. ops'[o] = ops[o] /\ file'[o] \in {file[o], ops[o]} /\ (o \in sent' => o \in sent)
        BY <2>2, <2>4 DEF Keeps
    <2>. QED
        BY <1>1, <2>1, <2>5 DEF WorkOK
<1>4. calls[k].op # NoOne => minted'[calls[k].op] = calls[k].device
    <2>1. ASSUME calls[k].op # NoOne PROVE calls[k].op \in OpIds /\ minted[calls[k].op] = calls[k].device
        BY <1>1, <1>2, <2>1 DEF CallOK, Call
    <2>2. ASSUME calls[k].op # NoOne PROVE calls[k].device # NoOne
        <3>1. calls[k].step # "idle" \/ calls[k].op = NoOne
            BY <1>2 DEF CallOK
        <3>. QED
            BY <1>2, <2>2, <3>1, Constants DEF CallOK
    <2>. QED
        BY <2>1, <2>2
<1>5. calls[k].step \notin {"idle", "guard"} => guard'[calls[k].device] = k
    BY <1>2 DEF CallOK, OnlyMoves
<1>. QED
    BY <1>1, <1>2, <1>3, <1>4, <1>5 DEF CallOK

LEMMA CallStep ==
    ASSUME OpInv, NEW c \in Callers, up, up', TypeOK', OnlyMoves(c),
           \A o \in OpIds : minted[o] # NoOne => minted'[o] = minted[o],
           \A o \in OpIds : Owns(c, o) \/ Keeps(o),
           StoreOK(ops', minted'), StoreOK(file', minted'),
           SentOK', CallOK(c)'
    PROVE  OpInv'
<1>1. \A k \in Callers : CallOK(k)'
    BY OtherCall
<1>2. StoreOK(ops, minted)' /\ StoreOK(file, minted)'
    BY DEF StoreOK
<1>3. DownOK'
    BY DEF DownOK
<1>. QED
    BY <1>1, <1>2, <1>3 DEF OpInv

LEMMA LocalStep ==
    ASSUME OpInv, NEW c \in Callers, up, TypeOK', OnlyMoves(c),
           UNCHANGED <<ops, file, up, minted, sent>>, CallOK(c)'
    PROVE  OpInv'
<1>1. \A o \in OpIds : Keeps(o)
    BY DEF Keeps
<1>2. StoreOK(ops', minted') /\ StoreOK(file', minted') /\ SentOK'
    BY DEF OpInv, SentOK
<1>. QED
    BY <1>1, <1>2, CallStep

\* What is known of a call that has got past "begin".
LEMMA WorkFacts ==
    ASSUME OpInv, NEW c \in Callers, calls[c].step \in Working
    PROVE  /\ CallOK(c) /\ WorkOK(c)
           /\ calls[c] \in Call /\ calls[c].kind \in Kinds /\ calls[c].op \in OpIds
           /\ calls[c].device \in Devices /\ End(c) \in Endpoints
           /\ minted[calls[c].op] = calls[c].device /\ guard[calls[c].device] = c
           /\ ops[calls[c].op].device = calls[c].device /\ Active(ops[calls[c].op])
           /\ calls[c].rec \in OperationRecord /\ calls[c].rec.device = calls[c].device
           /\ Exists(calls[c].rec) /\ Exists(ops[calls[c].op])
<1>1. calls[c] \in Call /\ CallOK(c)
    BY DEF OpInv, TypeOK
<1>2. WorkOK(c) /\ calls[c].step # "idle" /\ calls[c].step \notin {"idle", "guard"}
    BY <1>1 DEF CallOK, Working
<1>3. calls[c].op \in OpIds /\ Active(ops[calls[c].op]) /\ Exists(ops[calls[c].op])
      /\ Exists(calls[c].rec) /\ calls[c].rec.device = calls[c].device
    BY <1>2, ActiveExists DEF WorkOK
<1>4. calls[c].kind \in Kinds /\ calls[c].device \in Devices /\ guard[calls[c].device] = c
      /\ minted[calls[c].op] = calls[c].device
    BY <1>1, <1>2, <1>3, Constants DEF CallOK
<1>5. End(c) \in Endpoints
    BY <1>4, Constants DEF End
<1>6. ops[calls[c].op].device = calls[c].device
    BY <1>3, <1>4 DEF OpInv, StoreOK
<1>7. calls[c].rec \in OperationRecord
    BY <1>1 DEF Call
<1>. QED
    BY <1>1, <1>2, <1>3, <1>4, <1>5, <1>6, <1>7

\* A working call goes on to another working step.
LEMMA WorksOn ==
    ASSUME OpInv, NEW c \in Callers, calls[c].step \in Working, calls'[c].step \in Working,
           calls'[c].kind = calls[c].kind, calls'[c].op = calls[c].op,
           calls'[c].device = calls[c].device, UNCHANGED <<guard, minted>>, WorkOK(c)'
    PROVE  CallOK(c)'
<1>1. CallOK(c) /\ calls[c].step # "idle" /\ calls[c].step \notin {"idle", "guard"}
    BY WorkFacts DEF Working
<1>2. calls'[c].step # "idle" /\ calls'[c].step \notin {"idle", "guard"}
    BY DEF Working
<1>. QED
    BY <1>1, <1>2 DEF CallOK

LEMMA GoMoves ==
    ASSUME NEW c \in Callers, UNCHANGED guard, \A k \in Callers : k # c => calls'[k] = calls[k]
    PROVE  OnlyMoves(c)
BY DEF OnlyMoves

LEMMA PersistOK ==
    ASSUME TypeOK, NEW next, NEW outcome \in Outcomes, persist_locked(next, outcome)
    PROVE  faults' \in 0..MaxFaults /\ file' \in {file, next}
<1>1. faults \in 0..MaxFaults /\ MaxFaults \in Nat
    BY Constants DEF TypeOK
<1>2. faults' \in 0..MaxFaults
    BY <1>1 DEF persist_locked
<1>. QED
    BY <1>2 DEF persist_locked

\* A working call writes its record.
LEMMA WriteStep ==
    ASSUME OpInv, NEW c \in Callers, calls[c].step \in Working, NEW r \in OperationRecord,
           Exists(r), r.device = calls[c].device,
           calls[c].op \in sent => r.state \in InFlight,
           NEW outcome \in Outcomes, update(calls[c].op, r, outcome), up,
           UNCHANGED <<up, minted, sent>>
    PROVE  /\ ops' \in [OpIds -> OperationRecord] /\ file' \in [OpIds -> OperationRecord]
           /\ faults' \in 0..MaxFaults
           /\ StoreOK(ops', minted') /\ StoreOK(file', minted') /\ SentOK'
           /\ \A o \in OpIds : Owns(c, o) \/ Keeps(o)
           /\ outcome = "ok" => ops'[calls[c].op] = r /\ file'[calls[c].op] = r
           /\ outcome # "ok" => ops' = ops
<1> DEFINE op == calls[c].op
           next == [ops EXCEPT ![op] = r]
<1>1. op \in OpIds /\ minted[op] = calls[c].device /\ guard[calls[c].device] = c
      /\ Active(ops[op]) /\ ops[op].device = calls[c].device
    BY WorkFacts
<1>2. TypeOK /\ StoreOK(ops, minted) /\ StoreOK(file, minted) /\ SentOK
    BY DEF OpInv
<1>3. persist_locked(next, outcome) /\ ops' = (IF outcome = "ok" THEN next ELSE ops)
    BY DEF update
<1>4. StoreOK(next, minted)
    BY <1>1, <1>2, UpdateStore
<1>5. faults' \in 0..MaxFaults /\ file' \in {file, next}
    BY <1>2, <1>3, PersistOK
<1>6. next[op] = r /\ \A o \in OpIds : o # op => next[o] = ops[o]
    BY <1>1, <1>2 DEF TypeOK
<1>7. outcome = "ok" => file' = next
    BY <1>3 DEF persist_locked
<1> HIDE DEF next
<1>8. ops' \in {ops, next} /\ (outcome # "ok" => ops' = ops) /\ (outcome = "ok" => ops' = next)
    BY <1>3
<1>9. StoreOK(ops', minted') /\ StoreOK(file', minted')
    BY <1>2, <1>4, <1>5, <1>8
<1>10. SentOK'
    <2> SUFFICES ASSUME NEW o \in sent PROVE file'[o].state \in InFlight /\ ops'[o].state \in InFlight
        BY DEF SentOK
    <2>1. o \in OpIds /\ file[o].state \in InFlight /\ ops[o].state \in InFlight
        BY <1>2 DEF SentOK, TypeOK
    <2>2. next[o].state \in InFlight
        BY <1>6, <2>1
    <2>. QED
        BY <2>1, <2>2, <1>5, <1>8
<1>11. \A o \in OpIds : Owns(c, o) \/ Keeps(o)
    BY <1>1, <1>5, <1>6, <1>8 DEF Owns, Keeps
<1>12. ops' \in [OpIds -> OperationRecord] /\ file' \in [OpIds -> OperationRecord]
    BY <1>9 DEF StoreOK
<1>. QED
    BY <1>5, <1>6, <1>7, <1>8, <1>9, <1>10, <1>11, <1>12
----------------------------------------------------------------------------
(* A call begins *)

LEMMA BeginOK ==
    ASSUME OpInv, NEW c \in Callers, NEW kind \in Kinds, NEW o \in OpIds \cup {NoOne},
           NEW d \in Devices, NEW want \in Content, NEW seen \in OperationRecord,
           o # NoOne => minted[o] = d, kind \in {"validate", "commit", "discard"} => o \in OpIds,
           Begin(c, kind, o, d, want, seen)
    PROVE  OpInv'
<1> DEFINE k == [kind |-> kind, step |-> "guard", op |-> o, device |-> d, want |-> want,
                 locked |-> FALSE, rec |-> seen]
<1>1. k \in Call
    BY DEF Call
<1>2. calls \in [Callers -> Call] /\ calls' = [calls EXCEPT ![c] = k]
    BY DEF Begin, OpInv, TypeOK
<1>3. calls' \in [Callers -> Call] /\ calls'[c] = k /\ \A j \in Callers : j # c => calls'[j] = calls[j]
    BY <1>1, <1>2
<1>4. k.kind = kind /\ k.step = "guard" /\ k.op = o /\ k.device = d
    OBVIOUS
<1> HIDE DEF k
<1>5. CallOK(c)'
    BY <1>3, <1>4 DEF CallOK, Working, Begin
<1>6. up /\ UNCHANGED <<ops, file, up, guard, handles, device, faults, minted, intents>>
    BY DEF Begin
<1>7. TypeOK'
    BY <1>3, <1>6 DEF OpInv, TypeOK, device
<1>8. OnlyMoves(c)
    BY <1>3, <1>6, GoMoves
<1>. QED
    BY <1>5, <1>6, <1>7, <1>8, LocalStep DEF device

\* The record a later call names.
LEMMA NamedRecord ==
    ASSUME OpInv, NEW o \in OpIds, Exists(ops[o])
    PROVE  ops[o].device \in Devices /\ minted[o] = ops[o].device /\ ops[o] \in OperationRecord
BY DEF OpInv, StoreOK

LEMMA RequestOK == ASSUME OpInv, NEW c \in Callers, Request(c) PROVE OpInv'
<1> USE DEF Kinds
<1>1. \A d \in Devices : candidate[EndpointOf[d]] \in Content
    BY Constants DEF OpInv, TypeOK
<1>2. CASE stage_operation(c)
    <2>1. PICK d \in Devices : Begin(c, "stage", NoOne, d, candidate[EndpointOf[d]], NoRecord)
        BY <1>2, Zenon DEF stage_operation
    <2>. QED
        BY <1>1, <2>1, BeginOK, NoRecordOK
<1>3. CASE apply_change_set(c)
    <2>1. PICK d \in Devices : Begin(c, "apply", NoOne, d, candidate[EndpointOf[d]], NoRecord)
        BY <1>3, Zenon DEF apply_change_set
    <2>. QED
        BY <1>1, <2>1, BeginOK, NoRecordOK
<1>4. CASE validate_operation(c)
    <2>1. PICK o \in handles : /\ ops[o].state = "Staged"
                               /\ Begin(c, "validate", o, ops[o].device, "Base", ops[o])
        BY <1>4, Zenon DEF validate_operation
    <2>2. o \in OpIds /\ Exists(ops[o])
        BY <2>1 DEF Exists, OpInv, TypeOK
    <2>. QED
        BY <2>1, <2>2, BeginOK, NamedRecord DEF Content
<1>5. CASE commit_operation(c)
    <2>1. PICK o \in handles : /\ Exists(ops[o])
                               /\ Begin(c, "commit", o, ops[o].device, "Base", ops[o])
        BY <1>5, Zenon DEF commit_operation
    <2>2. o \in OpIds /\ Exists(ops[o])
        BY <2>1 DEF OpInv, TypeOK
    <2>. QED
        BY <2>1, <2>2, BeginOK, NamedRecord DEF Content
<1>6. CASE discard_operation(c)
    <2>1. PICK o \in OpIds : /\ Exists(ops[o])
                             /\ Begin(c, "discard", o, ops[o].device, "Base", ops[o])
        BY <1>6, Zenon DEF discard_operation
    <2>. QED
        BY <2>1, BeginOK, NamedRecord DEF Content
<1>. QED
    BY <1>2, <1>3, <1>4, <1>5, <1>6 DEF Request

LEMMA TakeGuardOK == ASSUME OpInv, NEW c \in Callers, TakeGuard(c) PROVE OpInv'
<1>1. TypeOK /\ calls[c] \in Call /\ CallOK(c) /\ calls[c].step = "guard"
    BY DEF OpInv, TypeOK, TakeGuard, At
<1>2. calls[c].device \in Devices /\ guard[calls[c].device] = NoOne
    BY <1>1 DEF CallOK, TakeGuard
<1>3. Go(c, "begin") /\ "begin" \in Steps
    BY DEF TakeGuard, Steps
<1>4. guard' = [guard EXCEPT ![calls[c].device] = c] /\ guard' \in [Devices -> Callers \cup {NoOne}]
    BY <1>1, <1>2 DEF TakeGuard, TypeOK
<1>5. up /\ UNCHANGED <<ops, file, up, handles, device, faults, minted, intents>>
    BY DEF TakeGuard, store, At
<1>6. TypeOK'
    BY <1>1, <1>3, <1>4, <1>5, GoOK DEF TypeOK, device
<1>7. OnlyMoves(c)
    BY <1>1, <1>2, <1>3, <1>4, GoOK, Constants DEF OnlyMoves, TypeOK
<1>8. guard'[calls[c].device] = c
    BY <1>1, <1>2, <1>4 DEF TypeOK
<1>9. CallOK(c)'
    BY <1>1, <1>3, <1>5, <1>8, GoOK DEF CallOK, Working
<1>. QED
    BY <1>5, <1>6, <1>7, <1>9, LocalStep DEF device

\* A call returns without having written anything.
LEMMA ReturnsOK ==
    ASSUME OpInv, NEW c \in Callers, up, Return(c),
           UNCHANGED <<store, up, handles, device, faults, minted, intents>>
    PROVE  OpInv'
<1>1. TypeOK
    BY DEF OpInv
<1>2. TypeOK'
    BY <1>1, ReturnOK DEF TypeOK, device, store
<1>3. CallOK(c)'
    BY <1>1, ReturnOK, IdleOK
<1>. QED
    BY <1>1, <1>2, <1>3, ReturnOK, LocalStep DEF device, store

LEMMA CancelOK == ASSUME OpInv, NEW c \in Callers, Cancel(c) \/ Refuse(c) PROVE OpInv'
BY ReturnsOK DEF Cancel, Refuse, At
----------------------------------------------------------------------------
(* Staging *)

LEMMA BeginFacts ==
    ASSUME OpInv, NEW c \in Callers, calls[c].step = "begin"
    PROVE  /\ TypeOK /\ CallOK(c) /\ calls[c] \in Call /\ calls[c].kind \in Kinds
           /\ calls[c].device \in Devices /\ guard[calls[c].device] = c
           /\ calls[c].want \in Content /\ End(c) \in Endpoints
<1>1. TypeOK /\ CallOK(c) /\ calls[c] \in Call
    BY DEF OpInv, TypeOK
<1>2. calls[c].kind \in Kinds /\ calls[c].device \in Devices /\ guard[calls[c].device] = c
    BY <1>1 DEF CallOK
<1>. QED
    BY <1>1, <1>2, Constants DEF Call, End

LEMMA ReserveStep ==
    ASSUME OpInv, NEW c \in Callers, NEW o \in OpIds, NEW outcome \in Outcomes,
           At(c, "begin"), minted[o] = NoOne,
           minted' = [minted EXCEPT ![o] = calls[c].device],
           Admits(Evicted, calls[c].device),
           insert(o, StagingRecord(c), outcome), UNCHANGED sent
    PROVE  /\ ops' \in [OpIds -> OperationRecord] /\ file' \in [OpIds -> OperationRecord]
           /\ faults' \in 0..MaxFaults /\ minted' \in [OpIds -> Devices \cup {NoOne}]
           /\ StoreOK(ops', minted') /\ StoreOK(file', minted')
           /\ SentOK'
           /\ \A p \in OpIds : Owns(c, p) \/ Keeps(p)
           /\ \A p \in OpIds : minted[p] # NoOne => minted'[p] = minted[p]
           /\ minted'[o] = calls[c].device
           /\ outcome = "ok" => ops'[o] = StagingRecord(c) /\ file'[o] = StagingRecord(c)
<1> DEFINE r == StagingRecord(c)
           next == [Evicted EXCEPT ![o] = r]
<1>1. TypeOK /\ calls[c].device \in Devices /\ calls[c].want \in Content
    BY BeginFacts DEF At
<1>2. r \in OperationRecord /\ r.device = calls[c].device /\ r.state = "Staging"
    BY <1>1 DEF StagingRecord, OperationRecord, LifecycleState
<1>3. /\ minted \in [OpIds -> Devices \cup {NoOne}] /\ minted' \in [OpIds -> Devices \cup {NoOne}]
      /\ minted'[o] = calls[c].device /\ \A p \in OpIds : p # o => minted'[p] = minted[p]
      /\ \A p \in OpIds : minted[p] # NoOne => minted'[p] = minted[p]
    BY <1>1 DEF TypeOK
<1>4. StoreOK(ops, minted) /\ StoreOK(file, minted) /\ SentOK
    BY DEF OpInv
<1>5. StoreOK(Evicted, minted) /\ Evicted \in [OpIds -> OperationRecord]
      /\ \A p \in OpIds : Evicted[p] = ops[p] \/ (terminal(ops[p].state) /\ Evicted[p] = NoRecord)
    BY <1>4, EvictedOK
<1>6. StoreOK(Evicted, minted') /\ StoreOK(file, minted')
    <2>1. \A p \in OpIds : minted[p] # NoOne => minted'[p] = minted[p]
        BY <1>3
    <2>2. StoreOK(Evicted, minted')
        BY ONLY <1>5, <2>1, MintMore, Zenon
    <2>3. StoreOK(file, minted')
        BY ONLY <1>4, <2>1, MintMore, Zenon
    <2>. QED
        BY <2>2, <2>3
<1>7. StoreOK(next, minted')
    BY <1>1, <1>2, <1>3, <1>6, InsertStore
<1>8. next[o] = r /\ \A p \in OpIds : p # o => next[p] = Evicted[p]
    BY <1>5
<1>9. persist_locked(next, outcome) /\ ops' = (IF outcome = "ok" THEN next ELSE Evicted)
    BY DEF insert
<1>10. faults' \in 0..MaxFaults /\ file' \in {file, next} /\ (outcome = "ok" => file' = next)
    BY <1>1, <1>9, PersistOK DEF persist_locked
<1> HIDE DEF next, r
<1>11. StoreOK(ops', minted') /\ StoreOK(file', minted')
    BY <1>6, <1>7, <1>9, <1>10
<1>12. \A p \in sent : p \in OpIds /\ p # o /\ Evicted[p] = ops[p] /\ file[p].state \in InFlight
                       /\ (up => ops[p].state \in InFlight)
    <2> SUFFICES ASSUME NEW p \in sent
                 PROVE  /\ p \in OpIds /\ p # o /\ Evicted[p] = ops[p] /\ file[p].state \in InFlight
                        /\ (up => ops[p].state \in InFlight)
        OBVIOUS
    <2>1. p \in OpIds /\ file[p].state \in InFlight /\ ops[p].state \in InFlight
        BY <1>1, <1>4 DEF SentOK, TypeOK, At
    <2>2. Exists(file[p]) /\ ~terminal(ops[p].state)
        BY <2>1 DEF InFlight, Exists, terminal
    <2>3. p # o
        BY <1>4, <2>1, <2>2, Constants DEF StoreOK
    <2>. QED
        BY <1>5, <2>1, <2>2, <2>3
<1>13. SentOK'
    <2> SUFFICES ASSUME NEW p \in sent, up PROVE file'[p].state \in InFlight /\ ops'[p].state \in InFlight
        BY DEF SentOK, At
    <2>1. p \in OpIds /\ next[p] = ops[p] /\ Evicted[p] = ops[p] /\ ops[p].state \in InFlight
          /\ file[p].state \in InFlight
        BY <1>8, <1>12
    <2>. QED
        BY <2>1, <1>9, <1>10
<1>14. \A p \in OpIds : Owns(c, p) \/ Keeps(p)
    <2> SUFFICES ASSUME NEW p \in OpIds, p # o PROVE Keeps(p)
        BY DEF Owns
    <2>1. CASE Evicted[p] = ops[p]
        BY <2>1, <1>8, <1>9, <1>10 DEF Keeps
    <2>2. CASE terminal(ops[p].state)
        BY <2>2 DEF Keeps, Active
    <2>. QED
        BY <1>5, <2>1, <2>2
<1>15. ops' \in [OpIds -> OperationRecord] /\ file' \in [OpIds -> OperationRecord]
    BY <1>11 DEF StoreOK
<1>. QED
    BY <1>3, <1>8, <1>9, <1>10, <1>11, <1>13, <1>14, <1>15 DEF r

LEMMA ReserveOK == ASSUME OpInv, NEW c \in Callers, Reserve(c) PROVE OpInv'
<1>1. PICK o \in OpIds, outcome \in Outcomes :
        /\ At(c, "begin") /\ IsStaging(c)
        /\ minted[o] = NoOne
        /\ minted' = [minted EXCEPT ![o] = calls[c].device]
        /\ Admits(Evicted, calls[c].device)
        /\ insert(o, StagingRecord(c), outcome)
        /\ IF outcome = "ok"
           THEN /\ calls' = [calls EXCEPT ![c].op = o, ![c].rec = StagingRecord(c),
                                ![c].step = CASE calls[c].kind = "apply" -> "claim"
                                              [] RequiresLock -> "risk"
                                              [] OTHER -> "check"]
                /\ UNCHANGED guard
           ELSE Return(c)
        /\ UNCHANGED <<up, handles, device, intents>>
    BY Zenon DEF Reserve
<1>2. UNCHANGED <<up, handles, candidate, running, lock, sent, committed, intents>>
    BY <1>1 DEF device
<1>3. TypeOK /\ CallOK(c) /\ calls[c] \in Call /\ calls[c].device \in Devices /\ calls[c].kind \in Kinds
      /\ calls[c].want \in Content /\ guard[calls[c].device] = c /\ up /\ calls[c].step = "begin"
    BY <1>1, BeginFacts DEF At
<1>4. /\ ops' \in [OpIds -> OperationRecord] /\ file' \in [OpIds -> OperationRecord]
      /\ faults' \in 0..MaxFaults /\ minted' \in [OpIds -> Devices \cup {NoOne}]
      /\ StoreOK(ops', minted') /\ StoreOK(file', minted')
      /\ SentOK'
      /\ \A p \in OpIds : Owns(c, p) \/ Keeps(p)
      /\ \A p \in OpIds : minted[p] # NoOne => minted'[p] = minted[p]
      /\ minted'[o] = calls[c].device
      /\ outcome = "ok" => ops'[o] = StagingRecord(c) /\ file'[o] = StagingRecord(c)
    BY <1>1, <1>2, ReserveStep
<1>5. ASSUME calls' \in [Callers -> Call], guard' \in [Devices -> Callers \cup {NoOne}],
             OnlyMoves(c), CallOK(c)'
      PROVE  OpInv'
    <2>1. TypeOK'
        BY <1>2, <1>3, <1>4, <1>5 DEF TypeOK
    <2>. QED
        BY <1>2, <1>3, <1>4, <1>5, <2>1, CallStep
<1>6. CASE outcome # "ok"
    BY <1>1, <1>3, <1>5, <1>6, ReturnOK, IdleOK
<1>7. CASE outcome = "ok"
    <2> DEFINE s == CASE calls[c].kind = "apply" -> "claim"
                      [] RequiresLock -> "risk"
                      [] OTHER -> "check"
               r == StagingRecord(c)
               k == [calls[c] EXCEPT !.op = o, !.rec = r, !.step = s]
    <2>1. s \in {"claim", "risk", "check"}
        BY Zenon
    <2>2. r \in OperationRecord /\ r.device = calls[c].device /\ r.state = "Staging"
        BY <1>3 DEF StagingRecord, OperationRecord, LifecycleState
    <2>3. calls' = [calls EXCEPT ![c] = k] /\ UNCHANGED guard
        <3>1. calls' = [calls EXCEPT ![c].op = o, ![c].rec = r, ![c].step = s] /\ UNCHANGED guard
            BY <1>1, <1>7, Zenon
        <3> HIDE DEF s, r
        <3>2. calls \in [Callers -> Call]
            BY <1>3 DEF TypeOK
        <3>. QED
            BY <3>1, <3>2
    <2> HIDE DEF s, r
    <2>4. k \in Call
        BY <1>3, <2>1, <2>2, Zenon DEF Call
    <2>5. k.op = o /\ k.rec = r /\ k.step = s /\ k.kind = calls[c].kind /\ k.device = calls[c].device
        BY <1>3 DEF Call
    <2> HIDE DEF k
    <2>6. calls' \in [Callers -> Call] /\ calls'[c] = k /\ \A j \in Callers : j # c => calls'[j] = calls[j]
        BY <1>3, <2>3, <2>4 DEF TypeOK
    <2>7. ops'[o] = r /\ o \notin sent'
        <3>1. ops'[o] = r
            BY <1>4, <1>7 DEF r
        <3>2. r.state \notin InFlight
            BY <2>2 DEF InFlight
        <3>. QED
            BY <3>1, <3>2, <1>2, <1>3, <1>4 DEF SentOK
    <2>8. WorkOK(c)'
        <3>1. Exists(r) /\ Active(r)
            BY <2>2 DEF Exists, Active, terminal
        <3>. QED
            BY <2>1, <2>2, <2>5, <2>6, <2>7, <3>1 DEF WorkOK
    <2>9. CallOK(c)'
        BY <1>3, <1>4, <2>1, <2>3, <2>5, <2>6, <2>8 DEF CallOK
    <2>10. OnlyMoves(c)
        BY <2>3, <2>6, GoMoves
    <2>11. guard' \in [Devices -> Callers \cup {NoOne}]
        BY <1>3, <2>3 DEF TypeOK
    <2>. QED
        BY <1>5, <2>6, <2>9, <2>10, <2>11
<1>. QED
    BY <1>6, <1>7

LEMMA ReserveRefusedOK == ASSUME OpInv, NEW c \in Callers, ReserveRefused(c) PROVE OpInv'
<1>1. TypeOK /\ StoreOK(ops, minted) /\ StoreOK(file, minted) /\ SentOK
    BY DEF OpInv
<1>2. /\ Return(c) /\ up /\ ops' = Evicted
      /\ UNCHANGED <<file, up, handles, device, faults, minted, intents>>
    BY DEF ReserveRefused, At
<1>3. StoreOK(Evicted, minted) /\ Evicted \in [OpIds -> OperationRecord]
      /\ \A p \in OpIds : Evicted[p] = ops[p] \/ (terminal(ops[p].state) /\ Evicted[p] = NoRecord)
    BY <1>1, EvictedOK
<1>4. \A p \in OpIds : Keeps(p)
    <2> SUFFICES ASSUME NEW p \in OpIds PROVE Keeps(p)
        OBVIOUS
    <2>. QED
        BY <1>2, <1>3 DEF Keeps, Active, device
<1>5. SentOK'
    <2> SUFFICES ASSUME NEW p \in sent PROVE file[p].state \in InFlight /\ Evicted[p].state \in InFlight
        BY <1>2 DEF SentOK, device
    <2>1. p \in OpIds /\ file[p].state \in InFlight /\ ops[p].state \in InFlight
        BY <1>1, <1>2 DEF SentOK, TypeOK
    <2>. QED
        BY <1>3, <2>1 DEF InFlight, terminal
<1>6. TypeOK'
    BY <1>1, <1>2, <1>3, ReturnOK DEF TypeOK, device
<1>7. CallOK(c)' /\ OnlyMoves(c)
    BY <1>1, <1>2, ReturnOK, IdleOK
<1>8. StoreOK(ops', minted') /\ StoreOK(file', minted')
    BY <1>1, <1>2, <1>3
<1>. QED
    BY <1>2, <1>4, <1>5, <1>6, <1>7, <1>8, CallStep

\* c goes to step s with record r.
Moves(c, s, r) ==
    /\ calls' \in [Callers -> Call]
    /\ calls'[c].step = s /\ calls'[c].kind = calls[c].kind /\ calls'[c].op = calls[c].op
    /\ calls'[c].device = calls[c].device /\ calls'[c].want = calls[c].want /\ calls'[c].rec = r
    /\ \A k \in Callers : k # c => calls'[k] = calls[k]

DeviceOK ==
    /\ candidate \in [Endpoints -> Content]
    /\ running \in [Endpoints -> Content]
    /\ lock \in [Endpoints -> OpIds \cup {NoOne}]
    /\ committed \subseteq OpIds

LEMMA GoMovesTo ==
    ASSUME TypeOK, NEW c \in Callers, NEW s \in Steps, Go(c, s)
    PROVE  Moves(c, s, calls[c].rec)
BY GoOK DEF Moves

LEMMA GoWithMovesTo ==
    ASSUME TypeOK, NEW c \in Callers, NEW s \in Steps, NEW r \in OperationRecord, GoWith(c, s, r)
    PROVE  Moves(c, s, r)
BY GoWithOK DEF Moves

\* The steps an RPC or a check leads to.
LEMMA LocalWork ==
    ASSUME OpInv, NEW c \in Callers, calls[c].step \in Working, calls[c].step # "settle", up,
           NEW s \in Working, NEW r \in OperationRecord, Moves(c, s, r),
           Exists(r), r.device = calls[c].device,
           UNCHANGED <<ops, file, up, guard, handles, sent, faults, minted, intents>>, DeviceOK',
           s \in StagingSteps => calls[c].step \in StagingSteps,
           s \in BeforeStaged => r.state = "Staging",
           s \notin {"validating", "committing", "commit", "reverting", "rollback"},
           s = "reverted" => r.state = "Indeterminate"
    PROVE  OpInv'
<1>1. TypeOK /\ WorkOK(c) /\ calls[c].op \notin sent
    BY WorkFacts DEF OpInv, WorkOK
<1>2. WorkOK(c)'
    BY <1>1 DEF WorkOK, Moves
<1>3. CallOK(c)'
    BY <1>2, WorksOn DEF Moves
<1>4. OnlyMoves(c)
    BY GoMoves DEF Moves
<1>5. TypeOK'
    BY <1>1 DEF TypeOK, Moves, DeviceOK
<1>. QED
    BY <1>3, <1>4, <1>5, LocalStep

LEMMA StateEdit ==
    ASSUME NEW r \in OperationRecord, NEW s \in LifecycleState
    PROVE  /\ [r EXCEPT !.state = s] \in OperationRecord
           /\ [r EXCEPT !.state = s].state = s /\ [r EXCEPT !.state = s].device = r.device
           /\ [r EXCEPT !.state = s].current = r.current
           /\ [r EXCEPT !.state = s].config_lock_held = r.config_lock_held
           /\ Exists([r EXCEPT !.state = s])
<1>1. [r EXCEPT !.state = s] \in OperationRecord
    BY Zenon DEF OperationRecord
<1>2. /\ [r EXCEPT !.state = s].state = s /\ [r EXCEPT !.state = s].device = r.device
      /\ [r EXCEPT !.state = s].current = r.current
      /\ [r EXCEPT !.state = s].config_lock_held = r.config_lock_held
    BY DEF OperationRecord
<1>. QED
    BY <1>1, <1>2 DEF Exists, LifecycleState

LEMMA LockRiskOK ==
    ASSUME NEW r \in OperationRecord
    PROVE  /\ LockRisk(r) \in OperationRecord /\ LockRisk(r).state = r.state
           /\ LockRisk(r).device = r.device /\ LockRisk(r).current = r.current
           /\ LockRisk(r).config_lock_held = TRUE
           /\ Exists(r) => Exists(LockRisk(r))
<1>1. LockRisk(r) \in OperationRecord
    BY Zenon DEF OperationRecord, LockRisk
<1>. QED
    BY <1>1 DEF OperationRecord, LockRisk, Exists

LEMMA UnlockedOK ==
    ASSUME DeviceOK, NEW e \in Endpoints, NEW o
    PROVE  Unlocked(e, o) \in [Endpoints -> OpIds \cup {NoOne}]
BY DEF Unlocked, DeviceOK

LEMMA DeviceTyped == ASSUME OpInv PROVE DeviceOK
BY DEF OpInv, TypeOK, DeviceOK

LEMMA ClaimOK == ASSUME OpInv, NEW c \in Callers, Claim(c) PROVE OpInv'
<1>1. calls[c].step = "claim" /\ up /\ calls[c].step \in Working
      /\ UNCHANGED <<ops, up, guard, handles, candidate, running, lock, sent, committed, faults, minted, intents>>
    BY DEF Claim, At, Working, Steps, device
<1>2. WorkOK(c) /\ TypeOK /\ calls[c].op \notin sent /\ StoreOK(ops, minted) /\ StoreOK(file, minted) /\ SentOK
    BY <1>1, WorkFacts DEF WorkOK, OpInv
<1>3. PICK s \in {"risk", "drop"} : Go(c, s)
    BY DEF Claim
<1>4. Moves(c, s, calls[c].rec)
    BY <1>2, <1>3, GoMovesTo DEF Steps
<1>5. file' \in {file, ops}
    BY DEF Claim
<1>6. WorkOK(c)'
    BY <1>1, <1>2, <1>4 DEF WorkOK, Moves, StagingSteps, BeforeStaged
<1>7. CallOK(c)'
    BY <1>1, <1>3, <1>4, <1>6, WorksOn DEF Moves, Working, Steps
<1>8. OnlyMoves(c) /\ \A o \in OpIds : Keeps(o)
    BY <1>1, <1>4, <1>5, GoMoves DEF Moves, Keeps
<1>9. TypeOK'
    BY <1>1, <1>2, <1>4, <1>5 DEF TypeOK, Moves
<1>10. SentOK'
    BY <1>1, <1>2, <1>5 DEF SentOK
<1>11. StoreOK(ops', minted') /\ StoreOK(file', minted')
    BY <1>1, <1>2, <1>5
<1>. QED
    BY <1>1, <1>7, <1>8, <1>9, <1>10, <1>11, CallStep

LEMMA TakeDeviceLockOK == ASSUME OpInv, NEW c \in Callers, TakeDeviceLock(c) PROVE OpInv'
<1>1. calls[c].step = "lock" /\ up /\ calls[c].step \in Working
      /\ UNCHANGED <<ops, file, up, guard, handles, candidate, running, sent, committed, faults, minted, intents>>
    BY DEF TakeDeviceLock, At, Working, Steps, store
<1>2. /\ TypeOK /\ DeviceOK /\ End(c) \in Endpoints /\ calls[c].op \in OpIds /\ calls[c] \in Call
      /\ calls[c].rec \in OperationRecord /\ Exists(calls[c].rec) /\ calls[c].rec.state = "Staging"
      /\ calls[c].rec.device = calls[c].device
    BY <1>1, WorkFacts, DeviceTyped DEF OpInv, WorkOK, BeforeStaged
<1>3. \E s \in {"check", "drop"} : Moves(c, s, calls[c].rec) /\ DeviceOK'
    <2>1. CASE Go(c, "drop") /\ UNCHANGED lock
        BY <1>1, <1>2, <2>1, GoMovesTo DEF DeviceOK, Steps
    <2>2. CASE /\ lock' = [lock EXCEPT ![End(c)] = calls[c].op]
               /\ calls' = [calls EXCEPT ![c].step = "check", ![c].locked = TRUE]
        <3> DEFINE k == [calls[c] EXCEPT !.step = "check", !.locked = TRUE]
        <3>1. k \in Call
            BY <1>2, Zenon DEF Call
        <3>2. k.step = "check" /\ k.kind = calls[c].kind /\ k.op = calls[c].op
              /\ k.device = calls[c].device /\ k.want = calls[c].want /\ k.rec = calls[c].rec
            BY <1>2 DEF Call
        <3>3. calls' = [calls EXCEPT ![c] = k]
            BY <1>2, <2>2 DEF TypeOK
        <3> HIDE DEF k
        <3>4. Moves(c, "check", calls[c].rec)
            BY <1>2, <3>1, <3>2, <3>3 DEF Moves, TypeOK
        <3>5. DeviceOK'
            BY <1>1, <1>2, <2>2 DEF DeviceOK
        <3>. QED
            BY <3>4, <3>5
    <2>. QED
        BY <2>1, <2>2 DEF TakeDeviceLock
<1>4. PICK s \in {"check", "drop"} : Moves(c, s, calls[c].rec) /\ DeviceOK'
    BY <1>3
<1>. QED
    BY <1>1, <1>2, <1>4, LocalWork DEF Working, Steps, StagingSteps, BeforeStaged

LEMMA CheckFingerprintOK == ASSUME OpInv, NEW c \in Callers, CheckFingerprint(c) PROVE OpInv'
<1>1. calls[c].step = "check" /\ up /\ calls[c].step \in Working
      /\ UNCHANGED <<ops, file, up, guard, handles, candidate, running, lock, sent, committed, faults, minted, intents>>
    BY DEF CheckFingerprint, At, Working, Steps, store, device
<1>2. /\ TypeOK /\ DeviceOK
      /\ calls[c].rec \in OperationRecord /\ Exists(calls[c].rec) /\ calls[c].rec.state = "Staging"
      /\ calls[c].rec.device = calls[c].device
    BY <1>1, WorkFacts, DeviceTyped DEF OpInv, WorkOK, BeforeStaged
<1>3. PICK s \in {"touch", "stage", "release", "drop"} : Go(c, s)
    BY DEF CheckFingerprint, Untouched
<1>4. Moves(c, s, calls[c].rec)
    BY <1>2, <1>3, GoMovesTo DEF Steps
<1>5. DeviceOK'
    BY <1>1, <1>2 DEF DeviceOK
<1>. QED
    BY <1>1, <1>2, <1>4, <1>5, LocalWork DEF Working, Steps, StagingSteps, BeforeStaged

LEMMA StageRpcOK == ASSUME OpInv, NEW c \in Callers, StageRpc(c) PROVE OpInv'
<1> DEFINE e == End(c)
<1>1. calls[c].step = "stage" /\ up /\ calls[c].step \in Working
      /\ UNCHANGED <<ops, file, up, guard, handles, running, sent, committed, faults, minted, intents>>
    BY DEF StageRpc, At, Working, Steps, store
<1>2. /\ TypeOK /\ DeviceOK /\ e \in Endpoints /\ calls[c].op \in OpIds
      /\ calls[c].rec \in OperationRecord /\ Exists(calls[c].rec) /\ calls[c].rec.state = "Staging"
      /\ calls[c].rec.device = calls[c].device
    BY <1>1, WorkFacts, DeviceTyped DEF OpInv, WorkOK, BeforeStaged
<1>3. candidate' \in {candidate, [candidate EXCEPT ![e] = calls[c].op]}
      /\ lock' \in {lock, [lock EXCEPT ![e] = calls[c].op]}
    BY DEF StageRpc
<1>4. DeviceOK'
    BY <1>1, <1>2, <1>3 DEF DeviceOK, Content
<1> DEFINE r == [calls[c].rec EXCEPT !.state = "Indeterminate"]
<1>5. r \in OperationRecord /\ r.device = calls[c].device /\ Exists(r)
    BY <1>2, StateEdit DEF LifecycleState
<1>6. \/ Moves(c, "after", calls[c].rec) \/ Moves(c, "drop", calls[c].rec) \/ Moves(c, "settle", r)
    <2>1. Go(c, "after") \/ GoWith(c, "settle", r) \/ Go(c, "drop")
        BY DEF StageRpc, AfterFailedStage
    <2>. QED
        BY <1>2, <1>5, <2>1, GoMovesTo, GoWithMovesTo DEF Steps
<1> HIDE DEF r
<1>. QED
    BY <1>1, <1>2, <1>4, <1>5, <1>6, LocalWork DEF Working, Steps, StagingSteps, BeforeStaged

LEMMA ReadAfterOK == ASSUME OpInv, NEW c \in Callers, ReadAfter(c) PROVE OpInv'
<1>1. calls[c].step = "after" /\ up /\ calls[c].step \in Working
      /\ UNCHANGED <<ops, file, up, guard, handles, candidate, running, lock, sent, committed, faults, minted, intents>>
    BY DEF ReadAfter, At, Working, Steps, store, device
<1>2. /\ TypeOK /\ DeviceOK /\ End(c) \in Endpoints
      /\ calls[c].rec \in OperationRecord /\ calls[c].rec.device = calls[c].device
    BY <1>1, WorkFacts, DeviceTyped DEF OpInv
<1> DEFINE r == [calls[c].rec EXCEPT !.state = "Indeterminate"]
           q == [calls[c].rec EXCEPT !.state = "Staged", !.current = candidate[End(c)]]
<1>3. r \in OperationRecord /\ r.device = calls[c].device /\ Exists(r)
    BY <1>2, StateEdit DEF LifecycleState
<1>4. q \in OperationRecord
    <2>1. candidate[End(c)] \in Content /\ "Staged" \in LifecycleState \cup {"Absent"}
        BY <1>2 DEF DeviceOK, LifecycleState
    <2>. QED
        BY <1>2, <2>1, Zenon DEF OperationRecord
<1>5. q.device = calls[c].device /\ Exists(q)
    BY <1>2 DEF OperationRecord, Exists
<1>6. Moves(c, "staged", q) \/ Moves(c, "settle", r)
    BY <1>2, <1>3, <1>4, GoWithMovesTo DEF ReadAfter, Steps
<1>7. DeviceOK'
    BY <1>1, <1>2 DEF DeviceOK
<1> HIDE DEF r, q
<1>. QED
    BY <1>1, <1>2, <1>3, <1>4, <1>5, <1>6, <1>7, LocalWork DEF Working, Steps, StagingSteps, BeforeStaged

LEMMA ReleaseRpcOK == ASSUME OpInv, NEW c \in Callers, ReleaseRpc(c) PROVE OpInv'
<1>1. calls[c].step = "release" /\ up /\ calls[c].step \in Working
      /\ UNCHANGED <<ops, file, up, guard, handles, candidate, running, sent, committed, faults, minted, intents>>
    BY DEF ReleaseRpc, At, Working, Steps, store
<1>2. /\ TypeOK /\ DeviceOK /\ End(c) \in Endpoints /\ Exists(calls[c].rec)
      /\ calls[c].rec \in OperationRecord /\ calls[c].rec.device = calls[c].device
    BY <1>1, WorkFacts, DeviceTyped DEF OpInv
<1> DEFINE r == [calls[c].rec EXCEPT !.state = "Indeterminate"]
<1>3. r \in OperationRecord /\ r.device = calls[c].device /\ Exists(r)
    BY <1>2, StateEdit DEF LifecycleState
<1>4. Moves(c, "drop", calls[c].rec) \/ Moves(c, "settle", r)
    BY <1>2, <1>3, GoMovesTo, GoWithMovesTo DEF ReleaseRpc, Steps
<1>5. lock' \in {lock, Unlocked(End(c), calls[c].op)}
    BY DEF ReleaseRpc, UnlockReply
<1>6. DeviceOK'
    BY <1>1, <1>2, <1>5, UnlockedOK DEF DeviceOK
<1> HIDE DEF r
<1>. QED
    BY <1>1, <1>2, <1>3, <1>4, <1>6, LocalWork DEF Working, Steps, StagingSteps, BeforeStaged
----------------------------------------------------------------------------
(* Writes of the record *)

LEMMA WriteReturn ==
    ASSUME OpInv, NEW c \in Callers, calls[c].step \in Working, NEW r \in OperationRecord,
           Exists(r), r.device = calls[c].device,
           calls[c].op \in sent => r.state \in InFlight,
           NEW outcome \in Outcomes, update(calls[c].op, r, outcome), up, Return(c),
           handles' \subseteq OpIds, UNCHANGED <<up, device, minted, intents>>
    PROVE  OpInv'
<1>1. TypeOK /\ UNCHANGED <<up, minted, sent>>
    BY DEF OpInv, device
<1>2. /\ ops' \in [OpIds -> OperationRecord] /\ file' \in [OpIds -> OperationRecord]
      /\ faults' \in 0..MaxFaults
      /\ StoreOK(ops', minted') /\ StoreOK(file', minted') /\ SentOK'
      /\ \A o \in OpIds : Owns(c, o) \/ Keeps(o)
    BY <1>1, WriteStep
<1>3. TypeOK'
    BY <1>1, <1>2, ReturnOK DEF TypeOK, device
<1>4. CallOK(c)' /\ OnlyMoves(c)
    BY <1>1, ReturnOK, IdleOK
<1>. QED
    BY <1>1, <1>2, <1>3, <1>4, CallStep

LEMMA WriteGo ==
    ASSUME OpInv, NEW c \in Callers, calls[c].step \in Working, NEW r \in OperationRecord,
           Exists(r), r.device = calls[c].device, calls[c].op \notin sent,
           NEW outcome \in Outcomes, update(calls[c].op, r, outcome), up,
           NEW s \in Working, NEW q \in OperationRecord, Moves(c, s, q),
           outcome = "ok" => Active(r), Exists(q), q.device = calls[c].device,
           s \in StagingSteps => calls[c].step \in StagingSteps /\ (outcome = "ok" => r.state = "Staging"),
           s \in BeforeStaged => q.state = "Staging",
           s \notin {"validating", "committing", "reverting"},
           s = "commit" => outcome = "ok" /\ q = r /\ r.state = "Committing",
           s = "rollback" => outcome = "ok" /\ q = r /\ r.state = "Indeterminate",
           s # "reverted", UNCHANGED <<up, guard, handles, device, minted, intents>>
    PROVE  OpInv'
<1>1. TypeOK /\ WorkOK(c) /\ UNCHANGED <<up, minted, sent>>
    BY WorkFacts DEF OpInv, device
<1>2. /\ ops' \in [OpIds -> OperationRecord] /\ file' \in [OpIds -> OperationRecord]
      /\ faults' \in 0..MaxFaults
      /\ StoreOK(ops', minted') /\ StoreOK(file', minted') /\ SentOK'
      /\ \A o \in OpIds : Owns(c, o) \/ Keeps(o)
      /\ outcome = "ok" => ops'[calls[c].op] = r /\ file'[calls[c].op] = r
      /\ outcome # "ok" => ops' = ops
    BY <1>1, WriteStep
<1>3. WorkOK(c)'
    <2>1. calls'[c].step = s /\ calls'[c].op = calls[c].op /\ calls'[c].rec = q
          /\ calls'[c].device = calls[c].device
        BY DEF Moves
    <2>2. Active(ops'[calls[c].op])
        BY <1>1, <1>2 DEF WorkOK
    <2>3. s \in StagingSteps => ops'[calls[c].op].state = "Staging"
        BY <1>1, <1>2 DEF WorkOK
    <2>. QED
        BY <1>1, <1>2, <2>1, <2>2, <2>3 DEF WorkOK
<1>4. CallOK(c)'
    BY <1>3, WorksOn DEF Moves
<1>5. OnlyMoves(c)
    BY GoMoves DEF Moves
<1>6. TypeOK'
    BY <1>1, <1>2 DEF TypeOK, Moves, device
<1>. QED
    BY <1>1, <1>2, <1>4, <1>5, <1>6, CallStep

LEMMA RecordRiskOK == ASSUME OpInv, NEW c \in Callers, RecordRisk(c) \/ RecordTouch(c) PROVE OpInv'
<1> DEFINE r == LockRisk(calls[c].rec)
<1>1. calls[c].step \in {"risk", "touch"} /\ up /\ calls[c].step \in Working
      /\ UNCHANGED <<up, guard, handles, device, minted, intents>>
    BY DEF RecordRisk, RecordTouch, At, Working, Steps
<1>2. /\ TypeOK /\ calls[c].op \in OpIds /\ calls[c].op \notin sent
      /\ calls[c].rec \in OperationRecord /\ Exists(calls[c].rec) /\ calls[c].rec.state = "Staging"
      /\ calls[c].rec.device = calls[c].device
    BY <1>1, WorkFacts DEF OpInv, WorkOK, BeforeStaged
<1>3. r \in OperationRecord /\ r.device = calls[c].device /\ Exists(r) /\ r.state = "Staging"
    BY <1>2, LockRiskOK
<1>4. Active(r)
    BY <1>3 DEF Active, terminal
<1>5. PICK outcome \in Outcomes : /\ update(calls[c].op, r, outcome)
                                  /\ \E s \in {"lock", "check", "drop", "stage", "release"} : GoWith(c, s, r)
    <2>1. CASE RecordRisk(c)
        BY <2>1 DEF RecordRisk
    <2>2. CASE RecordTouch(c)
        BY <2>2 DEF RecordTouch, Untouched
    <2>. QED
        BY <2>1, <2>2
<1>6. PICK s \in {"lock", "check", "drop", "stage", "release"} : GoWith(c, s, r)
    BY <1>5
<1> HIDE DEF r
<1>7. Moves(c, s, r)
    BY <1>2, <1>3, <1>6, GoWithMovesTo DEF Steps
<1>. QED
    BY <1>1, <1>2, <1>3, <1>4, <1>5, <1>7, WriteGo DEF Working, Steps, StagingSteps, BeforeStaged

LEMMA RecordStagedOK == ASSUME OpInv, NEW c \in Callers, RecordStaged(c) PROVE OpInv'
<1> DEFINE r == calls[c].rec
           q == [calls[c].rec EXCEPT !.state = "Indeterminate"]
<1>1. calls[c].step = "staged" /\ up /\ calls[c].step \in Working
      /\ UNCHANGED <<up, device, minted, intents>>
    BY DEF RecordStaged, At, Working, Steps
<1>2. /\ TypeOK /\ calls[c].op \in OpIds /\ calls[c].op \notin sent
      /\ r \in OperationRecord /\ Exists(r) /\ r.device = calls[c].device
    BY <1>1, WorkFacts DEF OpInv, WorkOK
<1>3. q \in OperationRecord /\ q.device = calls[c].device /\ Exists(q)
    BY <1>2, StateEdit DEF LifecycleState
<1>4. PICK outcome \in Outcomes :
        /\ update(calls[c].op, r, outcome)
        /\ IF outcome = "ok"
           THEN handles' = handles \cup {calls[c].op} /\ Return(c)
           ELSE /\ GoWith(c, IF calls[c].kind = "stage" THEN "settle" ELSE "note", q)
                /\ UNCHANGED <<handles, guard>>
    BY DEF RecordStaged
<1> HIDE DEF r, q
<1>5. CASE outcome = "ok"
    <2>1. handles' \subseteq OpIds /\ Return(c)
        BY <1>2, <1>4, <1>5 DEF TypeOK
    <2>. QED
        BY <1>1, <1>2, <1>4, <2>1, WriteReturn
<1>6. CASE outcome # "ok"
    <2>1. PICK s \in {"settle", "note"} : GoWith(c, s, q)
        BY <1>4, <1>6
    <2>2. Moves(c, s, q) /\ UNCHANGED <<handles, guard>>
        BY <1>2, <1>3, <1>4, <1>6, <2>1, GoWithMovesTo DEF Steps
    <2>. QED
        BY <1>1, <1>2, <1>3, <1>4, <1>6, <2>2, WriteGo DEF Working, Steps, StagingSteps, BeforeStaged
<1>. QED
    BY <1>5, <1>6

LEMMA NoteOK == ASSUME OpInv, NEW c \in Callers, NoteAndReturnHandle(c) \/ Settle(c) PROVE OpInv'
<1>1. calls[c].step \in {"note", "settle"} /\ up /\ calls[c].step \in Working
      /\ UNCHANGED <<up, device, minted, intents>> /\ Return(c)
    BY DEF NoteAndReturnHandle, Settle, At, Working, Steps
<1>2. /\ TypeOK /\ calls[c].op \in OpIds
      /\ (calls[c].op \in sent => calls[c].rec.state \in InFlight)
      /\ calls[c].rec \in OperationRecord /\ Exists(calls[c].rec) /\ calls[c].rec.device = calls[c].device
    BY <1>1, WorkFacts DEF OpInv, WorkOK
<1>3. handles' \subseteq OpIds
    BY <1>2 DEF NoteAndReturnHandle, Settle, TypeOK
<1>4. PICK outcome \in Outcomes : update(calls[c].op, calls[c].rec, outcome)
    BY DEF NoteAndReturnHandle, Settle
<1>. QED
    BY <1>1, <1>2, <1>3, <1>4, WriteReturn

LEMMA DropOK == ASSUME OpInv, NEW c \in Callers, Drop(c) PROVE OpInv'
<1> DEFINE op == calls[c].op
           next == [ops EXCEPT ![op] = NoRecord]
<1>1. calls[c].step = "drop" /\ up /\ calls[c].step \in Working
      /\ UNCHANGED <<up, handles, device, minted, intents>> /\ Return(c)
    BY DEF Drop, At, Working, Steps
<1>2. /\ TypeOK /\ op \in OpIds /\ op \notin sent
      /\ minted[op] = calls[c].device /\ guard[calls[c].device] = c
      /\ StoreOK(ops, minted) /\ StoreOK(file, minted) /\ SentOK
    BY <1>1, WorkFacts DEF OpInv, WorkOK
<1>3. PICK outcome \in Outcomes : persist_locked(next, outcome) /\ ops' = next
    BY DEF Drop, remove
<1>4. next \in [OpIds -> OperationRecord] /\ next[op] = NoRecord
      /\ \A o \in OpIds : o # op => next[o] = ops[o]
    BY <1>2, NoRecordOK DEF TypeOK
<1> HIDE DEF next
<1>5. StoreOK(next, minted)
    BY <1>2, <1>4, SmallerStore
<1>6. faults' \in 0..MaxFaults /\ file' \in {file, next}
    BY <1>2, <1>3, PersistOK
<1>7. StoreOK(ops', minted') /\ StoreOK(file', minted')
    BY <1>1, <1>2, <1>3, <1>5, <1>6
<1>8. SentOK'
    <2> SUFFICES ASSUME NEW o \in sent PROVE file'[o].state \in InFlight /\ ops'[o].state \in InFlight
        BY <1>1 DEF SentOK, device
    <2>1. o \in OpIds /\ file[o].state \in InFlight /\ next[o].state \in InFlight
        BY <1>1, <1>2, <1>4 DEF SentOK, TypeOK
    <2>. QED
        BY <2>1, <1>3, <1>6
<1>9. \A o \in OpIds : Owns(c, o) \/ Keeps(o)
    BY <1>1, <1>2, <1>3, <1>4, <1>6 DEF Owns, Keeps, device
<1>10. CallOK(c)' /\ OnlyMoves(c)
    BY <1>1, <1>2, ReturnOK, IdleOK
<1>11. TypeOK'
    BY <1>1, <1>2, <1>3, <1>4, <1>6, ReturnOK DEF TypeOK, device
<1>. QED
    BY <1>1, <1>7, <1>8, <1>9, <1>10, <1>11, CallStep

LEMMA StageStepOK == ASSUME OpInv, NEW c \in Callers, StageStep(c) PROVE OpInv'
BY ReserveOK, ReserveRefusedOK, ClaimOK, RecordRiskOK, TakeDeviceLockOK, CheckFingerprintOK,
   StageRpcOK, ReadAfterOK, RecordStagedOK, NoteOK, ReleaseRpcOK, DropOK DEF StageStep
----------------------------------------------------------------------------
(* Validate, commit, discard *)

LEMMA StartOK ==
    ASSUME OpInv, NEW c \in Callers, calls[c].step = "begin", up,
           calls[c].kind \in {"validate", "commit", "discard"},
           Exists(ops[calls[c].op]), ops[calls[c].op].state \notin Undiscardable,
           NEW s \in {"validating", "committing", "reverting"}, NEW st \in LifecycleState,
           s = "validating" => st = "Validating", s = "committing" => st = "Committing",
           s = "reverting" => st = "Indeterminate",
           GoWith(c, s, [ops[calls[c].op] EXCEPT !.state = st]),
           intents' \subseteq OpIds,
           UNCHANGED <<store, up, guard, handles, device, faults, minted>>
    PROVE  OpInv'
<1> DEFINE op == calls[c].op
           r == [ops[op] EXCEPT !.state = st]
<1>1. /\ TypeOK /\ CallOK(c) /\ calls[c] \in Call /\ calls[c].kind \in Kinds
      /\ calls[c].device \in Devices /\ guard[calls[c].device] = c
    BY BeginFacts
<1>2. op \in OpIds /\ minted[op] = calls[c].device
    BY <1>1, Constants DEF CallOK
<1>3. ops[op] \in OperationRecord /\ ops[op].device = calls[c].device
    BY <1>1, <1>2 DEF TypeOK, OpInv, StoreOK
<1>4. r \in OperationRecord /\ r.state = st /\ r.device = calls[c].device /\ Exists(r)
    BY <1>3, StateEdit
<1>5. Active(ops[op]) /\ op \notin sent
    BY <1>2 DEF Active, terminal, Undiscardable, OpInv, SentOK, InFlight
<1> HIDE DEF r
<1>6. Moves(c, s, r)
    BY <1>1, <1>4, GoWithMovesTo DEF Steps, r
<1>7. WorkOK(c)'
    BY <1>2, <1>4, <1>5, <1>6 DEF WorkOK, Moves, StagingSteps, BeforeStaged, store, device
<1>8. CallOK(c)'
    BY <1>1, <1>2, <1>6, <1>7 DEF CallOK, Moves, store
<1>9. OnlyMoves(c)
    BY <1>6, GoMoves DEF Moves
<1>10. TypeOK'
    BY <1>1, <1>6 DEF TypeOK, Moves, store, device
<1>. QED
    BY <1>8, <1>9, <1>10, LocalStep DEF store, device

LEMMA StartsOK ==
    ASSUME OpInv, NEW c \in Callers, StartValidate(c) \/ StartCommit(c) \/ StartDiscard(c)
    PROVE  OpInv'
<1> DEFINE o == ops[calls[c].op]
<1>1. CASE StartValidate(c)
    <2>1. /\ calls[c].step = "begin" /\ up /\ calls[c].kind = "validate" /\ o.state = "Staged"
          /\ Exists(o) /\ GoWith(c, "validating", [o EXCEPT !.state = "Validating"])
          /\ UNCHANGED <<store, up, guard, handles, device, faults, minted, intents>>
        BY <1>1 DEF StartValidate, Reread, At, Unchanged
    <2>2. intents' \subseteq OpIds
        BY <2>1 DEF OpInv, TypeOK
    <2>. QED
        BY <2>1, <2>2, StartOK DEF Undiscardable, LifecycleState
<1>2. CASE StartCommit(c)
    <2>1. /\ calls[c].step = "begin" /\ up /\ calls[c].kind = "commit" /\ o.state = "Validated"
          /\ Exists(o) /\ GoWith(c, "committing", [o EXCEPT !.state = "Committing"])
          /\ UNCHANGED <<store, up, guard, handles, device, faults, minted>>
        BY <1>2 DEF StartCommit, Reread, At, Unchanged
    <2>2. calls[c].op \in OpIds
        BY <2>1, BeginFacts DEF CallOK
    <2>3. intents' \subseteq OpIds
        BY <1>2, <2>2 DEF OpInv, TypeOK, StartCommit, RecordIntent
    <2>. QED
        BY <2>1, <2>3, StartOK DEF Undiscardable, LifecycleState
<1>3. CASE StartDiscard(c)
    <2>1. /\ calls[c].step = "begin" /\ up /\ calls[c].kind = "discard" /\ o.state \notin Undiscardable
          /\ Exists(o) /\ GoWith(c, "reverting", [o EXCEPT !.state = "Indeterminate"])
          /\ UNCHANGED <<store, up, guard, handles, device, faults, minted, intents>>
        BY <1>3 DEF StartDiscard, Reread, At, Unchanged
    <2>2. intents' \subseteq OpIds
        BY <2>1 DEF OpInv, TypeOK
    <2>. QED
        BY <2>1, <2>2, StartOK DEF LifecycleState
<1>. QED
    BY <1>1, <1>2, <1>3

LEMMA RpcAfterOK ==
    /\ DOMAIN RpcAfter = {"validating", "committing", "reverting", "reverted"}
    /\ RpcAfter["validating"] = "validate" /\ RpcAfter["committing"] = "commit"
    /\ RpcAfter["reverting"] = "rollback" /\ RpcAfter["reverted"] = "unlock"
<1>1. DOMAIN RpcAfter = {"validating", "committing", "reverting", "reverted"}
    BY Zenon DEF RpcAfter
<1>2. /\ RpcAfter.validating = "validate" /\ RpcAfter.committing = "commit"
      /\ RpcAfter.reverting = "rollback" /\ RpcAfter.reverted = "unlock"
    BY DEF RpcAfter
<1>. QED
    BY <1>1, <1>2

LEMMA AnnounceOK == ASSUME OpInv, NEW c \in Callers, Announce(c) PROVE OpInv'
<1> DEFINE r == calls[c].rec
<1>1. /\ calls[c].step \in {"validating", "committing", "reverting", "reverted"} /\ up
      /\ calls[c].step \in Working /\ UNCHANGED <<up, handles, device, minted, intents>>
    BY RpcAfterOK DEF Announce, Working, Steps
<1>2. /\ TypeOK /\ calls[c].op \in OpIds /\ calls[c].op \notin sent
      /\ r \in OperationRecord /\ Exists(r) /\ r.device = calls[c].device
      /\ (calls[c].step = "committing" => r.state = "Committing")
      /\ (calls[c].step = "validating" => r.state = "Validating")
      /\ (calls[c].step \in {"reverting", "reverted"} => r.state = "Indeterminate")
    BY <1>1, WorkFacts DEF OpInv, WorkOK
<1>3. Active(r)
    BY <1>1, <1>2 DEF Active, terminal
<1>4. PICK outcome \in Outcomes :
        /\ update(calls[c].op, r, outcome)
        /\ IF outcome = "ok"
           THEN Go(c, RpcAfter[calls[c].step]) /\ UNCHANGED guard
           ELSE Return(c)
    BY DEF Announce
<1> HIDE DEF r
<1>5. CASE outcome # "ok"
    <2>1. handles' \subseteq OpIds /\ Return(c)
        BY <1>1, <1>2, <1>4, <1>5 DEF TypeOK
    <2>. QED
        BY <1>1, <1>2, <1>4, <2>1, WriteReturn
<1>6. CASE outcome = "ok"
    <2> DEFINE s == RpcAfter[calls[c].step]
    <2>1. /\ s \in {"validate", "commit", "rollback", "unlock"}
          /\ s = "commit" => calls[c].step = "committing"
          /\ s = "rollback" => calls[c].step = "reverting"
        BY <1>1, RpcAfterOK
    <2>2. Go(c, s) /\ UNCHANGED guard
        BY <1>4, <1>6
    <2> HIDE DEF s
    <2>3. Moves(c, s, r)
        BY <1>2, <2>1, <2>2, GoMovesTo DEF Steps, r
    <2>. QED
        BY <1>1, <1>2, <1>3, <1>4, <1>6, <2>1, <2>2, <2>3, WriteGo
        DEF Working, Steps, StagingSteps, BeforeStaged
<1>. QED
    BY <1>5, <1>6

LEMMA ValidateRpcOK == ASSUME OpInv, NEW c \in Callers, ValidateRpc(c) PROVE OpInv'
<1>1. calls[c].step = "validate" /\ up /\ calls[c].step \in Working
      /\ UNCHANGED <<ops, file, up, guard, handles, candidate, running, lock, sent, committed, faults, minted, intents>>
    BY DEF ValidateRpc, At, Working, Steps, store, device
<1>2. /\ TypeOK /\ DeviceOK
      /\ calls[c].rec \in OperationRecord /\ calls[c].rec.device = calls[c].device
    BY <1>1, WorkFacts, DeviceTyped DEF OpInv
<1>3. PICK v \in {"Validated", "Failed"} : GoWith(c, "settle", [calls[c].rec EXCEPT !.state = v])
    BY DEF ValidateRpc
<1> DEFINE r == [calls[c].rec EXCEPT !.state = v]
<1>4. r \in OperationRecord /\ r.device = calls[c].device /\ Exists(r)
    <2>1. v \in LifecycleState
        BY DEF LifecycleState
    <2>. QED
        BY <1>2, <2>1, StateEdit
<1> HIDE DEF r
<1>5. Moves(c, "settle", r)
    BY <1>2, <1>3, <1>4, GoWithMovesTo DEF Steps, r
<1>6. DeviceOK'
    BY <1>1, <1>2 DEF DeviceOK
<1>. QED
    BY <1>1, <1>2, <1>4, <1>5, <1>6, LocalWork DEF Working, Steps, StagingSteps, BeforeStaged

CommitOutcomes == {"succeeded", "awaiting", "detached", "unknown", "rejected", "unreached"}

LEMMA CommitRecordCases ==
    ASSUME NEW r, NEW outcome
    PROVE  /\ outcome = "succeeded" =>
                CommitRecord(r, outcome) = [r EXCEPT !.state = "Committed", !.config_lock_held = FALSE]
           /\ outcome = "awaiting" => CommitRecord(r, outcome) = [r EXCEPT !.config_lock_held = FALSE]
           /\ outcome = "detached" => CommitRecord(r, outcome) = r
           /\ outcome = "unknown" => CommitRecord(r, outcome) = [r EXCEPT !.state = "Indeterminate"]
           /\ outcome \in {"rejected", "unreached"} =>
                CommitRecord(r, outcome) = [r EXCEPT !.state = "Failed"]
<1>1. outcome = "succeeded" =>
        CommitRecord(r, outcome) = [r EXCEPT !.state = "Committed", !.config_lock_held = FALSE]
    BY Zenon DEF CommitRecord
<1>2. outcome = "awaiting" => CommitRecord(r, outcome) = [r EXCEPT !.config_lock_held = FALSE]
    BY Zenon DEF CommitRecord
<1>3. outcome = "detached" => CommitRecord(r, outcome) = r
    BY Zenon DEF CommitRecord
<1>4. outcome = "unknown" => CommitRecord(r, outcome) = [r EXCEPT !.state = "Indeterminate"]
    BY Zenon DEF CommitRecord
<1>5. outcome \in {"rejected", "unreached"} => CommitRecord(r, outcome) = [r EXCEPT !.state = "Failed"]
    BY Zenon DEF CommitRecord
<1>. QED
    BY <1>1, <1>2, <1>3, <1>4, <1>5

LEMMA CommitRecordOK ==
    ASSUME NEW r \in OperationRecord, Exists(r), r.state = "Committing", NEW outcome \in CommitOutcomes
    PROVE  /\ CommitRecord(r, outcome) \in OperationRecord /\ Exists(CommitRecord(r, outcome))
           /\ CommitRecord(r, outcome).device = r.device
           /\ outcome \in {"awaiting", "detached", "unknown"} => CommitRecord(r, outcome).state \in InFlight
<1> DEFINE a == [r EXCEPT !.state = "Committed", !.config_lock_held = FALSE]
           b == [r EXCEPT !.config_lock_held = FALSE]
           i == [r EXCEPT !.state = "Indeterminate"]
           f == [r EXCEPT !.state = "Failed"]
<1>1. "Committed" \in LifecycleState /\ "Indeterminate" \in LifecycleState /\ "Failed" \in LifecycleState
    BY DEF LifecycleState
<1>2. a \in OperationRecord /\ b \in OperationRecord
    BY <1>1, Zenon DEF OperationRecord
<1>3. a.state = "Committed" /\ a.device = r.device /\ b.state = r.state /\ b.device = r.device
    BY DEF OperationRecord
<1>4. i \in OperationRecord /\ i.state = "Indeterminate" /\ i.device = r.device
    BY <1>1, StateEdit
<1>5. f \in OperationRecord /\ f.state = "Failed" /\ f.device = r.device
    BY <1>1, StateEdit
<1>6. /\ outcome = "succeeded" => CommitRecord(r, outcome) = a
      /\ outcome = "awaiting" => CommitRecord(r, outcome) = b
      /\ outcome = "detached" => CommitRecord(r, outcome) = r
      /\ outcome = "unknown" => CommitRecord(r, outcome) = i
      /\ outcome \in {"rejected", "unreached"} => CommitRecord(r, outcome) = f
    BY CommitRecordCases
<1> HIDE DEF a, b, i, f
<1>. QED
    BY <1>2, <1>3, <1>4, <1>5, <1>6 DEF CommitOutcomes, InFlight, Exists

LEMMA CommitRpcOK == ASSUME OpInv, NEW c \in Callers, CommitRpc(c) PROVE OpInv'
<1> DEFINE o == calls[c].op
           r == calls[c].rec
<1>1. calls[c].step = "commit" /\ up /\ calls[c].step \in Working
      /\ UNCHANGED <<ops, file, up, guard, handles, candidate, faults, minted, intents>>
    BY DEF CommitRpc, At, Working, Steps, store
<1>2. /\ TypeOK /\ DeviceOK /\ End(c) \in Endpoints /\ o \in OpIds /\ o \notin sent
      /\ r \in OperationRecord /\ Exists(r) /\ r.device = calls[c].device /\ r.state = "Committing"
      /\ ops[o].state = "Committing" /\ file[o].state = "Committing" /\ Active(ops[o])
      /\ minted[o] = calls[c].device /\ guard[calls[c].device] = c
      /\ StoreOK(ops, minted) /\ StoreOK(file, minted) /\ SentOK
    BY <1>1, WorkFacts, DeviceTyped DEF OpInv, WorkOK
<1>3. PICK outcome \in CommitOutcomes :
        /\ GoWith(c, "settle", CommitRecord(r, outcome))
        /\ sent' = IF outcome \in {"awaiting", "detached", "unknown"} THEN sent \cup {o} ELSE sent
    <2>1. CASE \E outcome \in {"succeeded", "awaiting"} :
                /\ GoWith(c, "settle", CommitRecord(calls[c].rec, outcome))
                /\ sent' = IF outcome = "awaiting" THEN sent \cup {o} ELSE sent
        BY <2>1 DEF CommitOutcomes
    <2>2. CASE /\ \E outcome \in {"detached", "unknown"} :
                    GoWith(c, "settle", CommitRecord(calls[c].rec, outcome))
               /\ sent' = sent \cup {o}
        BY <2>2 DEF CommitOutcomes
    <2>3. CASE /\ \E outcome \in {"rejected", "unreached"} :
                    GoWith(c, "settle", CommitRecord(calls[c].rec, outcome))
               /\ UNCHANGED sent
        BY <2>3 DEF CommitOutcomes
    <2>. QED
        BY <2>1, <2>2, <2>3, Zenon DEF CommitRpc
<1> DEFINE q == CommitRecord(r, outcome)
<1>4. q \in OperationRecord /\ Exists(q) /\ q.device = calls[c].device
      /\ (o \in sent' => q.state \in InFlight)
    BY <1>2, <1>3, CommitRecordOK
<1> HIDE DEF q
<1>5. Moves(c, "settle", q)
    BY <1>2, <1>3, <1>4, GoWithMovesTo DEF Steps, q
<1>6. DeviceOK'
    <2>1. \/ TakesEffect(o, End(c)) \/ UNCHANGED <<running, lock, committed>>
        BY DEF CommitRpc
    <2>2. CASE TakesEffect(o, End(c))
        BY <1>1, <1>2, <2>2, UnlockedOK DEF DeviceOK, TakesEffect
    <2>3. CASE UNCHANGED <<running, lock, committed>>
        BY <1>1, <1>2, <2>3 DEF DeviceOK
    <2>. QED
        BY <2>1, <2>2, <2>3
<1>7. WorkOK(c)'
    BY <1>1, <1>2, <1>4, <1>5 DEF WorkOK, Moves, StagingSteps, BeforeStaged
<1>8. CallOK(c)'
    BY <1>1, <1>5, <1>7, WorksOn DEF Moves, Working, Steps
<1>9. OnlyMoves(c) /\ \A p \in OpIds : Owns(c, p) \/ Keeps(p)
    BY <1>1, <1>2, <1>3, <1>5, GoMoves DEF Moves, Owns, Keeps
<1>10. SentOK'
    BY <1>1, <1>2, <1>3 DEF SentOK, InFlight
<1>11. TypeOK'
    BY <1>1, <1>2, <1>3, <1>5, <1>6 DEF TypeOK, DeviceOK, Moves
<1>12. StoreOK(ops', minted') /\ StoreOK(file', minted')
    BY <1>1, <1>2
<1>. QED
    BY <1>1, <1>8, <1>9, <1>10, <1>11, <1>12, CallStep

LEMMA RollbackRpcOK == ASSUME OpInv, NEW c \in Callers, RollbackRpc(c) PROVE OpInv'
<1>1. calls[c].step = "rollback" /\ up /\ calls[c].step \in Working
      /\ UNCHANGED <<ops, file, up, guard, handles, running, lock, sent, committed, faults, minted, intents>>
    BY DEF RollbackRpc, At, Working, Steps, store
<1>2. /\ TypeOK /\ DeviceOK /\ End(c) \in Endpoints /\ Exists(calls[c].rec)
      /\ calls[c].rec.state = "Indeterminate"
      /\ calls[c].rec \in OperationRecord /\ calls[c].rec.device = calls[c].device
    BY <1>1, WorkFacts, DeviceTyped DEF OpInv, WorkOK
<1> DEFINE r == [calls[c].rec EXCEPT !.state = "Failed"]
<1>3. r \in OperationRecord /\ r.device = calls[c].device /\ Exists(r)
    BY <1>2, StateEdit DEF LifecycleState
<1>4. Moves(c, "reverted", calls[c].rec) \/ Moves(c, "settle", r) \/ Moves(c, "settle", calls[c].rec)
    BY <1>2, <1>3, GoMovesTo, GoWithMovesTo DEF RollbackRpc, Steps
<1>5. candidate' \in {candidate, Reverted(End(c))}
    BY DEF RollbackRpc
<1>6. DeviceOK'
    BY <1>1, <1>2, <1>5 DEF DeviceOK, Reverted
<1> HIDE DEF r
<1>. QED
    BY <1>1, <1>2, <1>3, <1>4, <1>6, LocalWork DEF Working, Steps, StagingSteps, BeforeStaged

LEMMA UnlockRecordOK ==
    ASSUME NEW r \in OperationRecord, Exists(r), NEW reply
    PROVE  /\ UnlockRecord(r, reply) \in OperationRecord /\ Exists(UnlockRecord(r, reply))
           /\ UnlockRecord(r, reply).device = r.device /\ UnlockRecord(r, reply).current = r.current
           /\ reply = "Released" => UnlockRecord(r, reply).state = "Discarded"
<1> DEFINE a == [r EXCEPT !.config_lock_held = FALSE, !.state = "Discarded"]
<1>1. a \in OperationRecord
    <2>1. "Discarded" \in LifecycleState
        BY DEF LifecycleState
    <2>. QED
        BY <2>1, Zenon DEF OperationRecord
<1>2. a.state = "Discarded" /\ a.device = r.device /\ a.current = r.current
    BY DEF OperationRecord
<1> HIDE DEF a
<1>3. UnlockRecord(r, reply) = IF reply = "Released" THEN a ELSE r
    BY DEF UnlockRecord, a
<1>. QED
    BY <1>1, <1>2, <1>3 DEF Exists

LEMMA UnlockRpcOK == ASSUME OpInv, NEW c \in Callers, UnlockRpc(c) PROVE OpInv'
<1>1. calls[c].step = "unlock" /\ up /\ calls[c].step \in Working
      /\ UNCHANGED <<ops, file, up, guard, handles, candidate, running, sent, committed, faults, minted, intents>>
    BY DEF UnlockRpc, At, Working, Steps, store
<1>2. /\ TypeOK /\ DeviceOK /\ End(c) \in Endpoints /\ Exists(calls[c].rec)
      /\ calls[c].rec \in OperationRecord /\ calls[c].rec.device = calls[c].device
    BY <1>1, WorkFacts, DeviceTyped DEF OpInv, WorkOK
<1>3. PICK reply \in UnlockReplies :
        /\ UnlockReply(End(c), calls[c].op, reply)
        /\ GoWith(c, IF reply = "Released" THEN "reread" ELSE "settle", UnlockRecord(calls[c].rec, reply))
    BY DEF UnlockRpc
<1> DEFINE q == UnlockRecord(calls[c].rec, reply)
<1>4. q \in OperationRecord /\ Exists(q) /\ q.device = calls[c].device
    BY <1>2, UnlockRecordOK
<1>5. lock' \in {lock, Unlocked(End(c), calls[c].op)}
    BY <1>3 DEF UnlockReply
<1>6. DeviceOK'
    BY <1>1, <1>2, <1>5, UnlockedOK DEF DeviceOK
<1> HIDE DEF q
<1>7. PICK s \in {"reread", "settle"} : GoWith(c, s, q)
    BY <1>3 DEF q
<1>8. Moves(c, s, q)
    BY <1>2, <1>4, <1>7, GoWithMovesTo DEF Steps
<1>. QED
    BY <1>1, <1>2, <1>4, <1>6, <1>8, LocalWork DEF Working, Steps, StagingSteps, BeforeStaged

LEMMA ReadRevertedOK == ASSUME OpInv, NEW c \in Callers, ReadReverted(c) PROVE OpInv'
<1>1. calls[c].step = "reread" /\ up /\ calls[c].step \in Working
      /\ UNCHANGED <<ops, file, up, guard, handles, candidate, running, lock, sent, committed, faults, minted, intents>>
    BY DEF ReadReverted, At, Working, Steps, store, device
<1>2. /\ TypeOK /\ DeviceOK /\ End(c) \in Endpoints /\ Exists(calls[c].rec)
      /\ calls[c].rec \in OperationRecord /\ calls[c].rec.device = calls[c].device
    BY <1>1, WorkFacts, DeviceTyped DEF OpInv
<1> DEFINE r == [calls[c].rec EXCEPT !.state = "Indeterminate"]
           q == [calls[c].rec EXCEPT !.current = candidate[End(c)]]
<1>3. r \in OperationRecord /\ r.device = calls[c].device /\ Exists(r)
    BY <1>2, StateEdit DEF LifecycleState
<1>4. q \in OperationRecord
    <2>1. candidate[End(c)] \in Content
        BY <1>2 DEF DeviceOK
    <2>. QED
        BY <1>2, <2>1, Zenon DEF OperationRecord
<1>5. q.device = calls[c].device /\ Exists(q)
    BY <1>2 DEF OperationRecord, Exists
<1>6. Moves(c, "settle", q) \/ Moves(c, "settle", r)
    BY <1>2, <1>3, <1>4, GoWithMovesTo DEF ReadReverted, Steps
<1>7. DeviceOK'
    BY <1>1, <1>2 DEF DeviceOK
<1> HIDE DEF r, q
<1>. QED
    BY <1>1, <1>2, <1>3, <1>4, <1>5, <1>6, <1>7, LocalWork DEF Working, Steps, StagingSteps, BeforeStaged

LEMMA LaterStepOK == ASSUME OpInv, NEW c \in Callers, LaterStep(c) PROVE OpInv'
BY StartsOK, AnnounceOK, ValidateRpcOK, CommitRpcOK, RollbackRpcOK, UnlockRpcOK, ReadRevertedOK, NoteOK
DEF LaterStep
----------------------------------------------------------------------------
(* Restart, offline resolution, the world outside *)

LEMMA OutsideStep ==
    ASSUME OpInv, UNCHANGED <<ops, up, guard, calls, handles, faults, minted, intents>>,
           file' \in {file, ops}, up \/ UNCHANGED file, sent' \subseteq sent, DeviceOK'
    PROVE  OpInv'
<1>1. TypeOK /\ StoreOK(ops, minted) /\ StoreOK(file, minted) /\ SentOK /\ DownOK
    BY DEF OpInv
<1>2. TypeOK'
    BY <1>1 DEF TypeOK, DeviceOK
<1>3. StoreOK(ops', minted') /\ StoreOK(file', minted')
    BY <1>1
<1>4. StoreOK(ops, minted)' /\ StoreOK(file, minted)'
    BY <1>3 DEF StoreOK
<1>5. SentOK' /\ DownOK'
    BY <1>1 DEF SentOK, DownOK
<1>6. ASSUME NEW k \in Callers PROVE CallOK(k)'
    <2>1. CallOK(k)
        BY DEF OpInv
    <2>2. ASSUME WorkOK(k) PROVE WorkOK(k)'
        BY <2>2 DEF WorkOK
    <2>. QED
        BY <2>1, <2>2 DEF CallOK
<1>. QED
    BY <1>2, <1>4, <1>5, <1>6 DEF OpInv

LEMMA PersistOtherOK == ASSUME OpInv, PersistOther PROVE OpInv'
<1>1. DeviceOK'
    BY DeviceTyped DEF PersistOther, device, DeviceOK
<1>. QED
    BY <1>1, OutsideStep DEF PersistOther, device

LEMMA ForeignEditOK == ASSUME OpInv, NEW e \in Endpoints, ForeignEdit(e) PROVE OpInv'
<1>1. DeviceOK'
    BY DeviceTyped DEF ForeignEdit, DeviceOK, Content
<1>. QED
    BY <1>1, OutsideStep DEF ForeignEdit, store

\* An operation in flight belongs to a device.
LEMMA SentFacts ==
    ASSUME OpInv, NEW o \in sent
    PROVE  o \in OpIds /\ minted[o] \in Devices /\ EndpointOf[minted[o]] \in Endpoints
<1>1. o \in OpIds /\ file[o].state \in InFlight
    BY DEF OpInv, TypeOK, SentOK
<1>2. Exists(file[o])
    BY <1>1 DEF InFlight, Exists
<1>. QED
    BY <1>1, <1>2, Constants DEF OpInv, StoreOK

LEMMA DeviceFinishesOK == ASSUME OpInv, NEW o \in OpIds, DeviceFinishes(o) PROVE OpInv'
<1> DEFINE e == EndpointOf[minted[o]]
<1>1. o \in sent /\ e \in Endpoints /\ DeviceOK /\ Unlocked(e, o) \in [Endpoints -> OpIds \cup {NoOne}]
    BY SentFacts, DeviceTyped, UnlockedOK DEF DeviceFinishes
<1>2. /\ running' \in {running, [running EXCEPT ![e] = candidate[e]], [running EXCEPT ![e] = "Base"]}
      /\ candidate' \in {candidate, [candidate EXCEPT ![e] = "Base"]}
      /\ lock' \in {lock, Unlocked(e, o)}
      /\ committed' \in {committed, committed \cup {o}, committed \ {o}}
      /\ sent' \subseteq sent
      /\ UNCHANGED <<store, up, guard, calls, handles, faults, minted, intents>>
    BY DEF DeviceFinishes
<1>3. DeviceOK'
    BY <1>1, <1>2 DEF DeviceOK, Content
<1>. QED
    BY <1>2, <1>3, OutsideStep DEF store

\* A process that is not running: no call, nothing in memory.
LEMMA DownStep ==
    ASSUME OpInv, UNCHANGED <<minted, intents, sent>>,
           calls' \in [Callers -> Call], \A c \in Callers : calls'[c].step = "idle" /\ calls'[c].op = NoOne,
           guard' \in [Devices -> Callers \cup {NoOne}],
           StoreOK(ops', minted'), StoreOK(file', minted'), SentOK', DownOK', up' \in BOOLEAN,
           handles' \subseteq OpIds, faults' \in 0..MaxFaults, DeviceOK'
    PROVE  OpInv'
<1>1. TypeOK'
    BY DEF OpInv, TypeOK, StoreOK, DeviceOK
<1>2. StoreOK(ops, minted)' /\ StoreOK(file, minted)'
    BY DEF StoreOK
<1>3. \A c \in Callers : CallOK(c)'
    BY DEF CallOK, Working
<1>. QED
    BY <1>1, <1>2, <1>3 DEF OpInv

LEMMA CrashOK == ASSUME OpInv, Crash PROVE OpInv'
<1>1. TypeOK /\ DeviceOK /\ StoreOK(ops, minted) /\ StoreOK(file, minted) /\ SentOK
    BY DeviceTyped DEF OpInv
<1>2. /\ up' = FALSE /\ ops' = [o \in OpIds |-> NoRecord]
      /\ guard' = [d \in Devices |-> NoOne] /\ calls' = [c \in Callers |-> IdleCall] /\ handles' = {}
      /\ UNCHANGED <<file, candidate, running, sent, committed, faults, minted, intents>>
    BY DEF Crash
<1>3. PICK gone \in SUBSET Endpoints :
        lock' = [e \in Endpoints |-> IF e \in gone THEN NoOne ELSE lock[e]]
    BY DEF Crash
<1>4. DeviceOK'
    BY <1>1, <1>2, <1>3 DEF DeviceOK
<1>5. StoreOK(ops', minted') /\ StoreOK(file', minted')
    BY <1>1, <1>2, NoRecordOK, SmallerStore
<1>6. SentOK' /\ DownOK'
    BY <1>1, <1>2, NoRecordOK, IdleCallOK DEF SentOK, DownOK
<1>7. calls' \in [Callers -> Call] /\ \A c \in Callers : calls'[c].step = "idle" /\ calls'[c].op = NoOne
    BY <1>2, IdleCallOK
<1>. QED
    BY <1>1, <1>2, <1>4, <1>5, <1>6, <1>7, DownStep DEF TypeOK

LEMMA RecoverOperationOK ==
    ASSUME NEW r \in OperationRecord
    PROVE  /\ RecoverOperation(r) \in OperationRecord /\ RecoverOperation(r).device = r.device
           /\ RecoverOperation(r).current = r.current
           /\ RecoverOperation(r).config_lock_held = r.config_lock_held
           /\ Exists(RecoverOperation(r)) <=> Exists(r)
           /\ Active(RecoverOperation(r)) <=> Active(r)
           /\ r.state \in InFlight => RecoverOperation(r).state \in InFlight
           /\ RecoverOperation(r).state \in {r.state, "Indeterminate"}
           /\ RecoverOperation(r) = r \/ RecoverOperation(r).state = "Indeterminate"
<1> DEFINE i == [r EXCEPT !.state = "Indeterminate"]
<1>1. i \in OperationRecord /\ i.device = r.device /\ i.state = "Indeterminate" /\ i.current = r.current
      /\ i.config_lock_held = r.config_lock_held
    BY StateEdit DEF LifecycleState
<1> HIDE DEF i
<1>2. RecoverOperation(r) = IF \/ r.state \in {"Staging", "Validating", "Committing"}
                               \/ r.state = "Staged" /\ ~Retain THEN i ELSE r
    BY DEF RecoverOperation, i
<1>. QED
    BY <1>1, <1>2 DEF Exists, Active, terminal, InFlight

LEMMA RecoveredOK ==
    ASSUME OpInv
    PROVE  StoreOK(Recovered, minted) /\ \A o \in OpIds : Recovered[o] = RecoverOperation(file[o])
<1>1. StoreOK(file, minted) /\ file \in [OpIds -> OperationRecord]
    BY DEF OpInv, StoreOK
<1>2. \A o \in OpIds : Recovered[o] = RecoverOperation(file[o])
    BY DEF Recovered
<1>3. Recovered \in [OpIds -> OperationRecord]
    BY <1>1, RecoverOperationOK DEF Recovered
<1>4. \A o \in OpIds : /\ Recovered[o].device = file[o].device
                       /\ Exists(Recovered[o]) <=> Exists(file[o])
                       /\ Active(Recovered[o]) <=> Active(file[o])
    BY <1>1, <1>2, RecoverOperationOK
<1>5. StoreOK(Recovered, minted)
    BY <1>1, <1>3, <1>4 DEF StoreOK
<1>. QED
    BY <1>2, <1>5

LEMMA LoadOK == ASSUME OpInv, load PROVE OpInv'
<1>1. /\ TypeOK /\ DeviceOK /\ StoreOK(ops, minted) /\ StoreOK(file, minted) /\ SentOK /\ DownOK
      /\ file \in [OpIds -> OperationRecord]
      /\ \A c \in Callers : calls[c].op = NoOne
    <2>1. ~up /\ DownOK /\ \A c \in Callers : CallOK(c)
        BY DEF load, OpInv
    <2>. QED
        BY <2>1, DeviceTyped DEF OpInv, DownOK, CallOK, StoreOK
<1>2. PICK outcome \in Outcomes :
        /\ ~up
        /\ IF Recovered = file
           THEN outcome = "ok" /\ UNCHANGED <<file, faults>>
           ELSE persist_locked(Recovered, outcome)
        /\ IF outcome = "ok"
           THEN /\ up' = TRUE
                /\ ops' = Recovered
                /\ handles' = {o \in OpIds : Recovered[o].state = "Staged"}
           ELSE UNCHANGED <<up, ops, handles>>
        /\ UNCHANGED <<guard, calls, device, minted, intents>>
    BY DEF load
<1>3. StoreOK(Recovered, minted) /\ \A o \in OpIds : Recovered[o] = RecoverOperation(file[o])
    BY RecoveredOK
<1>4. file' \in {file, Recovered} /\ faults' \in 0..MaxFaults
    <2>1. CASE Recovered = file
        BY <1>1, <1>2, <2>1 DEF TypeOK
    <2>2. CASE Recovered # file
        BY <1>1, <1>2, <2>2, PersistOK
    <2>. QED
        BY <2>1, <2>2
<1> HIDE DEF Recovered
<1>5. handles' \subseteq OpIds /\ up' \in BOOLEAN /\ DeviceOK' /\ UNCHANGED <<guard, calls, minted, intents, sent>>
    BY <1>1, <1>2 DEF TypeOK, device, DeviceOK
<1>6. SentOK'
    <2> SUFFICES ASSUME NEW o \in sent
                 PROVE  file'[o].state \in InFlight /\ (up' => ops'[o].state \in InFlight)
        BY <1>5 DEF SentOK
    <2>1. o \in OpIds /\ file[o].state \in InFlight
        BY <1>1 DEF SentOK, TypeOK
    <2>2. Recovered[o].state \in InFlight
        BY <1>1, <1>3, <2>1, RecoverOperationOK
    <2>3. up' => ops' = Recovered
        BY <1>2
    <2>. QED
        BY <1>4, <2>1, <2>2, <2>3
<1>7. DownOK'
    BY <1>1, <1>2 DEF DownOK
<1>8. StoreOK(ops', minted') /\ StoreOK(file', minted')
    BY <1>1, <1>2, <1>3, <1>4
<1>9. \A c \in Callers : calls[c].step = "idle"
    BY <1>1, <1>2 DEF DownOK
<1>. QED
    BY <1>1, <1>4, <1>5, <1>6, <1>7, <1>8, <1>9, DownStep DEF TypeOK

LEMMA ResolveOK == ASSUME OpInv, NEW o \in OpIds, resolve_persisted_operation(o) PROVE OpInv'
<1> DEFINE e == EndpointOf[file[o].device]
<1>1. PICK disposition \in {"Committed", "Discarded"}, outcome \in Outcomes :
        persist_locked([file EXCEPT ![o].state = disposition, ![o].config_lock_held = FALSE], outcome)
    BY DEF resolve_persisted_operation
<1>2. /\ ~up /\ Active(file[o]) /\ o \notin sent /\ lock' = Unlocked(e, o)
      /\ candidate' \in {candidate, Reverted(e)}
      /\ UNCHANGED <<ops, up, guard, calls, handles, running, sent, committed, minted, intents>>
    BY DEF resolve_persisted_operation, Resolvable
<1>3. /\ TypeOK /\ DeviceOK /\ StoreOK(ops, minted) /\ StoreOK(file, minted) /\ SentOK /\ DownOK
      /\ file[o] \in OperationRecord /\ \A c \in Callers : CallOK(c)
    BY DeviceTyped DEF OpInv, TypeOK
<1>4. e \in Endpoints
    BY <1>2, <1>3, ActiveExists, Constants DEF StoreOK
<1> DEFINE r == [file[o] EXCEPT !.state = disposition, !.config_lock_held = FALSE]
           done == [file EXCEPT ![o] = r]
<1>5. r \in OperationRecord /\ r.device = file[o].device /\ Exists(r)
    <2>1. disposition \in LifecycleState \cup {"Absent"}
        BY DEF LifecycleState
    <2>2. r \in OperationRecord
        BY <1>3, <2>1, Zenon DEF OperationRecord
    <2>. QED
        BY <1>3, <2>2 DEF OperationRecord, Exists
<1>6. persist_locked(done, outcome)
    BY <1>1, <1>3 DEF TypeOK
<1> HIDE DEF r
<1>7. StoreOK(done, minted)
    BY <1>2, <1>3, <1>5, UpdateStore
<1>8. done[o] = r /\ \A p \in OpIds : p # o => done[p] = file[p]
    BY <1>3 DEF TypeOK
<1> HIDE DEF done
<1>9. faults' \in 0..MaxFaults /\ file' \in {file, done}
    BY <1>3, <1>6, PersistOK
<1>10. StoreOK(ops', minted') /\ StoreOK(file', minted')
    BY <1>2, <1>3, <1>7, <1>9
<1>11. SentOK'
    BY <1>2, <1>3, <1>8, <1>9 DEF SentOK, TypeOK
<1>12. DownOK' /\ \A c \in Callers : calls'[c].step = "idle" /\ calls'[c].op = NoOne
    BY <1>2, <1>3 DEF DownOK, CallOK
<1>13. DeviceOK'
    BY <1>2, <1>3, <1>4, UnlockedOK DEF DeviceOK, Reverted
<1>. QED
    BY <1>2, <1>3, <1>9, <1>10, <1>11, <1>12, <1>13, DownStep DEF TypeOK

LEMMA OpStep == OpInv /\ [Next]_vars => OpInv'
<1> SUFFICES ASSUME OpInv, [Next]_vars PROVE OpInv'
    OBVIOUS
<1>1. CASE UNCHANGED vars
    <2>1. UNCHANGED <<ops, file, up, guard, calls, handles, candidate, running, lock, sent, faults,
                      minted, intents, committed>>
        BY <1>1 DEF vars
    <2>2. DeviceOK'
        BY <2>1, DeviceTyped DEF DeviceOK
    <2>. QED
        BY <2>1, <2>2, OutsideStep
<1>2. ASSUME NEW c \in Callers, Request(c) \/ TakeGuard(c) \/ Cancel(c) \/ Advance(c) PROVE OpInv'
    BY <1>2, RequestOK, TakeGuardOK, CancelOK, StageStepOK, LaterStepOK DEF Advance
<1>3. CASE Environment
    BY <1>3, CrashOK, LoadOK, PersistOtherOK, ResolveOK, DeviceFinishesOK, ForeignEditOK DEF Environment
<1>. QED
    BY <1>1, <1>2, <1>3 DEF Next

\* The inductive invariant: every map of records is sound, every call past its
\* guard works on an active record of its own, what is in flight is on record.
THEOREM OperationInvariant == Spec => []OpInv
BY OpInitial, OpStep, PTL DEF Spec

\* Every record, call and device variable keeps its type: no write of a record
\* and no recovery produces a state the record's enum does not have.
THEOREM OperationTypes == Spec => []TypeOK
<1>1. OpInv => TypeOK
    BY DEF OpInv
<1>. QED
    BY <1>1, OperationInvariant, PTL

\* At most one unsettled operation per endpoint in memory and in the file, for
\* any number of names per endpoint, any callers, any failed writes, any crash.
THEOREM OneStaysActive == Spec => []OneActivePerEndpoint
<1>1. OpInv => OneActivePerEndpoint
    BY DEF OpInv, StoreOK, OneActivePerEndpoint
<1>. QED
    BY <1>1, OperationInvariant, PTL
----------------------------------------------------------------------------
(* What a step may never do *)

LEMMA SettledKept ==
    ASSUME OpInv, NEW o \in OpIds, ~terminal(ops[o].state),
           \A p \in OpIds : p # o => ops'[p] \in {ops[p], NoRecord}
    PROVE  LeavesSettledAlone
BY DEF LeavesSettledAlone

LEMMA UpdateSettles ==
    ASSUME OpInv, NEW c \in Callers, calls[c].step \in Working, NEW r, NEW outcome,
           update(calls[c].op, r, outcome) \/ remove(calls[c].op, outcome)
    PROVE  LeavesSettledAlone
<1>1. calls[c].op \in OpIds /\ ~terminal(ops[calls[c].op].state) /\ ops \in [OpIds -> OperationRecord]
    BY WorkFacts DEF Active, OpInv, TypeOK
<1>2. \A p \in OpIds : p # calls[c].op => ops'[p] = ops[p]
    BY <1>1 DEF update, remove
<1>. QED
    BY <1>1, <1>2, SettledKept

LEMMA StageStepSettles == ASSUME OpInv, NEW c \in Callers, StageStep(c) PROVE LeavesSettledAlone
<1>1. CASE Reserve(c)
    <2>1. PICK o \in OpIds, outcome \in Outcomes :
            minted[o] = NoOne /\ insert(o, StagingRecord(c), outcome)
        BY <1>1, Zenon DEF Reserve
    <2>2. Evicted \in [OpIds -> OperationRecord]
          /\ \A p \in OpIds : Evicted[p] = ops[p] \/ (terminal(ops[p].state) /\ Evicted[p] = NoRecord)
        BY EvictedOK DEF OpInv
    <2>3. ~Exists(ops[o])
        BY <2>1, Constants DEF OpInv, StoreOK
    <2>4. ~terminal(ops[o].state)
        BY <2>3 DEF Exists, terminal
    <2> HIDE DEF Evicted
    <2>5. \A p \in OpIds : p # o => ops'[p] = Evicted[p]
        BY <2>1, <2>2 DEF insert
    <2>. QED
        BY <2>2, <2>4, <2>5, SettledKept
<1>2. CASE ReserveRefused(c)
    <2>1. \A p \in OpIds : Evicted[p] = ops[p] \/ (terminal(ops[p].state) /\ Evicted[p] = NoRecord)
        BY EvictedOK DEF OpInv
    <2>. QED
        BY <1>2, <2>1 DEF ReserveRefused, LeavesSettledAlone
<1>3. CASE RecordRisk(c) \/ RecordTouch(c) \/ RecordStaged(c) \/ NoteAndReturnHandle(c) \/ Drop(c)
    <2>1. calls[c].step \in Working
        BY <1>3 DEF RecordRisk, RecordTouch, RecordStaged, NoteAndReturnHandle, Drop, At, Working, Steps
    <2>2. PICK r, outcome : update(calls[c].op, r, outcome) \/ remove(calls[c].op, outcome)
        BY <1>3, Zenon DEF RecordRisk, RecordTouch, RecordStaged, NoteAndReturnHandle, Drop
    <2>. QED
        BY <2>1, <2>2, UpdateSettles
<1>4. CASE Claim(c) \/ TakeDeviceLock(c) \/ CheckFingerprint(c) \/ StageRpc(c) \/ ReadAfter(c) \/ ReleaseRpc(c)
    <2>1. UNCHANGED ops
        BY <1>4, Zenon DEF Claim, TakeDeviceLock, CheckFingerprint, StageRpc, ReadAfter, ReleaseRpc, store
    <2>. QED
        BY <2>1 DEF LeavesSettledAlone
<1>. QED
    BY <1>1, <1>2, <1>3, <1>4 DEF StageStep

LEMMA LaterStepSettles == ASSUME OpInv, NEW c \in Callers, LaterStep(c) PROVE LeavesSettledAlone
<1>1. CASE Announce(c) \/ Settle(c)
    <2>1. calls[c].step \in Working
        BY <1>1, RpcAfterOK DEF Announce, Settle, At, Working, Steps
    <2>2. PICK r, outcome : update(calls[c].op, r, outcome)
        BY <1>1, Zenon DEF Announce, Settle
    <2>. QED
        BY <2>1, <2>2, UpdateSettles
<1>2. CASE StartValidate(c) \/ StartCommit(c) \/ StartDiscard(c) \/ ValidateRpc(c) \/ CommitRpc(c)
           \/ RollbackRpc(c) \/ UnlockRpc(c) \/ ReadReverted(c)
    <2>1. UNCHANGED ops
        BY <1>2, Zenon DEF StartValidate, StartCommit, StartDiscard, ValidateRpc, CommitRpc, RollbackRpc,
                    UnlockRpc, ReadReverted, store
    <2>. QED
        BY <2>1 DEF LeavesSettledAlone
<1>. QED
    BY <1>1, <1>2 DEF LaterStep

LEMMA OtherStepSettles ==
    ASSUME OpInv, NEW c \in Callers, Request(c) \/ TakeGuard(c) \/ Cancel(c) \/ Refuse(c)
    PROVE  LeavesSettledAlone
<1>1. UNCHANGED ops
    BY Zenon DEF Request, stage_operation, apply_change_set, validate_operation, commit_operation,
          discard_operation, Begin, TakeGuard, Cancel, Refuse, store
<1>. QED
    BY <1>1 DEF LeavesSettledAlone

\* No step of any call reopens or rewrites a settled operation, for any number
\* of calls that read it before it was settled.
THEOREM SettledRemainsSettled == Spec => SettledStaysSettled
<1>1. OpInv /\ [Next]_vars => [LeavesSettledAlone]_vars
    <2> SUFFICES ASSUME OpInv, Next PROVE LeavesSettledAlone
        OBVIOUS
    <2>1. ASSUME NEW c \in Callers, Request(c) \/ TakeGuard(c) \/ Cancel(c) \/ Advance(c)
          PROVE  LeavesSettledAlone
        BY <2>1, StageStepSettles, LaterStepSettles, OtherStepSettles DEF Advance
    <2>2. CASE Environment
        <3>1. UNCHANGED ops \/ ~up \/ ~up'
            BY <2>2, Zenon DEF Environment, Crash, load, PersistOther, resolve_persisted_operation,
                        DeviceFinishes, ForeignEdit, store
        <3>. QED
            BY <3>1 DEF LeavesSettledAlone
    <2>. QED
        BY <2>1, <2>2 DEF Next
<1>. QED
    BY <1>1, OperationInvariant, PTL DEF SettledStaysSettled, Spec

\* An active operation that is not the one between stage and commit stands at
\* another endpoint.
LEMMA ElsewhereIsStaged ==
    ASSUME OpInv, NEW o \in OpIds, ops[o].state \in {"Staged", "Validating", "Validated"},
           NEW p \in OpIds, ops[p].state \in {"Staging", "Committing", "Indeterminate"}
    PROVE  EndpointOf[ops[o].device] # EndpointOf[minted[p]] /\ EndpointOf[ops[o].device] \in Endpoints
<1>1. Active(ops[o]) /\ Active(ops[p]) /\ o # p /\ Exists(ops[o]) /\ Exists(ops[p])
    BY DEF Active, Exists, terminal
<1>2. ops[p].device = minted[p] /\ ops[o].device \in Devices
    BY <1>1 DEF OpInv, StoreOK
<1>. QED
    BY <1>1, <1>2, Constants DEF OpInv, StoreOK

LEMMA StagedKept ==
    ASSUME OpInv, NEW p \in OpIds, ops[p].state \in {"Staging", "Committing", "Indeterminate"},
           NEW e, e = EndpointOf[minted[p]],
           \A f \in Endpoints : f # e => candidate'[f] = candidate[f] /\ running'[f] = running[f]
    PROVE  LeavesStagedAlone
<1> SUFFICES ASSUME NEW o \in OpIds, ops[o].state \in {"Staged", "Validating", "Validated"}
             PROVE  LET f == EndpointOf[ops[o].device] IN
                    candidate'[f] \in {candidate[f], "Drift"} /\ running'[f] = running[f]
    BY DEF LeavesStagedAlone
<1>. QED
    BY ElsewhereIsStaged

LEMMA StillDevice == ASSUME UNCHANGED <<candidate, running>> PROVE LeavesStagedAlone
BY DEF LeavesStagedAlone

LEMMA CallLeavesStaged ==
    ASSUME OpInv, NEW c \in Callers, Request(c) \/ TakeGuard(c) \/ Cancel(c) \/ Advance(c)
    PROVE  LeavesStagedAlone
<1> DEFINE p == calls[c].op
           e == End(c)
<1>1. CASE StageRpc(c) \/ RollbackRpc(c) \/ CommitRpc(c)
    <2>1. calls[c].step \in {"stage", "rollback", "commit"} /\ calls[c].step \in Working
        BY <1>1 DEF StageRpc, RollbackRpc, CommitRpc, At, Working, Steps
    <2>2. p \in OpIds /\ e \in Endpoints /\ e = EndpointOf[minted[p]] /\ DeviceOK
        BY <2>1, WorkFacts, DeviceTyped DEF End
    <2>3. ops[p].state \in {"Staging", "Committing", "Indeterminate"}
        BY <2>1, WorkFacts DEF WorkOK, StagingSteps
    <2>4. /\ candidate' \in {candidate, [candidate EXCEPT ![e] = p], [candidate EXCEPT ![e] = running[e]]}
          /\ running' \in {running, [running EXCEPT ![e] = candidate[e]]}
        BY <1>1 DEF StageRpc, RollbackRpc, CommitRpc, TakesEffect, Reverted
    <2>5. \A f \in Endpoints : f # e => candidate'[f] = candidate[f] /\ running'[f] = running[f]
        BY <2>2, <2>4 DEF DeviceOK
    <2>. QED
        BY <2>2, <2>3, <2>5, StagedKept
<1>2. CASE Request(c) \/ TakeGuard(c) \/ Cancel(c) \/ Refuse(c)
    <2>1. UNCHANGED device
        BY <1>2, Zenon DEF Request, stage_operation, apply_change_set, validate_operation, commit_operation,
              discard_operation, Begin, TakeGuard, Cancel, Refuse
    <2>. QED
        BY <2>1, StillDevice DEF device
<1>3. CASE StageStep(c) /\ ~StageRpc(c)
    <2>1. UNCHANGED <<candidate, running>> \/ UNCHANGED device
        BY <1>3, Zenon DEF StageStep, Reserve, ReserveRefused, Claim, RecordRisk, TakeDeviceLock,
              CheckFingerprint, RecordTouch, ReadAfter, RecordStaged, NoteAndReturnHandle, ReleaseRpc, Drop
    <2>. QED
        BY <2>1, StillDevice DEF device
<1>4. CASE LaterStep(c) /\ ~RollbackRpc(c) /\ ~CommitRpc(c)
    <2>1. UNCHANGED <<candidate, running>> \/ UNCHANGED device
        BY <1>4, Zenon DEF LaterStep, StartValidate, StartCommit, StartDiscard, Announce, ValidateRpc,
              UnlockRpc, ReadReverted, Settle
    <2>. QED
        BY <2>1, StillDevice DEF device
<1>. QED
    BY <1>1, <1>2, <1>3, <1>4 DEF Advance

LEMMA EnvironmentLeavesStaged == ASSUME OpInv, Environment PROVE LeavesStagedAlone
<1>1. CASE ~up
    <2>1. \A o \in OpIds : ~Exists(ops[o])
        BY <1>1 DEF OpInv, DownOK
    <2>. QED
        BY <2>1 DEF LeavesStagedAlone, Exists
<1>2. CASE up /\ (Crash \/ load \/ PersistOther \/ \E o \in OpIds : resolve_persisted_operation(o))
    <2>1. UNCHANGED <<candidate, running>>
        BY <1>2, Zenon DEF Crash, load, PersistOther, resolve_persisted_operation, device
    <2>. QED
        BY <2>1, StillDevice
<1>3. ASSUME up, NEW o \in OpIds, DeviceFinishes(o) PROVE LeavesStagedAlone
    <2> DEFINE e == EndpointOf[minted[o]]
    <2>1. o \in sent /\ e \in Endpoints /\ DeviceOK /\ ops[o].state \in InFlight
        BY <1>3, SentFacts, DeviceTyped DEF DeviceFinishes, OpInv, SentOK
    <2>2. /\ running' \in {running, [running EXCEPT ![e] = candidate[e]], [running EXCEPT ![e] = "Base"]}
          /\ candidate' \in {candidate, [candidate EXCEPT ![e] = "Base"]}
        BY <1>3 DEF DeviceFinishes
    <2>3. \A f \in Endpoints : f # e => candidate'[f] = candidate[f] /\ running'[f] = running[f]
        BY <2>1, <2>2 DEF DeviceOK
    <2>. QED
        BY <2>1, <2>3, StagedKept DEF InFlight
<1>4. ASSUME NEW e \in Endpoints, ForeignEdit(e) PROVE LeavesStagedAlone
    BY <1>4, DeviceTyped, Constants DEF ForeignEdit, LeavesStagedAlone, DeviceOK, OpInv, StoreOK, Exists
<1>. QED
    BY <1>1, <1>2, <1>3, <1>4 DEF Environment

\* No operation replaces, reverts or commits the candidate under one that is
\* between stage and commit, whatever names, restarts and late commits.
THEOREM StagedStaysUndisturbed == Spec => StagedUndisturbed
<1>1. OpInv /\ [Next]_vars => [LeavesStagedAlone]_vars
    <2> SUFFICES ASSUME OpInv, Next PROVE LeavesStagedAlone
        OBVIOUS
    <2>. QED
        BY CallLeavesStaged, EnvironmentLeavesStaged DEF Next
<1>. QED
    BY <1>1, OperationInvariant, PTL DEF StagedUndisturbed, Spec
----------------------------------------------------------------------------
(***************************************************************************)
(* The second invariant: what the records say of the device.  It is kept   *)
(* one operation at a time: a call changes nothing that concerns another   *)
(* operation, because no two active ones stand at one endpoint.            *)
(***************************************************************************)

\* stage() is all-or-none wherever apply_change_set relies on it.
AllOrNone == "apply" \notin Entry \/ ~TaintedStage

OnlyStages == "apply" \notin Entry

InCandidate(o) == \E e \in Endpoints : candidate[e] = o
HoldsLock(o) == \E e \in Endpoints : lock[e] = o

\* A record of o, in memory or on disk, says what is true of the device.
TrueOf(o, r) ==
    /\ o \in committed => r.state \in {"Committing", "Committed", "Indeterminate", "Absent"}
    /\ r.state = "Committed" => o \in committed
    /\ r.state = "Discarded" => o \notin committed /\ o \notin sent /\ ~InCandidate(o) /\ ~HoldsLock(o)

\* What o left on the device stands in r.
CoveredBy(o, r) ==
    /\ o \notin committed /\ InCandidate(o) => Active(r)
    /\ OnlyStages /\ HoldsLock(o) => Active(r) /\ r.config_lock_held

OnDevice(o) ==
    /\ \A e \in Endpoints : lock[e] = o \/ candidate[e] = o \/ running[e] = o
                              => minted[o] \in Devices /\ e = EndpointOf[minted[o]]
    /\ o \in committed \/ o \in sent => o \in intents /\ minted[o] \in Devices
    /\ \A e \in Endpoints : running[e] = o => o \in committed
    /\ TrueOf(o, file[o]) /\ TrueOf(o, ops[o])
    /\ CoveredBy(o, file[o]) /\ (up => CoveredBy(o, ops[o]))

BeforeTouch == {"claim", "risk", "lock"}
Reserved == StagingSteps \ {"note"}
Clean == {"claim", "risk", "lock", "check", "touch", "stage", "release", "drop",
          "reverted", "unlock", "reread"}

OnDeviceWork(c) == LET k == calls[c]
                       o == calls[c].op IN
    /\ o \in committed => k.step = "settle" /\ k.rec.state \in {"Committing", "Committed", "Indeterminate"}
    /\ k.step \in {"committing", "commit"} => o \in intents
    /\ k.step \in StagingSteps => k.kind \in {"stage", "apply"}
    /\ k.step \in Reserved => file[o].state = "Staging"
    /\ k.step \in Clean => ~InCandidate(o)
    /\ k.rec.state = "Committed" => o \in committed /\ o \notin sent /\ ~HoldsLock(o)
    /\ k.rec.state = "Discarded" => o \notin committed /\ o \notin sent /\ ~InCandidate(o) /\ ~HoldsLock(o)
    \* The lock.
    /\ OnlyStages /\ HoldsLock(o) => k.rec.config_lock_held
    /\ k.step \in {"lock", "stage"} \/ (k.step = "check" /\ k.kind = "apply") =>
         k.rec.config_lock_held /\ ops[o].config_lock_held /\ file[o].config_lock_held
    /\ k.step \in BeforeTouch => ~HoldsLock(o)
    /\ k.step \in {"check", "touch"} /\ ~k.locked => ~HoldsLock(o)
    /\ k.step = "drop" /\ k.kind = "stage" => ~HoldsLock(o)
    \* What was observed.
    /\ k.step \in BeforeStaged => k.rec.current = k.want /\ ops[o].current = k.want /\ file[o].current = k.want
    /\ RequiresLock /\ k.step \in {"check", "touch", "stage"} => lock[End(c)] = o
    /\ RequiresLock /\ k.step \in {"touch", "stage"} => candidate[End(c)] = k.want

DeviceInv ==
    /\ \A o \in OpIds : OnDevice(o)
    /\ \A c \in Callers : calls[c].step \in Working => OnDeviceWork(c)
    /\ \A c \in Callers : calls[c].kind \in {"stage", "apply"} => calls[c].kind \in Entry

LEMMA DeviceInitial == Init => DeviceInv
<1> SUFFICES ASSUME Init PROVE DeviceInv
    OBVIOUS
<1>1. \A c \in Callers : calls[c] = IdleCall
    BY DEF Init
<1>2. \A o \in OpIds : ~InCandidate(o) /\ ~HoldsLock(o) /\ \A e \in Endpoints : running[e] # o
    BY Constants DEF Init, InCandidate, HoldsLock
<1>3. \A o \in OpIds : ops[o] = NoRecord /\ file[o] = NoRecord /\ o \notin committed /\ o \notin sent
    BY DEF Init
<1>4. ASSUME NEW o \in OpIds PROVE OnDevice(o)
    <2>1. TrueOf(o, NoRecord)
        BY <1>3, NoRecordOK DEF TrueOf
    <2>2. CoveredBy(o, NoRecord)
        BY <1>2 DEF CoveredBy
    <2>3. \A e \in Endpoints : lock[e] # o /\ candidate[e] # o /\ running[e] # o
        BY <1>2 DEF InCandidate, HoldsLock
    <2>. QED
        BY <1>3, <2>1, <2>2, <2>3 DEF OnDevice
<1>. QED
    BY <1>1, <1>4, IdleCallOK DEF DeviceInv, Working

\* The step leaves the device's side of o, and what is written of it, alone.
DeviceKeeps(o) ==
    /\ \A e \in Endpoints : lock'[e] = o => lock[e] = o
    /\ \A e \in Endpoints : candidate'[e] = o => candidate[e] = o \/ running[e] = o
    /\ \A e \in Endpoints : running'[e] = o => running[e] = o \/ (candidate[e] = o /\ o \in committed)
    /\ (o \in committed' <=> o \in committed) /\ (o \in sent' <=> o \in sent)
    /\ (o \in intents => o \in intents') /\ minted'[o] = minted[o]
    /\ ops[o].state = "Staging" =>
         \A e \in Endpoints : lock[e] = o => lock'[e] = o /\ candidate'[e] = candidate[e]
    /\ \/ ops'[o] = ops[o] /\ file'[o] \in {file[o], ops[o]}
       \/ ~Active(ops[o]) /\ ops'[o] \in {ops[o], NoRecord} /\ file'[o] \in {file[o], ops[o], NoRecord}

LEMMA KeptOnDevice ==
    ASSUME NEW o \in OpIds, OnDevice(o), DeviceKeeps(o), up
    PROVE  OnDevice(o)'
<1>1. InCandidate(o)' => o \in committed \/ InCandidate(o)
    BY DEF InCandidate, DeviceKeeps, OnDevice
<1>2. HoldsLock(o)' => HoldsLock(o)
    BY DEF HoldsLock, DeviceKeeps
<1>3. ops'[o] \in {ops[o], NoRecord} /\ file'[o] \in {file[o], ops[o], NoRecord}
    BY DEF DeviceKeeps
<1>4. TrueOf(o, ops[o])' /\ TrueOf(o, file[o])'
    BY <1>1, <1>2, <1>3, NoRecordOK DEF TrueOf, OnDevice, DeviceKeeps
<1>5. Active(ops[o]) => ops'[o] = ops[o] /\ file'[o] \in {file[o], ops[o]}
    BY DEF DeviceKeeps
<1>6. CoveredBy(o, ops[o])' /\ CoveredBy(o, file[o])'
    BY <1>1, <1>2, <1>5 DEF CoveredBy, OnDevice, DeviceKeeps
<1>7. \A e \in Endpoints : lock'[e] = o \/ candidate'[e] = o \/ running'[e] = o
                             => minted'[o] \in Devices /\ e = EndpointOf[minted'[o]]
    BY DEF DeviceKeeps, OnDevice
<1>8. \A e \in Endpoints : running'[e] = o => o \in committed'
    BY DEF DeviceKeeps, OnDevice
<1>9. o \in committed' \/ o \in sent' => o \in intents' /\ minted'[o] \in Devices
    BY DEF DeviceKeeps, OnDevice
<1>. QED
    BY <1>4, <1>6, <1>7, <1>8, <1>9 DEF OnDevice

LEMMA KeptWork ==
    ASSUME OpInv, NEW k \in Callers, calls[k].step \in Working, OnDeviceWork(k), OnDevice(calls[k].op),
           DeviceKeeps(calls[k].op), calls'[k] = calls[k]
    PROVE  OnDeviceWork(k)'
<1> DEFINE o == calls[k].op
<1>1. /\ WorkOK(k) /\ o \in OpIds /\ Active(ops[o]) /\ End(k) \in Endpoints
      /\ ops'[o] = ops[o] /\ file'[o] \in {file[o], ops[o]}
    BY WorkFacts DEF DeviceKeeps
<1>2. (o \in committed' <=> o \in committed) /\ (o \in sent' <=> o \in sent) /\ (o \in intents => o \in intents')
    BY DEF DeviceKeeps
<1>3. InCandidate(o)' => o \in committed \/ InCandidate(o)
    BY DEF InCandidate, DeviceKeeps, OnDevice
<1>4. HoldsLock(o)' => HoldsLock(o)
    BY DEF HoldsLock, DeviceKeeps
<1>5. calls[k].step \in StagingSteps => ops[o].state = "Staging"
    BY <1>1 DEF WorkOK
<1>6. End(k)' = End(k)
    BY DEF End
<1>7. RequiresLock /\ calls[k].step \in {"check", "touch", "stage"} => lock'[End(k)] = o
    BY <1>1, <1>5 DEF OnDeviceWork, DeviceKeeps, StagingSteps
<1>8. RequiresLock /\ calls[k].step \in {"touch", "stage"} => candidate'[End(k)] = calls[k].want
    BY <1>1, <1>5 DEF OnDeviceWork, DeviceKeeps, StagingSteps
<1>9. calls[k].step \in Reserved => file'[o].state = "Staging"
    BY <1>1, <1>5 DEF OnDeviceWork, Reserved
<1>10. calls[k].step \in {"lock", "stage"} \/ (calls[k].step = "check" /\ calls[k].kind = "apply")
         => ops'[o].config_lock_held /\ file'[o].config_lock_held
    BY <1>1 DEF OnDeviceWork
<1>11. calls[k].step \in BeforeStaged => ops'[o].current = calls[k].want /\ file'[o].current = calls[k].want
    BY <1>1 DEF OnDeviceWork
<1>12. calls[k].step \in Clean => ~InCandidate(o)'
    BY <1>3 DEF OnDeviceWork, Clean
<1>. QED
    BY <1>2, <1>3, <1>4, <1>6, <1>7, <1>8, <1>9, <1>10, <1>11, <1>12 DEF OnDeviceWork

\* A step of call c about operation p.
LEMMA DeviceStep ==
    ASSUME OpInv, DeviceInv, NEW c \in Callers, up, OnlyMoves(c), NEW p, p \in OpIds => Owns(c, p),
           \A o \in OpIds : o # p => DeviceKeeps(o),
           p \in OpIds => OnDevice(p)',
           calls'[c].step \in Working => OnDeviceWork(c)',
           calls'[c].kind \in {"stage", "apply"} => calls'[c].kind \in Entry
    PROVE  DeviceInv'
<1>1. \A o \in OpIds : OnDevice(o)'
    BY KeptOnDevice DEF DeviceInv
<1>2. ASSUME NEW k \in Callers, calls'[k].step \in Working PROVE OnDeviceWork(k)'
    <2>1. CASE k = c
        BY <1>2, <2>1
    <2>2. CASE k # c
        <3>1. calls'[k] = calls[k] /\ calls[k].step \in Working
            BY <1>2, <2>2 DEF OnlyMoves
        <3>2. calls[k].op \in OpIds /\ minted[calls[k].op] = calls[k].device /\ guard[calls[k].device] = k
              /\ calls[k].device \in Devices
            BY <3>1, WorkFacts
        <3>3. calls[k].op # p
            BY <2>2, <3>2, Constants DEF Owns
        <3>. QED
            BY <3>1, <3>2, <3>3, KeptWork DEF DeviceInv
    <2>. QED
        BY <2>1, <2>2
<1>3. \A k \in Callers : calls'[k].kind \in {"stage", "apply"} => calls'[k].kind \in Entry
    BY DEF DeviceInv, OnlyMoves
<1>. QED
    BY <1>1, <1>2, <1>3 DEF DeviceInv

\* A step that changes nothing but the call.
LEMMA QuietStep ==
    ASSUME OpInv, DeviceInv, NEW c \in Callers, up, OnlyMoves(c),
           UNCHANGED <<ops, file, candidate, running, lock, sent, committed, minted>>,
           intents \subseteq intents',
           calls'[c].step \in Working => OnDeviceWork(c)',
           calls'[c].kind \in {"stage", "apply"} => calls'[c].kind \in Entry
    PROVE  DeviceInv'
<1>1. \A o \in OpIds : DeviceKeeps(o)
    BY DEF DeviceKeeps
<1>2. NoOne \notin OpIds
    BY Constants
<1>. QED
    BY <1>1, <1>2, DeviceStep
----------------------------------------------------------------------------
(* Calls that only move, and writes *)

LEMMA RequestDevice ==
    ASSUME OpInv, DeviceInv, NEW c \in Callers, Request(c)
    PROVE  DeviceInv'
<1>1. \E kind, o, d, want, seen : /\ Begin(c, kind, o, d, want, seen)
                                  /\ kind \in {"stage", "apply"} => kind \in Entry
    <2>1. CASE stage_operation(c) \/ apply_change_set(c)
        BY <2>1, Zenon DEF stage_operation, apply_change_set
    <2>2. CASE validate_operation(c) \/ commit_operation(c) \/ discard_operation(c)
        <3>1. \E kind, o, d, want, seen : /\ Begin(c, kind, o, d, want, seen)
                                          /\ kind \in {"validate", "commit", "discard"}
            BY <2>2, Zenon DEF validate_operation, commit_operation, discard_operation
        <3>. QED
            BY <3>1
    <2>. QED
        BY <2>1, <2>2 DEF Request
<1>2. PICK kind, o, d, want, seen : /\ Begin(c, kind, o, d, want, seen)
                                    /\ kind \in {"stage", "apply"} => kind \in Entry
    BY <1>1
<1> DEFINE k == [kind |-> kind, step |-> "guard", op |-> o, device |-> d, want |-> want,
                 locked |-> FALSE, rec |-> seen]
<1>3. k.step = "guard" /\ k.kind = kind
    OBVIOUS
<1>4. up /\ calls' = [calls EXCEPT ![c] = k] /\ UNCHANGED <<ops, file, up, guard, handles, device, faults, minted, intents>>
    BY <1>2 DEF Begin
<1> HIDE DEF k
<1>5. calls'[c] = k /\ \A j \in Callers : j # c => calls'[j] = calls[j]
    BY <1>4 DEF OpInv, TypeOK
<1>. QED
    BY <1>2, <1>3, <1>4, <1>5, GoMoves, QuietStep DEF device, Working

LEMMA GuardDevice ==
    ASSUME OpInv, DeviceInv, NEW c \in Callers, TakeGuard(c) \/ Cancel(c) \/ Refuse(c)
    PROVE  DeviceInv'
<1>1. TypeOK /\ up /\ UNCHANGED <<ops, file, candidate, running, lock, sent, committed, minted, intents>>
    BY DEF OpInv, TakeGuard, Cancel, Refuse, At, store, device
<1>2. CASE Cancel(c) \/ Refuse(c)
    BY <1>1, <1>2, ReturnOK, IdleCallOK, QuietStep DEF Cancel, Refuse, Working
<1>3. CASE TakeGuard(c)
    <2>1. Go(c, "begin") /\ "begin" \in Steps
        BY <1>3 DEF TakeGuard, Steps
    <2>2. calls'[c].step = "begin" /\ calls'[c].kind = calls[c].kind
          /\ \A j \in Callers : j # c => calls'[j] = calls[j]
        BY <1>1, <2>1, GoOK
    <2>3. OnlyMoves(c)
        <3>1. guard[calls[c].device] = NoOne /\ guard' = [guard EXCEPT ![calls[c].device] = c]
            BY <1>3 DEF TakeGuard
        <3>. QED
            BY <1>1, <2>2, <3>1, Constants DEF OnlyMoves, TypeOK
    <2>. QED
        BY <1>1, <2>2, <2>3, QuietStep DEF Working, DeviceInv
<1>. QED
    BY <1>2, <1>3

\* What a working call would write is true, and covers what it left.
LEMMA CallRecordTrue ==
    ASSUME OpInv, DeviceInv, NEW c \in Callers, calls[c].step \in Working
    PROVE  /\ OnDeviceWork(c) /\ OnDevice(calls[c].op)
           /\ TrueOf(calls[c].op, calls[c].rec) /\ CoveredBy(calls[c].op, calls[c].rec)
           /\ TrueOf(calls[c].op, LockRisk(calls[c].rec)) /\ CoveredBy(calls[c].op, LockRisk(calls[c].rec))
<1> DEFINE o == calls[c].op
           r == calls[c].rec
<1>1. OnDeviceWork(c) /\ OnDevice(o) /\ Exists(r) /\ r \in OperationRecord
    BY WorkFacts DEF DeviceInv
<1>2. /\ LockRisk(r).state = r.state /\ LockRisk(r).config_lock_held = TRUE
      /\ Exists(LockRisk(r))
    BY <1>1, LockRiskOK
<1>3. TrueOf(o, r) /\ TrueOf(o, LockRisk(r))
    BY <1>1, <1>2 DEF TrueOf, OnDeviceWork
<1>4. (o \notin committed /\ InCandidate(o)) \/ HoldsLock(o) => ~terminal(r.state)
    BY <1>1 DEF OnDeviceWork, terminal
<1>5. CoveredBy(o, r) /\ CoveredBy(o, LockRisk(r))
    BY <1>1, <1>2, <1>4 DEF CoveredBy, Active, OnDeviceWork
<1>. QED
    BY <1>1, <1>3, <1>5

LEMMA WriteDevice ==
    ASSUME OpInv, DeviceInv, NEW c \in Callers, calls[c].step \in Working,
           NEW p \in OpIds, p = calls[c].op, NEW r, NEW outcome,
           update(p, r, outcome), TrueOf(p, r), CoveredBy(p, r), up,
           UNCHANGED <<up, device, minted, intents>>
    PROVE  /\ \A o \in OpIds : o # p => DeviceKeeps(o)
           /\ OnDevice(p)' /\ Owns(c, p)
           /\ InCandidate(p)' <=> InCandidate(p)
           /\ HoldsLock(p)' <=> HoldsLock(p)
<1> DEFINE next == [ops EXCEPT ![p] = r]
<1>1. p \in OpIds /\ minted[p] = calls[c].device /\ guard[calls[c].device] = c
      /\ ops \in [OpIds -> OperationRecord]
    BY WorkFacts DEF OpInv, TypeOK
<1>2. next[p] = r /\ \A o \in OpIds : o # p => next[o] = ops[o]
    BY <1>1
<1>3. ops' \in {ops, next} /\ file' \in {file, next}
    BY DEF update, persist_locked
<1> HIDE DEF next
<1>4. UNCHANGED <<candidate, running, lock, sent, committed>>
    BY DEF device
<1>5. \A o \in OpIds : o # p => DeviceKeeps(o)
    BY <1>2, <1>3, <1>4 DEF DeviceKeeps
<1>6. OnDevice(p)
    BY <1>1 DEF DeviceInv
<1>7. (InCandidate(p)' <=> InCandidate(p)) /\ (HoldsLock(p)' <=> HoldsLock(p))
    BY <1>4 DEF InCandidate, HoldsLock
<1>8. ops'[p] \in {ops[p], r} /\ file'[p] \in {file[p], r}
    BY <1>2, <1>3
<1>9. TrueOf(p, ops[p])' /\ TrueOf(p, file[p])'
    BY <1>4, <1>6, <1>7, <1>8 DEF TrueOf, OnDevice
<1>10. CoveredBy(p, ops[p])' /\ CoveredBy(p, file[p])'
    BY <1>4, <1>6, <1>7, <1>8 DEF CoveredBy, OnDevice
<1>11. OnDevice(p)'
    BY <1>4, <1>6, <1>9, <1>10 DEF OnDevice
<1>. QED
    BY <1>1, <1>5, <1>7, <1>11 DEF Owns

\* The call writes its record and returns.
LEMMA WriteReturnDevice ==
    ASSUME OpInv, DeviceInv, NEW c \in Callers, calls[c].step \in Working, NEW outcome,
           update(calls[c].op, calls[c].rec, outcome), up, Return(c),
           UNCHANGED <<up, device, minted, intents>>
    PROVE  DeviceInv'
<1>1. TypeOK
    BY DEF OpInv
<1>2. calls'[c].step \notin Working /\ calls'[c].kind = "idle" /\ OnlyMoves(c)
    BY <1>1, ReturnOK, IdleCallOK DEF Working
<1>3. PICK p \in OpIds : p = calls[c].op
    BY WorkFacts
<1>4. TrueOf(p, calls[c].rec) /\ CoveredBy(p, calls[c].rec)
    BY <1>3, CallRecordTrue
<1>5. (\A o \in OpIds : o # p => DeviceKeeps(o)) /\ OnDevice(p)' /\ Owns(c, p)
    BY <1>3, <1>4, WriteDevice
<1>. QED
    BY <1>2, <1>5, DeviceStep

LEMMA SettleDevice ==
    ASSUME OpInv, DeviceInv, NEW c \in Callers, Settle(c) \/ NoteAndReturnHandle(c)
    PROVE  DeviceInv'
<1>1. calls[c].step \in Working /\ up /\ UNCHANGED <<up, device, minted, intents>> /\ Return(c)
    BY DEF NoteAndReturnHandle, Settle, At, Working, Steps
<1>2. PICK outcome : update(calls[c].op, calls[c].rec, outcome)
    BY DEF NoteAndReturnHandle, Settle
<1>. QED
    BY <1>1, <1>2, WriteReturnDevice

LEMMA RecordRiskDevice ==
    ASSUME OpInv, DeviceInv, NEW c \in Callers, RecordRisk(c) \/ RecordTouch(c)
    PROVE  DeviceInv'
<1> DEFINE r == LockRisk(calls[c].rec)
<1>1. calls[c].step \in {"risk", "touch"} /\ up /\ calls[c].step \in Working
      /\ UNCHANGED <<up, guard, handles, device, minted, intents>>
    BY DEF RecordRisk, RecordTouch, At, Working, Steps
<1>0. PICK o \in OpIds : o = calls[c].op
    BY <1>1, WorkFacts
<1>2. /\ TypeOK /\ o \in OpIds /\ o \notin sent /\ End(c) \in Endpoints /\ ops[o].state = "Staging"
      /\ calls[c].rec \in OperationRecord /\ calls[c].rec.state = "Staging"
    BY <1>0, <1>1, WorkFacts DEF OpInv, WorkOK, BeforeStaged, StagingSteps
<1>3. r \in OperationRecord /\ r.state = "Staging" /\ r.config_lock_held = TRUE /\ r.current = calls[c].rec.current
    BY <1>2, LockRiskOK
<1>4. PICK outcome \in Outcomes, s \in {"lock", "check", "drop", "stage", "release"} :
        /\ update(o, r, outcome) /\ GoWith(c, s, r)
        /\ s = "lock" => outcome = "ok" /\ calls[c].step = "risk" /\ RequiresLock
        /\ s = "check" => outcome = "ok" /\ calls[c].step = "risk" /\ ~RequiresLock
        /\ s = "stage" => outcome = "ok" /\ calls[c].step = "touch"
        /\ s = "release" => calls[c].locked
        /\ s = "drop" => ~calls[c].locked \/ calls[c].step = "risk"
    <2>1. CASE RecordRisk(c)
        BY <1>0, <1>2, <2>1 DEF RecordRisk, At
    <2>2. CASE RecordTouch(c)
        BY <1>0, <1>2, <2>2 DEF RecordTouch, Untouched, At
    <2>. QED
        BY <2>1, <2>2
<1>5. OnDeviceWork(c) /\ TrueOf(o, r) /\ CoveredBy(o, r)
    BY <1>0, <1>1, CallRecordTrue
<1> HIDE DEF r
<1>6. /\ \A p \in OpIds : p # o => DeviceKeeps(p)
      /\ OnDevice(o)' /\ Owns(c, o)
      /\ (InCandidate(o)' <=> InCandidate(o)) /\ (HoldsLock(o)' <=> HoldsLock(o))
    BY <1>0, <1>1, <1>4, <1>5, WriteDevice
<1>7. Moves(c, s, r) /\ calls'[c].locked = calls[c].locked
    BY <1>2, <1>3, <1>4, GoWithMovesTo, GoWithOK DEF Steps
<1>8. /\ ops'[o] \in {ops[o], r} /\ file'[o] \in {file[o], r}
      /\ outcome = "ok" => ops'[o] = r /\ file'[o] = r
    BY <1>2, <1>4 DEF update, persist_locked, TypeOK
<1>9. UNCHANGED <<candidate, lock, sent, committed>> /\ End(c)' = End(c)
    BY <1>1, <1>7 DEF device, Moves, End
<1>10. OnDeviceWork(c)'
    BY <1>0, <1>1, <1>2, <1>3, <1>4, <1>5, <1>6, <1>7, <1>8, <1>9
    DEF OnDeviceWork, Moves, Reserved, Clean, BeforeTouch, BeforeStaged, StagingSteps
<1>11. OnlyMoves(c) /\ calls'[c].kind = calls[c].kind
    BY <1>1, <1>7, GoMoves DEF Moves
<1>. QED
    BY <1>1, <1>6, <1>10, <1>11, DeviceStep DEF DeviceInv

LEMMA RecordStagedDevice ==
    ASSUME OpInv, DeviceInv, NEW c \in Callers, RecordStaged(c)
    PROVE  DeviceInv'
<1> DEFINE r == calls[c].rec
           q == [calls[c].rec EXCEPT !.state = "Indeterminate"]
<1>1. calls[c].step = "staged" /\ up /\ calls[c].step \in Working
      /\ UNCHANGED <<up, device, minted, intents>>
    BY DEF RecordStaged, At, Working, Steps
<1>2. PICK o \in OpIds : o = calls[c].op
    BY <1>1, WorkFacts
<1>3. TypeOK /\ r \in OperationRecord /\ OnDeviceWork(c) /\ TrueOf(o, r) /\ CoveredBy(o, r)
    BY <1>1, <1>2, WorkFacts, CallRecordTrue DEF OpInv
<1>4. q \in OperationRecord /\ q.state = "Indeterminate" /\ q.config_lock_held = r.config_lock_held
    BY <1>3, StateEdit DEF LifecycleState
<1>5. PICK outcome \in Outcomes :
        /\ update(o, r, outcome)
        /\ \/ Return(c)
           \/ \E s \in {"settle", "note"} : GoWith(c, s, q) /\ UNCHANGED guard
    BY <1>2 DEF RecordStaged
<1>6. CASE Return(c)
    BY <1>1, <1>2, <1>5, <1>6, WriteReturnDevice
<1> HIDE DEF r, q
<1>7. ASSUME NEW s \in {"settle", "note"}, GoWith(c, s, q), UNCHANGED guard PROVE DeviceInv'
    <2>1. Moves(c, s, q) /\ calls'[c].locked = calls[c].locked
        BY <1>3, <1>4, <1>7, GoWithMovesTo, GoWithOK DEF Steps
    <2>2. /\ \A p \in OpIds : p # o => DeviceKeeps(p)
          /\ OnDevice(o)' /\ Owns(c, o)
          /\ (InCandidate(o)' <=> InCandidate(o)) /\ (HoldsLock(o)' <=> HoldsLock(o))
        BY <1>1, <1>2, <1>3, <1>5, WriteDevice
    <2>3. OnDeviceWork(c)'
        BY <1>1, <1>2, <1>3, <1>4, <1>7, <2>1, <2>2
        DEF OnDeviceWork, Moves, Reserved, Clean, BeforeTouch, BeforeStaged, StagingSteps, device, r
    <2>4. OnlyMoves(c) /\ calls'[c].kind = calls[c].kind
        BY <1>7, <2>1, GoMoves DEF Moves
    <2>. QED
        BY <1>1, <2>2, <2>3, <2>4, DeviceStep DEF DeviceInv
<1>. QED
    BY <1>5, <1>6, <1>7

LEMMA AnnounceDevice ==
    ASSUME OpInv, DeviceInv, NEW c \in Callers, Announce(c)
    PROVE  DeviceInv'
<1> DEFINE r == calls[c].rec
<1>1. /\ calls[c].step \in {"validating", "committing", "reverting", "reverted"} /\ up
      /\ calls[c].step \in Working /\ UNCHANGED <<up, handles, device, minted, intents>>
    BY RpcAfterOK DEF Announce, Working, Steps
<1>2. PICK o \in OpIds : o = calls[c].op
    BY <1>1, WorkFacts
<1>3. TypeOK /\ r \in OperationRecord /\ OnDeviceWork(c) /\ TrueOf(o, r) /\ CoveredBy(o, r)
    BY <1>1, <1>2, WorkFacts, CallRecordTrue DEF OpInv
<1>4. PICK outcome \in Outcomes :
        /\ update(o, r, outcome)
        /\ Return(c) \/ (Go(c, RpcAfter[calls[c].step]) /\ UNCHANGED guard)
    BY <1>2 DEF Announce
<1>5. CASE Return(c)
    BY <1>1, <1>2, <1>4, <1>5, WriteReturnDevice
<1>6. CASE Go(c, RpcAfter[calls[c].step]) /\ UNCHANGED guard
    <2> DEFINE s == RpcAfter[calls[c].step]
    <2>1. /\ s \in {"validate", "commit", "rollback", "unlock"}
          /\ s = "commit" => calls[c].step = "committing"
          /\ s = "unlock" => calls[c].step = "reverted"
        BY <1>1, RpcAfterOK
    <2>2. Go(c, s)
        BY <1>6
    <2> HIDE DEF s, r
    <2>3. Moves(c, s, r) /\ calls'[c].locked = calls[c].locked
        BY <1>3, <2>1, <2>2, GoMovesTo, GoOK DEF Steps, r
    <2>4. /\ \A p \in OpIds : p # o => DeviceKeeps(p)
          /\ OnDevice(o)' /\ Owns(c, o)
          /\ (InCandidate(o)' <=> InCandidate(o)) /\ (HoldsLock(o)' <=> HoldsLock(o))
        BY <1>1, <1>2, <1>3, <1>4, WriteDevice
    <2>5. OnDeviceWork(c)'
        BY <1>1, <1>2, <1>3, <2>1, <2>3, <2>4
        DEF OnDeviceWork, Moves, Reserved, Clean, BeforeTouch, BeforeStaged, StagingSteps, device, r
    <2>6. OnlyMoves(c) /\ calls'[c].kind = calls[c].kind
        BY <1>6, <2>3, GoMoves DEF Moves
    <2>. QED
        BY <1>1, <2>4, <2>5, <2>6, DeviceStep DEF DeviceInv
<1>. QED
    BY <1>4, <1>5, <1>6

\* The reservation goes when nothing of it is on the device.
LEMMA DropDevice == ASSUME OpInv, DeviceInv, NEW c \in Callers, Drop(c) PROVE DeviceInv'
<1>1. calls[c].step = "drop" /\ up /\ calls[c].step \in Working
      /\ UNCHANGED <<up, handles, candidate, running, lock, sent, committed, minted, intents>> /\ Return(c)
    BY DEF Drop, At, Working, Steps, device
<1>2. PICK o \in OpIds : o = calls[c].op
    BY <1>1, WorkFacts
<1> DEFINE next == [ops EXCEPT ![o] = NoRecord]
<1>3. /\ TypeOK /\ OnDeviceWork(c) /\ OnDevice(o) /\ Owns(c, o)
      /\ (calls[c].kind \in {"stage", "apply"} => calls[c].kind \in Entry)
    BY <1>1, <1>2, WorkFacts, CallRecordTrue DEF OpInv, Owns, DeviceInv
<1>4. ops' = next /\ file' \in {file, next}
    BY <1>2 DEF Drop, remove, persist_locked
<1>5. next[o] = NoRecord /\ \A p \in OpIds : p # o => next[p] = ops[p]
    BY <1>3 DEF TypeOK
<1> HIDE DEF next
<1>6. \A p \in OpIds : p # o => DeviceKeeps(p)
    BY <1>1, <1>4, <1>5 DEF DeviceKeeps
<1>7. o \notin committed /\ ~InCandidate(o) /\ (OnlyStages => ~HoldsLock(o))
    BY <1>1, <1>2, <1>3 DEF OnDeviceWork, Clean, StagingSteps, OnlyStages
<1>8. (InCandidate(o)' <=> InCandidate(o)) /\ (HoldsLock(o)' <=> HoldsLock(o))
    BY <1>1 DEF InCandidate, HoldsLock
<1>9. ops'[o] = NoRecord /\ file'[o] \in {file[o], NoRecord}
    BY <1>4, <1>5
<1>10. TrueOf(o, ops[o])' /\ TrueOf(o, file[o])'
    BY <1>1, <1>3, <1>7, <1>8, <1>9, NoRecordOK DEF TrueOf, OnDevice
<1>11. CoveredBy(o, ops[o])' /\ CoveredBy(o, file[o])'
    BY <1>1, <1>7, <1>8 DEF CoveredBy
<1>12. OnDevice(o)'
    BY <1>1, <1>3, <1>10, <1>11 DEF OnDevice
<1>13. calls'[c].step \notin Working /\ calls'[c].kind = "idle" /\ OnlyMoves(c)
    BY <1>1, <1>3, ReturnOK, IdleCallOK DEF Working
<1>. QED
    BY <1>1, <1>3, <1>6, <1>12, <1>13, DeviceStep

LEMMA ReserveRefusedDevice ==
    ASSUME OpInv, DeviceInv, NEW c \in Callers, ReserveRefused(c)
    PROVE  DeviceInv'
<1>1. /\ TypeOK /\ up /\ Return(c) /\ ops' = Evicted
      /\ UNCHANGED <<file, up, candidate, running, lock, sent, committed, minted, intents>>
    BY DEF ReserveRefused, At, device, OpInv
<1>2. \A p \in OpIds : Evicted[p] = ops[p] \/ (terminal(ops[p].state) /\ Evicted[p] = NoRecord)
    BY EvictedOK DEF OpInv
<1>3. \A p \in OpIds : DeviceKeeps(p)
    BY <1>1, <1>2 DEF DeviceKeeps, Active
<1>4. calls'[c].step \notin Working /\ calls'[c].kind = "idle" /\ OnlyMoves(c)
    BY <1>1, ReturnOK, IdleCallOK DEF Working
<1>5. NoOne \notin OpIds
    BY Constants
<1>. QED
    BY <1>1, <1>3, <1>4, <1>5, DeviceStep

LEMMA ClaimDevice == ASSUME OpInv, DeviceInv, NEW c \in Callers, Claim(c) PROVE DeviceInv'
<1>1. calls[c].step = "claim" /\ up /\ calls[c].step \in Working
      /\ UNCHANGED <<ops, up, guard, candidate, running, lock, sent, committed, minted, intents>>
    BY DEF Claim, At, Working, Steps, device
<1>2. PICK s \in {"risk", "drop"} : Go(c, s) /\ file' \in {file, ops}
    BY DEF Claim
<1>3. TypeOK /\ OnDeviceWork(c) /\ WorkOK(c)
    BY <1>1, WorkFacts, CallRecordTrue DEF OpInv
<1>4. Moves(c, s, calls[c].rec) /\ calls'[c].locked = calls[c].locked
    BY <1>2, <1>3, GoMovesTo, GoOK DEF Steps
<1>5. \A p \in OpIds : DeviceKeeps(p)
    BY <1>1, <1>2 DEF DeviceKeeps
<1>6. PICK o \in OpIds : o = calls[c].op
    BY <1>1, WorkFacts
<1>7. (InCandidate(o)' <=> InCandidate(o)) /\ (HoldsLock(o)' <=> HoldsLock(o))
    BY <1>1 DEF InCandidate, HoldsLock
<1>8. file'[o] \in {file[o], ops[o]} /\ ops[o].state = "Staging"
    BY <1>1, <1>2, <1>3, <1>6 DEF WorkOK, StagingSteps
<1>9. OnDeviceWork(c)'
    BY <1>1, <1>3, <1>4, <1>6, <1>7, <1>8
    DEF OnDeviceWork, Moves, Reserved, Clean, BeforeTouch, BeforeStaged, StagingSteps
<1>10. OnlyMoves(c) /\ calls'[c].kind = calls[c].kind
    BY <1>1, <1>4, GoMoves DEF Moves
<1>11. NoOne \notin OpIds
    BY Constants
<1>. QED
    BY <1>1, <1>5, <1>9, <1>10, <1>11, DeviceStep DEF DeviceInv

LEMMA ReserveDevice == ASSUME OpInv, DeviceInv, NEW c \in Callers, Reserve(c) PROVE DeviceInv'
<1> DEFINE r == StagingRecord(c)
           s == CASE calls[c].kind = "apply" -> "claim"
                  [] RequiresLock -> "risk"
                  [] OTHER -> "check"
<1>1. PICK o \in OpIds, outcome \in Outcomes :
        /\ At(c, "begin") /\ IsStaging(c)
        /\ minted[o] = NoOne
        /\ minted' = [minted EXCEPT ![o] = calls[c].device]
        /\ insert(o, r, outcome)
        /\ IF outcome = "ok"
           THEN /\ calls' = [calls EXCEPT ![c].op = o, ![c].rec = r, ![c].step = s]
                /\ UNCHANGED guard
           ELSE Return(c)
        /\ UNCHANGED <<up, handles, device, intents>>
    BY Zenon DEF Reserve
<1>2. UNCHANGED <<up, candidate, running, lock, sent, committed, intents>>
    BY <1>1 DEF device
<1>3. /\ TypeOK /\ calls[c] \in Call /\ calls[c].device \in Devices /\ calls[c].kind \in {"stage", "apply"}
      /\ calls[c].want \in Content /\ up /\ calls[c].kind \in Entry
    BY <1>1, BeginFacts DEF At, IsStaging, DeviceInv
<1>4. r.device = calls[c].device /\ r.state = "Staging" /\ r.current = calls[c].want
    BY DEF StagingRecord
<1>5. s \in {"claim", "risk", "check"} /\ (s = "check" => ~RequiresLock /\ calls[c].kind # "apply")
    BY Zenon
<1> HIDE DEF r, s
<1>6. Evicted \in [OpIds -> OperationRecord]
      /\ \A p \in OpIds : Evicted[p] = ops[p] \/ (terminal(ops[p].state) /\ Evicted[p] = NoRecord)
    BY EvictedOK DEF OpInv
<1> DEFINE next == [Evicted EXCEPT ![o] = r]
<1>7. next[o] = r /\ \A p \in OpIds : p # o => next[p] = Evicted[p]
    BY <1>6
<1>8. /\ ops' \in {next, Evicted} /\ file' \in {file, next}
      /\ outcome = "ok" => ops' = next /\ file' = next
    BY <1>1 DEF insert, persist_locked
<1> HIDE DEF next
<1>9. ASSUME NEW p \in OpIds, p # o PROVE DeviceKeeps(p)
    <2>1. minted'[p] = minted[p]
        BY <1>1, <1>3, <1>9 DEF TypeOK
    <2>2. CASE Evicted[p] = ops[p]
        BY <1>2, <1>7, <1>8, <1>9, <2>1, <2>2 DEF DeviceKeeps
    <2>3. CASE terminal(ops[p].state) /\ Evicted[p] = NoRecord
        <3>1. ~Active(ops[p]) /\ ops[p].state # "Staging"
            BY <2>3 DEF Active, terminal
        <3>2. ops'[p] = NoRecord /\ file'[p] \in {file[p], NoRecord}
            BY <1>7, <1>8, <1>9, <2>3
        <3>. QED
            BY <1>2, <2>1, <3>1, <3>2 DEF DeviceKeeps
    <2>. QED
        BY <1>6, <2>2, <2>3
<1>10. /\ \A e \in Endpoints : lock[e] # o /\ candidate[e] # o /\ running[e] # o
       /\ o \notin committed /\ o \notin sent /\ minted[o] \notin Devices
    BY <1>1, Constants DEF DeviceInv, OnDevice
<1>11. ~InCandidate(o)' /\ ~HoldsLock(o)' /\ o \notin committed' /\ o \notin sent'
    BY <1>2, <1>10 DEF InCandidate, HoldsLock
<1>12. OnDevice(o)'
    <2>1. ops'[o] \in {r, Evicted[o]} /\ file'[o] \in {file[o], r}
        BY <1>7, <1>8
    <2>2. ~Exists(ops[o]) /\ ~Exists(file[o])
        BY <1>10 DEF OpInv, StoreOK
    <2>3. ops'[o].state \in {"Staging", "Absent"} /\ file'[o].state \in {"Staging", "Absent"}
        <3>1. Evicted[o].state = "Absent"
            BY <1>6, <2>2, NoRecordOK DEF Exists
        <3>. QED
            BY <1>4, <2>1, <2>2, <3>1 DEF Exists
    <2>4. TrueOf(o, ops[o])' /\ TrueOf(o, file[o])'
        BY <1>11, <2>3 DEF TrueOf
    <2>5. CoveredBy(o, ops[o])' /\ CoveredBy(o, file[o])'
        BY <1>11 DEF CoveredBy
    <2>. QED
        BY <1>2, <1>10, <1>11, <2>4, <2>5 DEF OnDevice
<1>13. Owns(c, o)
    BY <1>1 DEF Owns
<1>14. CASE outcome # "ok"
    <2>1. calls'[c].step \notin Working /\ calls'[c].kind = "idle" /\ OnlyMoves(c)
        BY <1>1, <1>3, <1>14, ReturnOK, IdleCallOK DEF Working
    <2>. QED
        BY <1>3, <1>9, <1>12, <1>13, <2>1, DeviceStep
<1>15. CASE outcome = "ok"
    <2> DEFINE k == [calls[c] EXCEPT !.op = o, !.rec = r, !.step = s]
    <2>1. calls' = [calls EXCEPT ![c] = k] /\ UNCHANGED guard
        <3>1. calls' = [calls EXCEPT ![c].op = o, ![c].rec = r, ![c].step = s] /\ UNCHANGED guard
            BY <1>1, <1>15, Zenon
        <3>. QED
            BY <1>3, <3>1 DEF TypeOK
    <2>2. k.op = o /\ k.rec = r /\ k.step = s /\ k.kind = calls[c].kind /\ k.want = calls[c].want
        BY <1>3 DEF Call
    <2> HIDE DEF k
    <2>3. calls'[c] = k /\ \A j \in Callers : j # c => calls'[j] = calls[j]
        BY <1>3, <2>1 DEF TypeOK
    <2>4. ops'[o] = r /\ file'[o] = r
        BY <1>7, <1>8, <1>15
    <2>5. OnDeviceWork(c)'
        BY <1>3, <1>4, <1>5, <1>11, <2>2, <2>3, <2>4
        DEF OnDeviceWork, Reserved, Clean, BeforeTouch, BeforeStaged, StagingSteps
    <2>6. OnlyMoves(c)
        BY <2>1, <2>3, GoMoves
    <2>. QED
        BY <1>3, <1>9, <1>12, <1>13, <2>2, <2>3, <2>5, <2>6, DeviceStep
<1>. QED
    BY <1>14, <1>15

\* A working call moves on; nothing else changes.
LEMMA QuietWork ==
    ASSUME OpInv, DeviceInv, NEW c \in Callers, up,
           NEW s, NEW r, Moves(c, s, r), UNCHANGED <<store, guard, device, minted>>,
           intents \subseteq intents', s \in Working => OnDeviceWork(c)'
    PROVE  DeviceInv'
<1>1. calls'[c].step = s /\ calls'[c].kind = calls[c].kind
    BY DEF Moves
<1>2. OnlyMoves(c)
    BY GoMoves DEF Moves
<1>. QED
    BY <1>1, <1>2, QuietStep DEF store, device, DeviceInv

LEMMA CheckDevice ==
    ASSUME OpInv, DeviceInv, NEW c \in Callers, CheckFingerprint(c)
    PROVE  DeviceInv'
<1>1. calls[c].step = "check" /\ up /\ calls[c].step \in Working
      /\ UNCHANGED <<store, up, guard, handles, device, faults, minted, intents>>
    BY DEF CheckFingerprint, At, Working, Steps
<1>2. TypeOK /\ OnDeviceWork(c) /\ WorkOK(c) /\ calls[c].rec \in OperationRecord
    BY <1>1, WorkFacts, CallRecordTrue DEF OpInv
<1>3. PICK s \in {"touch", "stage", "release", "drop"} :
        /\ Go(c, s)
        /\ s \in {"touch", "stage"} => Unmoved(c)
        /\ s = "touch" => calls[c].kind = "stage"
        /\ s = "stage" => calls[c].kind # "stage"
        /\ s = "drop" => ~calls[c].locked
    BY DEF CheckFingerprint, Untouched
<1>4. Moves(c, s, calls[c].rec) /\ calls'[c].locked = calls[c].locked
    BY <1>2, <1>3, GoMovesTo, GoOK DEF Steps
<1>5. PICK o \in OpIds : o = calls[c].op
    BY <1>1, WorkFacts
<1>6. (InCandidate(o)' <=> InCandidate(o)) /\ (HoldsLock(o)' <=> HoldsLock(o))
    BY <1>1 DEF InCandidate, HoldsLock, device
<1>7. UNCHANGED <<ops, file, candidate, lock, sent, committed>> /\ End(c)' = End(c)
    BY <1>1, <1>4 DEF store, device, Moves, End
<1>8. OnDeviceWork(c)'
    BY <1>1, <1>2, <1>3, <1>4, <1>5, <1>6, <1>7
    DEF OnDeviceWork, Moves, Reserved, Clean, BeforeTouch, BeforeStaged, StagingSteps, Unmoved
<1>. QED
    BY <1>1, <1>4, <1>8, QuietWork

LEMMA ReadAfterDevice == ASSUME OpInv, DeviceInv, NEW c \in Callers, ReadAfter(c) PROVE DeviceInv'
<1>1. calls[c].step = "after" /\ up /\ calls[c].step \in Working
      /\ UNCHANGED <<store, up, guard, handles, device, faults, minted, intents>>
    BY DEF ReadAfter, At, Working, Steps
<1>2. /\ TypeOK /\ OnDeviceWork(c) /\ WorkOK(c) /\ calls[c].rec \in OperationRecord
      /\ End(c) \in Endpoints /\ DeviceOK
    BY <1>1, WorkFacts, CallRecordTrue, DeviceTyped DEF OpInv
<1> DEFINE r == [calls[c].rec EXCEPT !.state = "Indeterminate"]
           q == [calls[c].rec EXCEPT !.state = "Staged", !.current = candidate[End(c)]]
<1>3. r \in OperationRecord /\ r.state = "Indeterminate" /\ r.config_lock_held = calls[c].rec.config_lock_held
    BY <1>2, StateEdit DEF LifecycleState
<1>4. q \in OperationRecord
    <2>1. candidate[End(c)] \in Content /\ "Staged" \in LifecycleState \cup {"Absent"}
        BY <1>2 DEF DeviceOK, LifecycleState
    <2>. QED
        BY <1>2, <2>1, Zenon DEF OperationRecord
<1>5. q.state = "Staged" /\ q.config_lock_held = calls[c].rec.config_lock_held
    BY <1>2 DEF OperationRecord
<1>6. GoWith(c, "staged", q) \/ GoWith(c, "settle", r)
    BY DEF ReadAfter
<1> HIDE DEF r, q
<1>7. PICK s \in {"staged", "settle"}, n \in {q, r} :
        /\ Moves(c, s, n) /\ calls'[c].locked = calls[c].locked
    BY <1>2, <1>3, <1>4, <1>6, GoWithMovesTo, GoWithOK DEF Steps
<1>8. n.state \in {"Staged", "Indeterminate"} /\ n.config_lock_held = calls[c].rec.config_lock_held
    BY <1>3, <1>5
<1>9. PICK o \in OpIds : o = calls[c].op
    BY <1>1, WorkFacts
<1>10. (InCandidate(o)' <=> InCandidate(o)) /\ (HoldsLock(o)' <=> HoldsLock(o))
    BY <1>1 DEF InCandidate, HoldsLock, device
<1>11. UNCHANGED <<ops, file, candidate, lock, sent, committed>>
    BY <1>1 DEF store, device
<1>12. OnDeviceWork(c)'
    BY <1>1, <1>2, <1>7, <1>8, <1>9, <1>10, <1>11
    DEF OnDeviceWork, Moves, Reserved, Clean, BeforeTouch, BeforeStaged, StagingSteps
<1>. QED
    BY <1>1, <1>7, <1>12, QuietWork

\* A later call takes up the record it re-read under the guard.
LEMMA StartDevice ==
    ASSUME OpInv, DeviceInv, NEW c \in Callers, calls[c].step = "begin", up,
           calls[c].kind \in {"validate", "commit", "discard"},
           Exists(ops[calls[c].op]), ops[calls[c].op].state \notin Undiscardable,
           NEW s \in {"validating", "committing", "reverting"},
           NEW st \in {"Validating", "Committing", "Indeterminate"},
           GoWith(c, s, [ops[calls[c].op] EXCEPT !.state = st]),
           intents \subseteq intents', s = "committing" => calls[c].op \in intents',
           UNCHANGED <<store, up, guard, device, minted>>
    PROVE  DeviceInv'
<1>1. TypeOK /\ CallOK(c)
    BY BeginFacts
<1>2. PICK o \in OpIds : o = calls[c].op
    BY <1>1 DEF CallOK
<1> DEFINE r == [ops[o] EXCEPT !.state = st]
<1>3. ops[o] \in OperationRecord /\ st \in LifecycleState
    BY <1>1 DEF TypeOK, LifecycleState
<1>4. r \in OperationRecord /\ r.state = st /\ r.config_lock_held = ops[o].config_lock_held
    BY <1>3, StateEdit
<1> HIDE DEF r
<1>5. Moves(c, s, r) /\ calls'[c].locked = calls[c].locked
    BY <1>1, <1>2, <1>4, GoWithMovesTo, GoWithOK DEF Steps, r
<1>6. OnDevice(o) /\ TrueOf(o, ops[o])
    BY DEF DeviceInv, OnDevice
<1>7. o \notin committed
    BY <1>2, <1>6 DEF TrueOf, Undiscardable, Exists
<1>8. OnlyStages /\ HoldsLock(o) => r.config_lock_held
    BY <1>4, <1>6 DEF OnDevice, CoveredBy
<1>9. (InCandidate(o)' <=> InCandidate(o)) /\ (HoldsLock(o)' <=> HoldsLock(o))
    BY DEF InCandidate, HoldsLock, device
<1>10. OnDeviceWork(c)'
    BY <1>2, <1>4, <1>5, <1>7, <1>8, <1>9
    DEF OnDeviceWork, Moves, Reserved, Clean, BeforeTouch, BeforeStaged, StagingSteps, store, device
<1>. QED
    BY <1>5, <1>10, QuietWork

LEMMA StartsDevice ==
    ASSUME OpInv, DeviceInv, NEW c \in Callers, StartValidate(c) \/ StartCommit(c) \/ StartDiscard(c)
    PROVE  DeviceInv'
<1> DEFINE o == ops[calls[c].op]
<1>1. CASE StartValidate(c)
    <2>1. /\ calls[c].step = "begin" /\ up /\ calls[c].kind = "validate" /\ o.state = "Staged"
          /\ Exists(o) /\ GoWith(c, "validating", [o EXCEPT !.state = "Validating"])
          /\ UNCHANGED <<store, up, guard, handles, device, faults, minted, intents>>
        BY <1>1 DEF StartValidate, Reread, At, Unchanged
    <2>. QED
        BY <2>1, StartDevice DEF Undiscardable
<1>2. CASE StartCommit(c)
    <2>1. /\ calls[c].step = "begin" /\ up /\ calls[c].kind = "commit" /\ o.state = "Validated"
          /\ Exists(o) /\ GoWith(c, "committing", [o EXCEPT !.state = "Committing"])
          /\ UNCHANGED <<store, up, guard, handles, device, faults, minted>>
          /\ intents' = intents \cup {calls[c].op}
        BY <1>2 DEF StartCommit, Reread, At, Unchanged, RecordIntent
    <2>. QED
        BY <2>1, StartDevice DEF Undiscardable
<1>3. CASE StartDiscard(c)
    <2>1. /\ calls[c].step = "begin" /\ up /\ calls[c].kind = "discard" /\ o.state \notin Undiscardable
          /\ Exists(o) /\ GoWith(c, "reverting", [o EXCEPT !.state = "Indeterminate"])
          /\ UNCHANGED <<store, up, guard, handles, device, faults, minted, intents>>
        BY <1>3 DEF StartDiscard, Reread, At, Unchanged
    <2>. QED
        BY <2>1, StartDevice
<1>. QED
    BY <1>1, <1>2, <1>3

LEMMA ValidateRpcDevice ==
    ASSUME OpInv, DeviceInv, NEW c \in Callers, ValidateRpc(c)
    PROVE  DeviceInv'
<1>1. calls[c].step = "validate" /\ up /\ calls[c].step \in Working
      /\ UNCHANGED <<store, up, guard, handles, device, faults, minted, intents>>
    BY DEF ValidateRpc, At, Working, Steps
<1>2. TypeOK /\ OnDeviceWork(c) /\ calls[c].rec \in OperationRecord
    BY <1>1, WorkFacts, CallRecordTrue DEF OpInv
<1>3. PICK v \in {"Validated", "Failed"} : GoWith(c, "settle", [calls[c].rec EXCEPT !.state = v])
    BY DEF ValidateRpc
<1> DEFINE r == [calls[c].rec EXCEPT !.state = v]
<1>4. v \in LifecycleState
    BY DEF LifecycleState
<1>5. r \in OperationRecord /\ r.state = v /\ r.config_lock_held = calls[c].rec.config_lock_held
    BY <1>2, <1>4, StateEdit
<1> HIDE DEF r
<1>6. Moves(c, "settle", r) /\ calls'[c].locked = calls[c].locked
    BY <1>2, <1>3, <1>5, GoWithMovesTo, GoWithOK DEF Steps, r
<1>7. PICK o \in OpIds : o = calls[c].op
    BY <1>1, WorkFacts
<1>8. (InCandidate(o)' <=> InCandidate(o)) /\ (HoldsLock(o)' <=> HoldsLock(o))
    BY <1>1 DEF InCandidate, HoldsLock, device
<1>9. OnDeviceWork(c)'
    BY <1>1, <1>2, <1>5, <1>6, <1>7, <1>8
    DEF OnDeviceWork, Moves, Reserved, Clean, BeforeTouch, BeforeStaged, StagingSteps, store, device
<1>. QED
    BY <1>1, <1>6, <1>9, QuietWork

LEMMA ReadRevertedDevice ==
    ASSUME OpInv, DeviceInv, NEW c \in Callers, ReadReverted(c)
    PROVE  DeviceInv'
<1>1. calls[c].step = "reread" /\ up /\ calls[c].step \in Working
      /\ UNCHANGED <<store, up, guard, handles, device, faults, minted, intents>>
    BY DEF ReadReverted, At, Working, Steps
<1>2. /\ TypeOK /\ OnDeviceWork(c) /\ calls[c].rec \in OperationRecord
      /\ End(c) \in Endpoints /\ DeviceOK
    BY <1>1, WorkFacts, CallRecordTrue, DeviceTyped DEF OpInv
<1> DEFINE r == [calls[c].rec EXCEPT !.state = "Indeterminate"]
           q == [calls[c].rec EXCEPT !.current = candidate[End(c)]]
<1>3. r \in OperationRecord /\ r.state = "Indeterminate" /\ r.config_lock_held = calls[c].rec.config_lock_held
    BY <1>2, StateEdit DEF LifecycleState
<1>4. q \in OperationRecord
    <2>1. candidate[End(c)] \in Content
        BY <1>2 DEF DeviceOK
    <2>. QED
        BY <1>2, <2>1, Zenon DEF OperationRecord
<1>5. q.state = calls[c].rec.state /\ q.config_lock_held = calls[c].rec.config_lock_held
    BY <1>2 DEF OperationRecord
<1>6. GoWith(c, "settle", q) \/ GoWith(c, "settle", r)
    BY DEF ReadReverted
<1> HIDE DEF r, q
<1>7. PICK n \in {q, r} : Moves(c, "settle", n) /\ calls'[c].locked = calls[c].locked
    BY <1>2, <1>3, <1>4, <1>6, GoWithMovesTo, GoWithOK DEF Steps
<1>8. n.state \in {calls[c].rec.state, "Indeterminate"} /\ n.config_lock_held = calls[c].rec.config_lock_held
    BY <1>3, <1>5
<1>9. PICK o \in OpIds : o = calls[c].op
    BY <1>1, WorkFacts
<1>10. (InCandidate(o)' <=> InCandidate(o)) /\ (HoldsLock(o)' <=> HoldsLock(o))
    BY <1>1 DEF InCandidate, HoldsLock, device
<1>11. OnDeviceWork(c)'
    BY <1>1, <1>2, <1>7, <1>8, <1>9, <1>10
    DEF OnDeviceWork, Moves, Reserved, Clean, BeforeTouch, BeforeStaged, StagingSteps, store, device
<1>. QED
    BY <1>1, <1>7, <1>11, QuietWork
----------------------------------------------------------------------------
(* RPCs *)

\* What another operation has at the device is not where this call works.
LEMMA OtherEndpoint ==
    ASSUME OpInv, NEW c \in Callers, calls[c].step \in Working, NEW p \in OpIds, p = calls[c].op,
           NEW o \in OpIds, o # p, ops[o].state = "Staging", OnDevice(o)
    PROVE  \A e \in Endpoints : lock[e] = o => e # End(c)
<1>1. Active(ops[o]) /\ Exists(ops[o])
    BY DEF Active, Exists, terminal
<1>2. Active(ops[p]) /\ ops[p].device = calls[c].device
    BY WorkFacts
<1>3. EndpointOf[ops[o].device] # EndpointOf[ops[p].device] /\ ops[o].device = minted[o]
    BY <1>1, <1>2 DEF OpInv, StoreOK
<1>. QED
    BY <1>2, <1>3 DEF OnDevice, End

\* An RPC about p at the endpoint of the call, which writes no record.
LEMMA RpcKeeps ==
    ASSUME OpInv, DeviceInv, NEW c \in Callers, calls[c].step \in Working, NEW p \in OpIds, p = calls[c].op,
           UNCHANGED <<ops, file, minted, intents>>,
           \A e \in Endpoints : e # End(c) => candidate'[e] = candidate[e] /\ lock'[e] = lock[e]
                                              /\ running'[e] = running[e],
           candidate'[End(c)] \in {candidate[End(c)], running[End(c)], p},
           lock'[End(c)] \in {lock[End(c)], p, NoOne},
           lock[End(c)] \notin {p, NoOne} => lock'[End(c)] = lock[End(c)],
           running'[End(c)] = running[End(c)]
             \/ (running'[End(c)] = candidate[End(c)] /\ calls[c].step = "commit"),
           committed' \in {committed, committed \cup {p}}, sent' \in {sent, sent \cup {p}}
    PROVE  \A o \in OpIds : o # p => DeviceKeeps(o)
<1> SUFFICES ASSUME NEW o \in OpIds, o # p PROVE DeviceKeeps(o)
    OBVIOUS
<1>1. OnDevice(o) /\ End(c) \in Endpoints /\ o # NoOne
    BY WorkFacts, Constants DEF DeviceInv
<1>2. ASSUME NEW e \in Endpoints, running'[e] = o PROVE running[e] = o \/ (candidate[e] = o /\ o \in committed)
    <2>1. CASE running'[e] = running[e]
        BY <1>2, <2>1
    <2>2. CASE e = End(c) /\ running'[e] = candidate[e] /\ calls[c].step = "commit"
        <3>1. file[p].state = "Committing" /\ minted[p] = calls[c].device
            BY <2>2, WorkFacts DEF WorkOK
        <3>2. Active(file[p]) /\ Exists(file[p])
            BY <3>1 DEF Active, Exists, terminal
        <3>3. file[p].device = calls[c].device
            BY <3>1, <3>2 DEF OpInv, StoreOK
        <3>4. candidate[e] = o /\ e = EndpointOf[minted[o]]
            BY <1>1, <1>2, <2>2 DEF OnDevice
        <3>5. ASSUME o \notin committed PROVE FALSE
            <4>1. InCandidate(o)
                BY <3>4 DEF InCandidate
            <4>2. Active(file[o]) /\ Exists(file[o])
                BY <1>1, <3>5, <4>1, ActiveExists DEF OnDevice, CoveredBy
            <4>3. file[o].device = minted[o]
                BY <4>2 DEF OpInv, StoreOK
            <4>4. EndpointOf[file[o].device] = e /\ EndpointOf[file[p].device] = e
                BY <2>2, <3>3, <3>4, <4>3 DEF End
            <4>. QED
                BY <3>2, <4>2, <4>4 DEF OpInv, StoreOK
        <3>. QED
            BY <3>4, <3>5
    <2>. QED
        BY <1>1, <2>1, <2>2
<1>3. ASSUME NEW e \in Endpoints, lock'[e] = o PROVE lock[e] = o
    BY <1>1, <1>3
<1>4. ASSUME NEW e \in Endpoints, candidate'[e] = o PROVE candidate[e] = o \/ running[e] = o
    BY <1>4
<1>5. ASSUME ops[o].state = "Staging", NEW e \in Endpoints, lock[e] = o
      PROVE  lock'[e] = o /\ candidate'[e] = candidate[e]
    BY <1>1, <1>5, OtherEndpoint
<1>. QED
    BY <1>2, <1>3, <1>4, <1>5 DEF DeviceKeeps

LEMMA UnlockedAt ==
    ASSUME DeviceOK, NEW f \in Endpoints, NEW p \in OpIds
    PROVE  /\ \A e \in Endpoints : e # f => Unlocked(f, p)[e] = lock[e]
           /\ Unlocked(f, p)[f] = (IF lock[f] = p THEN NoOne ELSE lock[f])
           /\ Unlocked(f, p)[f] # p
BY Constants DEF Unlocked, DeviceOK

\* The call's operation is nowhere but at the call's endpoint.
LEMMA OwnPlace ==
    ASSUME OpInv, DeviceInv, NEW c \in Callers, calls[c].step \in Working, NEW p \in OpIds, p = calls[c].op
    PROVE  /\ OnDevice(p) /\ OnDeviceWork(c) /\ WorkOK(c) /\ TypeOK /\ DeviceOK /\ End(c) \in Endpoints
           /\ minted[p] \in Devices /\ End(c) = EndpointOf[minted[p]] /\ Owns(c, p)
           /\ \A e \in Endpoints : e # End(c) => lock[e] # p /\ candidate[e] # p /\ running[e] # p
<1>1. /\ OnDevice(p) /\ OnDeviceWork(c) /\ WorkOK(c) /\ TypeOK /\ DeviceOK /\ End(c) \in Endpoints
      /\ minted[p] \in Devices /\ End(c) = EndpointOf[minted[p]]
    BY WorkFacts, CallRecordTrue, DeviceTyped DEF OpInv, End
<1>2. Owns(c, p)
    BY WorkFacts DEF Owns
<1>. QED
    BY <1>1, <1>2 DEF OnDevice

LEMMA TakeDeviceLockDevice ==
    ASSUME OpInv, DeviceInv, NEW c \in Callers, TakeDeviceLock(c)
    PROVE  DeviceInv'
<1>1. calls[c].step = "lock" /\ up /\ calls[c].step \in Working
      /\ UNCHANGED <<ops, file, up, guard, handles, candidate, running, sent, committed, faults, minted, intents>>
    BY DEF TakeDeviceLock, At, Working, Steps, store
<1>2. PICK p \in OpIds : p = calls[c].op
    BY <1>1, WorkFacts
<1>3. /\ OnDevice(p) /\ OnDeviceWork(c) /\ WorkOK(c) /\ TypeOK /\ DeviceOK /\ End(c) \in Endpoints
      /\ minted[p] \in Devices /\ End(c) = EndpointOf[minted[p]] /\ Owns(c, p)
      /\ \A e \in Endpoints : e # End(c) => lock[e] # p /\ candidate[e] # p /\ running[e] # p
    BY <1>1, <1>2, OwnPlace
<1>4. CASE Go(c, "drop") /\ UNCHANGED lock
    <2>1. Moves(c, "drop", calls[c].rec) /\ calls'[c].locked = calls[c].locked
        BY <1>3, <1>4, GoMovesTo, GoOK DEF Steps
    <2>2. (InCandidate(p)' <=> InCandidate(p)) /\ (HoldsLock(p)' <=> HoldsLock(p))
        BY <1>1, <1>4 DEF InCandidate, HoldsLock
    <2>3. OnDeviceWork(c)'
        BY <1>1, <1>2, <1>3, <2>1, <2>2
        DEF OnDeviceWork, Moves, Reserved, Clean, BeforeTouch, BeforeStaged, StagingSteps
    <2>. QED
        BY <1>1, <1>4, <2>1, <2>3, QuietWork DEF store, device
<1>5. CASE /\ lock[End(c)] = NoOne
           /\ lock' = [lock EXCEPT ![End(c)] = p]
           /\ calls' = [calls EXCEPT ![c].step = "check", ![c].locked = TRUE]
    <2> DEFINE k == [calls[c] EXCEPT !.step = "check", !.locked = TRUE]
    <2>1. calls[c] \in Call /\ calls \in [Callers -> Call]
        BY <1>3 DEF TypeOK
    <2>2. k.step = "check" /\ k.kind = calls[c].kind /\ k.op = calls[c].op /\ k.locked = TRUE
          /\ k.device = calls[c].device /\ k.want = calls[c].want /\ k.rec = calls[c].rec
        BY <2>1 DEF Call
    <2>3. calls' = [calls EXCEPT ![c] = k]
        BY <1>5, <2>1
    <2> HIDE DEF k
    <2>4. calls'[c] = k /\ \A j \in Callers : j # c => calls'[j] = calls[j]
        BY <2>1, <2>3
    <2>5. lock'[End(c)] = p /\ \A e \in Endpoints : e # End(c) => lock'[e] = lock[e]
        BY <1>3, <1>5 DEF DeviceOK
    <2>6. \A o \in OpIds : o # p => DeviceKeeps(o)
        BY <1>1, <1>2, <1>5, <2>5, RpcKeeps
    <2>7. InCandidate(p)' <=> InCandidate(p)
        BY <1>1 DEF InCandidate
    <2>8. /\ ops[p].state = "Staging" /\ file[p].state = "Staging" /\ p \notin committed /\ p \notin sent
          /\ ops[p].config_lock_held /\ file[p].config_lock_held /\ calls[c].rec.config_lock_held
          /\ calls[c].rec.state = "Staging"
        BY <1>1, <1>2, <1>3 DEF WorkOK, OnDeviceWork, Reserved, StagingSteps, BeforeStaged
    <2>9. Active(ops[p]) /\ Active(file[p])
        BY <2>8 DEF Active, Exists, terminal
    <2>10. OnDevice(p)'
        <3>1. TrueOf(p, ops[p])' /\ TrueOf(p, file[p])'
            BY <1>1, <2>8 DEF TrueOf
        <3>2. CoveredBy(p, ops[p])' /\ CoveredBy(p, file[p])'
            BY <1>1, <2>8, <2>9 DEF CoveredBy
        <3>3. \A e \in Endpoints : lock'[e] = p => e = End(c)
            BY <1>3, <2>5
        <3>. QED
            BY <1>1, <1>3, <3>1, <3>2, <3>3 DEF OnDevice
    <2>11. End(c)' = End(c)
        BY <2>2, <2>4 DEF End
    <2>12. OnDeviceWork(c)'
        BY <1>1, <1>2, <1>3, <2>2, <2>4, <2>5, <2>7, <2>8, <2>11
        DEF OnDeviceWork, Reserved, Clean, BeforeTouch, BeforeStaged, StagingSteps
    <2>13. OnlyMoves(c)
        BY <1>1, <2>4, GoMoves
    <2>. QED
        BY <1>1, <1>3, <2>2, <2>4, <2>6, <2>10, <2>12, <2>13, DeviceStep DEF DeviceInv
<1>. QED
    BY <1>2, <1>4, <1>5 DEF TakeDeviceLock

\* A working call moves on after an RPC about its operation.
LEMMA RpcStep ==
    ASSUME OpInv, DeviceInv, NEW c \in Callers, up, NEW p \in OpIds, Owns(c, p),
           NEW s, NEW r, Moves(c, s, r), UNCHANGED guard,
           \A o \in OpIds : o # p => DeviceKeeps(o), OnDevice(p)', OnDeviceWork(c)'
    PROVE  DeviceInv'
<1>1. OnlyMoves(c) /\ calls'[c].kind = calls[c].kind
    BY GoMoves DEF Moves
<1>. QED
    BY <1>1, DeviceStep DEF DeviceInv

LEMMA StageRpcDevice ==
    ASSUME AllOrNone, OpInv, DeviceInv, NEW c \in Callers, StageRpc(c)
    PROVE  DeviceInv'
<1> DEFINE f == End(c)
           r == [calls[c].rec EXCEPT !.state = "Indeterminate"]
<1>1. calls[c].step = "stage" /\ up /\ calls[c].step \in Working
      /\ UNCHANGED <<ops, file, up, guard, handles, running, sent, committed, faults, minted, intents>>
    BY DEF StageRpc, At, Working, Steps, store
<1>2. PICK p \in OpIds : p = calls[c].op
    BY <1>1, WorkFacts
<1>3. /\ OnDevice(p) /\ OnDeviceWork(c) /\ WorkOK(c) /\ TypeOK /\ DeviceOK /\ f \in Endpoints
      /\ minted[p] \in Devices /\ f = EndpointOf[minted[p]] /\ Owns(c, p)
      /\ \A e \in Endpoints : e # f => lock[e] # p /\ candidate[e] # p /\ running[e] # p
    BY <1>1, <1>2, OwnPlace
<1>4. /\ ops[p].state = "Staging" /\ file[p].state = "Staging" /\ p \notin committed /\ p \notin sent
      /\ ops[p].config_lock_held /\ file[p].config_lock_held /\ calls[c].rec.config_lock_held
      /\ calls[c].rec.state = "Staging" /\ calls[c].rec \in OperationRecord
      /\ calls[c].kind \in {"stage", "apply"} /\ calls[c].kind \in Entry
    BY <1>1, <1>2, <1>3, WorkFacts
    DEF WorkOK, OnDeviceWork, Reserved, StagingSteps, BeforeStaged, DeviceInv
<1>5. r \in OperationRecord /\ r.state = "Indeterminate" /\ r.config_lock_held = calls[c].rec.config_lock_held
    BY <1>4, StateEdit DEF LifecycleState
<1>6. /\ candidate' \in {candidate, [candidate EXCEPT ![f] = p]}
      /\ lock' = lock \/ (lock[f] = NoOne /\ lock' = [lock EXCEPT ![f] = p])
      /\ \/ Go(c, "after")
         \/ GoWith(c, "settle", r)
         \/ Go(c, "drop") /\ calls[c].kind # "stage" /\ (candidate' = candidate \/ TaintedStage)
    BY <1>2 DEF StageRpc, AfterFailedStage
<1> HIDE DEF r
<1>7. /\ \A e \in Endpoints : e # f => candidate'[e] = candidate[e] /\ lock'[e] = lock[e]
      /\ candidate'[f] \in {candidate[f], p} /\ lock'[f] \in {lock[f], p}
      /\ lock[f] # NoOne => lock'[f] = lock[f]
    BY <1>3, <1>6 DEF DeviceOK
<1>8. \A o \in OpIds : o # p => DeviceKeeps(o)
    BY <1>1, <1>2, <1>7, RpcKeeps
<1>9. Active(ops[p]) /\ Active(file[p])
    BY <1>4 DEF Active, Exists, terminal
<1>10. OnDevice(p)'
    <2>1. TrueOf(p, ops[p])' /\ TrueOf(p, file[p])'
        BY <1>1, <1>4 DEF TrueOf
    <2>2. CoveredBy(p, ops[p])' /\ CoveredBy(p, file[p])'
        BY <1>1, <1>4, <1>9 DEF CoveredBy
    <2>3. \A e \in Endpoints : lock'[e] = p \/ candidate'[e] = p \/ running'[e] = p => e = f
        BY <1>1, <1>3, <1>7
    <2>. QED
        BY <1>1, <1>3, <2>1, <2>2, <2>3 DEF OnDevice
<1>11. PICK s \in {"after", "settle", "drop"}, n \in {calls[c].rec, r} :
        /\ Moves(c, s, n) /\ calls'[c].locked = calls[c].locked
        /\ s = "drop" => calls[c].kind # "stage" /\ (candidate' = candidate \/ TaintedStage)
        /\ s = "after" => n = calls[c].rec
    <2>1. CASE Go(c, "after")
        BY <1>3, <2>1, GoMovesTo, GoOK DEF Steps
    <2>2. CASE GoWith(c, "settle", r)
        BY <1>3, <1>5, <2>2, GoWithMovesTo, GoWithOK DEF Steps
    <2>3. CASE Go(c, "drop") /\ calls[c].kind # "stage" /\ (candidate' = candidate \/ TaintedStage)
        BY <1>3, <2>3, GoMovesTo, GoOK DEF Steps
    <2>. QED
        BY <1>6, <2>1, <2>2, <2>3
<1>12. s = "drop" => ~InCandidate(p)'
    <2>1. ~InCandidate(p)
        BY <1>1, <1>2, <1>3 DEF OnDeviceWork, Clean
    <2>2. s = "drop" => candidate' = candidate
        BY <1>4, <1>11 DEF AllOrNone
    <2>. QED
        BY <2>1, <2>2 DEF InCandidate
<1>13. n.config_lock_held /\ n.state \in {"Staging", "Indeterminate"}
    BY <1>4, <1>5
<1>14. OnDeviceWork(c)'
    BY <1>1, <1>2, <1>3, <1>4, <1>11, <1>12, <1>13
    DEF OnDeviceWork, Moves, Reserved, Clean, BeforeTouch, BeforeStaged, StagingSteps
<1>. QED
    BY <1>1, <1>3, <1>8, <1>10, <1>11, <1>14, RpcStep

\* unlock() never gives p a lock, and Released takes it away.
LEMMA UnlockReplyOK ==
    ASSUME OpInv, DeviceInv, NEW c \in Callers, calls[c].step \in Working, NEW p \in OpIds, p = calls[c].op,
           NEW reply, UnlockReply(End(c), p, reply)
    PROVE  /\ \A e \in Endpoints : e # End(c) => lock'[e] = lock[e]
           /\ lock'[End(c)] \in {lock[End(c)], p, NoOne}
           /\ lock[End(c)] \notin {p, NoOne} => lock'[End(c)] = lock[End(c)]
           /\ \A e \in Endpoints : lock'[e] = p => lock[e] = p
           /\ HoldsLock(p)' => HoldsLock(p)
           /\ reply = "Released" => ~HoldsLock(p)'
<1> DEFINE f == End(c)
           u == Unlocked(f, p)
<1>1. /\ DeviceOK /\ f \in Endpoints /\ \A e \in Endpoints : e # f => lock[e] # p
    BY OwnPlace
<1>2. /\ \A e \in Endpoints : e # f => u[e] = lock[e]
      /\ u[f] = (IF lock[f] = p THEN NoOne ELSE lock[f]) /\ u[f] # p
    BY <1>1, UnlockedAt
<1>3. lock' \in {lock, u} /\ (reply = "Released" => lock' = u)
    BY DEF UnlockReply
<1> HIDE DEF u, f
<1>4. \A e \in Endpoints : lock'[e] = p => lock[e] = p
    BY <1>1, <1>2, <1>3
<1>5. HoldsLock(p)' => HoldsLock(p)
    BY <1>4 DEF HoldsLock
<1>6. reply = "Released" => ~HoldsLock(p)'
    BY <1>1, <1>2, <1>3 DEF HoldsLock
<1>. QED
    BY <1>1, <1>2, <1>3, <1>4, <1>5, <1>6 DEF f

\* The operation's device state shrinks and its records stay.
LEMMA ShrinkOnDevice ==
    ASSUME NEW p \in OpIds, OnDevice(p), UNCHANGED <<ops, file, up, minted, intents, sent, committed, running>>,
           \A e \in Endpoints : lock'[e] = p => lock[e] = p,
           \A e \in Endpoints : candidate'[e] = p => candidate[e] = p
    PROVE  OnDevice(p)'
<1>1. (InCandidate(p)' => InCandidate(p)) /\ (HoldsLock(p)' => HoldsLock(p))
    BY DEF InCandidate, HoldsLock
<1>2. TrueOf(p, ops[p])' /\ TrueOf(p, file[p])'
    BY <1>1 DEF TrueOf, OnDevice
<1>3. CoveredBy(p, file[p])' /\ (up => CoveredBy(p, ops[p])')
    BY <1>1 DEF CoveredBy, OnDevice
<1>. QED
    BY <1>2, <1>3 DEF OnDevice

LEMMA ReleaseRpcDevice ==
    ASSUME OpInv, DeviceInv, NEW c \in Callers, ReleaseRpc(c)
    PROVE  DeviceInv'
<1> DEFINE r == [calls[c].rec EXCEPT !.state = "Indeterminate"]
<1>1. calls[c].step = "release" /\ up /\ calls[c].step \in Working
      /\ UNCHANGED <<ops, file, up, guard, handles, candidate, running, sent, committed, faults, minted, intents>>
    BY DEF ReleaseRpc, At, Working, Steps, store
<1>2. PICK p \in OpIds : p = calls[c].op
    BY <1>1, WorkFacts
<1>3. OnDevice(p) /\ OnDeviceWork(c) /\ WorkOK(c) /\ TypeOK /\ Owns(c, p) /\ calls[c].rec \in OperationRecord
    BY <1>1, <1>2, OwnPlace, WorkFacts
<1>4. r \in OperationRecord /\ r.state = "Indeterminate" /\ r.config_lock_held = calls[c].rec.config_lock_held
    BY <1>3, StateEdit DEF LifecycleState
<1>5. PICK reply \in UnlockReplies :
        /\ UnlockReply(End(c), p, reply)
        /\ \/ Go(c, "drop") /\ (calls[c].kind = "apply" \/ reply = "Released")
           \/ GoWith(c, "settle", r)
    BY <1>2 DEF ReleaseRpc, ReleaseIsConfirmed
<1> HIDE DEF r
<1>6. /\ \A e \in Endpoints : e # End(c) => lock'[e] = lock[e]
      /\ lock'[End(c)] \in {lock[End(c)], p, NoOne}
      /\ lock[End(c)] \notin {p, NoOne} => lock'[End(c)] = lock[End(c)]
      /\ \A e \in Endpoints : lock'[e] = p => lock[e] = p
      /\ HoldsLock(p)' => HoldsLock(p)
      /\ reply = "Released" => ~HoldsLock(p)'
    BY <1>1, <1>2, <1>5, UnlockReplyOK
<1>7. \A o \in OpIds : o # p => DeviceKeeps(o)
    BY <1>1, <1>2, <1>6, RpcKeeps
<1>8. OnDevice(p)'
    BY <1>1, <1>3, <1>6, ShrinkOnDevice
<1>9. PICK s \in {"drop", "settle"}, n \in {calls[c].rec, r} :
        /\ Moves(c, s, n) /\ calls'[c].locked = calls[c].locked
        /\ s = "drop" => n = calls[c].rec /\ (calls[c].kind = "apply" \/ reply = "Released")
        /\ s = "settle" => n = r
    <2>1. CASE Go(c, "drop") /\ (calls[c].kind = "apply" \/ reply = "Released")
        BY <1>3, <2>1, GoMovesTo, GoOK DEF Steps
    <2>2. CASE GoWith(c, "settle", r)
        BY <1>3, <1>4, <2>2, GoWithMovesTo, GoWithOK DEF Steps
    <2>. QED
        BY <1>5, <2>1, <2>2
<1>10. InCandidate(p)' <=> InCandidate(p)
    BY <1>1 DEF InCandidate
<1>11. OnDeviceWork(c)'
    BY <1>1, <1>2, <1>3, <1>4, <1>6, <1>9, <1>10
    DEF OnDeviceWork, Moves, Reserved, Clean, BeforeTouch, BeforeStaged, StagingSteps
<1>. QED
    BY <1>1, <1>3, <1>7, <1>8, <1>9, <1>11, RpcStep

LEMMA RollbackRpcDevice ==
    ASSUME OpInv, DeviceInv, NEW c \in Callers, RollbackRpc(c)
    PROVE  DeviceInv'
<1> DEFINE r == [calls[c].rec EXCEPT !.state = "Failed"]
           f == End(c)
<1>1. calls[c].step = "rollback" /\ up /\ calls[c].step \in Working
      /\ UNCHANGED <<ops, file, up, guard, handles, running, lock, sent, committed, faults, minted, intents>>
    BY DEF RollbackRpc, At, Working, Steps, store
<1>2. PICK p \in OpIds : p = calls[c].op
    BY <1>1, WorkFacts
<1>3. /\ OnDevice(p) /\ OnDeviceWork(c) /\ WorkOK(c) /\ TypeOK /\ DeviceOK /\ f \in Endpoints /\ Owns(c, p)
      /\ \A e \in Endpoints : e # f => lock[e] # p /\ candidate[e] # p /\ running[e] # p
      /\ calls[c].rec \in OperationRecord
    BY <1>1, <1>2, OwnPlace, WorkFacts
<1>4. p \notin committed /\ \A e \in Endpoints : running[e] # p
    BY <1>1, <1>2, <1>3 DEF OnDeviceWork, OnDevice
<1>5. r \in OperationRecord /\ r.state = "Failed" /\ r.config_lock_held = calls[c].rec.config_lock_held
    BY <1>3, StateEdit DEF LifecycleState
<1>6. /\ candidate' \in {candidate, Reverted(f)}
      /\ \/ Go(c, "reverted") /\ candidate' = Reverted(f)
         \/ GoWith(c, "settle", r)
         \/ Go(c, "settle")
    BY DEF RollbackRpc
<1> HIDE DEF r
<1>7. Reverted(f)[f] = running[f] /\ \A e \in Endpoints : e # f => Reverted(f)[e] = candidate[e]
    BY <1>3 DEF Reverted, DeviceOK
<1>8. /\ \A e \in Endpoints : e # f => candidate'[e] = candidate[e]
      /\ candidate'[f] \in {candidate[f], running[f]}
    BY <1>6, <1>7
<1>9. \A o \in OpIds : o # p => DeviceKeeps(o)
    BY <1>1, <1>2, <1>8, RpcKeeps
<1>10. \A e \in Endpoints : candidate'[e] = p => candidate[e] = p
    BY <1>3, <1>4, <1>8
<1>11. OnDevice(p)'
    BY <1>1, <1>3, <1>10, ShrinkOnDevice
<1>12. PICK s \in {"reverted", "settle"}, n \in {calls[c].rec, r} :
        /\ Moves(c, s, n) /\ calls'[c].locked = calls[c].locked
        /\ s = "reverted" => n = calls[c].rec /\ candidate' = Reverted(f)
    <2>1. CASE Go(c, "reverted") /\ candidate' = Reverted(f)
        BY <1>3, <2>1, GoMovesTo, GoOK DEF Steps
    <2>2. CASE GoWith(c, "settle", r)
        BY <1>3, <1>5, <2>2, GoWithMovesTo, GoWithOK DEF Steps
    <2>3. CASE Go(c, "settle")
        BY <1>3, <2>3, GoMovesTo, GoOK DEF Steps
    <2>. QED
        BY <1>6, <2>1, <2>2, <2>3
<1>13. /\ HoldsLock(p)' <=> HoldsLock(p)
       /\ InCandidate(p)' => InCandidate(p)
       /\ s = "reverted" => ~InCandidate(p)'
    BY <1>1, <1>3, <1>4, <1>7, <1>10, <1>12 DEF InCandidate, HoldsLock
<1>14. calls[c].rec.state = "Indeterminate" /\ n.state \in {"Indeterminate", "Failed"}
       /\ n.config_lock_held = calls[c].rec.config_lock_held
    BY <1>1, <1>3, <1>5 DEF WorkOK
<1>15. OnDeviceWork(c)'
    BY <1>1, <1>2, <1>3, <1>4, <1>12, <1>13, <1>14
    DEF OnDeviceWork, Moves, Reserved, Clean, BeforeTouch, BeforeStaged, StagingSteps
<1>. QED
    BY <1>1, <1>3, <1>9, <1>11, <1>12, <1>15, RpcStep

LEMMA UnlockRpcDevice ==
    ASSUME OpInv, DeviceInv, NEW c \in Callers, UnlockRpc(c)
    PROVE  DeviceInv'
<1>1. calls[c].step = "unlock" /\ up /\ calls[c].step \in Working
      /\ UNCHANGED <<ops, file, up, guard, handles, candidate, running, sent, committed, faults, minted, intents>>
    BY DEF UnlockRpc, At, Working, Steps, store
<1>2. PICK p \in OpIds : p = calls[c].op
    BY <1>1, WorkFacts
<1>3. /\ OnDevice(p) /\ OnDeviceWork(c) /\ WorkOK(c) /\ TypeOK /\ Owns(c, p)
      /\ calls[c].rec \in OperationRecord /\ Exists(calls[c].rec)
    BY <1>1, <1>2, OwnPlace, WorkFacts
<1>4. PICK reply \in UnlockReplies :
        /\ UnlockReply(End(c), p, reply)
        /\ GoWith(c, IF reply = "Released" THEN "reread" ELSE "settle", UnlockRecord(calls[c].rec, reply))
    BY <1>2 DEF UnlockRpc
<1> DEFINE n == UnlockRecord(calls[c].rec, reply)
           s == IF reply = "Released" THEN "reread" ELSE "settle"
<1>5. /\ n \in OperationRecord /\ (reply = "Released" => n.state = "Discarded")
      /\ (reply # "Released" => n = calls[c].rec)
    BY <1>3, UnlockRecordOK DEF UnlockRecord
<1>6. GoWith(c, s, n) /\ s \in {"reread", "settle"} /\ (s = "reread" <=> reply = "Released")
    BY <1>4
<1> HIDE DEF n, s
<1>7. Moves(c, s, n) /\ calls'[c].locked = calls[c].locked
    BY <1>3, <1>5, <1>6, GoWithMovesTo, GoWithOK DEF Steps
<1>8. /\ \A e \in Endpoints : e # End(c) => lock'[e] = lock[e]
      /\ lock'[End(c)] \in {lock[End(c)], p, NoOne}
      /\ lock[End(c)] \notin {p, NoOne} => lock'[End(c)] = lock[End(c)]
      /\ \A e \in Endpoints : lock'[e] = p => lock[e] = p
      /\ HoldsLock(p)' => HoldsLock(p)
      /\ reply = "Released" => ~HoldsLock(p)'
    BY <1>1, <1>2, <1>4, UnlockReplyOK
<1>9. \A o \in OpIds : o # p => DeviceKeeps(o)
    BY <1>1, <1>2, <1>8, RpcKeeps
<1>10. OnDevice(p)'
    BY <1>1, <1>3, <1>8, ShrinkOnDevice
<1>11. p \notin committed /\ p \notin sent /\ ~InCandidate(p)
    BY <1>1, <1>2, <1>3 DEF OnDeviceWork, WorkOK, Clean
<1>12. ~InCandidate(p)'
    BY <1>1, <1>11 DEF InCandidate
<1>13. OnDeviceWork(c)'
    BY <1>1, <1>2, <1>3, <1>5, <1>6, <1>7, <1>8, <1>11, <1>12
    DEF OnDeviceWork, Moves, Reserved, Clean, BeforeTouch, BeforeStaged, StagingSteps
<1>. QED
    BY <1>1, <1>3, <1>7, <1>9, <1>10, <1>13, RpcStep

\* What the record keeps of the lock after a commit.
LEMMA CommitRecordLock ==
    ASSUME NEW r \in OperationRecord, NEW outcome \in CommitOutcomes
    PROVE  /\ outcome \in {"detached", "unknown", "rejected", "unreached"} =>
                CommitRecord(r, outcome).config_lock_held = r.config_lock_held
           /\ outcome = "succeeded" => CommitRecord(r, outcome).state = "Committed"
           /\ outcome \in {"awaiting", "detached"} => CommitRecord(r, outcome).state = r.state
           /\ outcome = "unknown" => CommitRecord(r, outcome).state = "Indeterminate"
           /\ outcome \in {"rejected", "unreached"} => CommitRecord(r, outcome).state = "Failed"
<1> DEFINE a == [r EXCEPT !.state = "Committed", !.config_lock_held = FALSE]
           b == [r EXCEPT !.config_lock_held = FALSE]
           i == [r EXCEPT !.state = "Indeterminate"]
           f == [r EXCEPT !.state = "Failed"]
<1>1. a.state = "Committed" /\ b.state = r.state
    BY DEF OperationRecord
<1>2. i.state = "Indeterminate" /\ f.state = "Failed"
      /\ i.config_lock_held = r.config_lock_held /\ f.config_lock_held = r.config_lock_held
    BY DEF OperationRecord
<1>3. /\ outcome = "succeeded" => CommitRecord(r, outcome) = a
      /\ outcome = "awaiting" => CommitRecord(r, outcome) = b
      /\ outcome = "detached" => CommitRecord(r, outcome) = r
      /\ outcome = "unknown" => CommitRecord(r, outcome) = i
      /\ outcome \in {"rejected", "unreached"} => CommitRecord(r, outcome) = f
    BY CommitRecordCases
<1> HIDE DEF a, b, i, f
<1>. QED
    BY <1>1, <1>2, <1>3 DEF CommitOutcomes

LEMMA CommitRpcDevice ==
    ASSUME OpInv, DeviceInv, NEW c \in Callers, CommitRpc(c)
    PROVE  DeviceInv'
<1> DEFINE f == End(c)
           r == calls[c].rec
<1>1. calls[c].step = "commit" /\ up /\ calls[c].step \in Working
      /\ UNCHANGED <<ops, file, up, guard, handles, candidate, faults, minted, intents>>
    BY DEF CommitRpc, At, Working, Steps, store
<1>2. PICK p \in OpIds : p = calls[c].op
    BY <1>1, WorkFacts
<1>3. /\ OnDevice(p) /\ OnDeviceWork(c) /\ WorkOK(c) /\ TypeOK /\ DeviceOK /\ f \in Endpoints /\ Owns(c, p)
      /\ minted[p] \in Devices /\ f = EndpointOf[minted[p]]
      /\ \A e \in Endpoints : e # f => lock[e] # p /\ candidate[e] # p /\ running[e] # p
      /\ r \in OperationRecord /\ Exists(r)
    BY <1>1, <1>2, OwnPlace, WorkFacts
<1>4. /\ ops[p].state = "Committing" /\ file[p].state = "Committing" /\ r.state = "Committing"
      /\ p \notin committed /\ p \notin sent /\ p \in intents
    BY <1>1, <1>2, <1>3 DEF WorkOK, OnDeviceWork
<1>5. PICK outcome \in CommitOutcomes :
        /\ GoWith(c, "settle", CommitRecord(r, outcome))
        /\ sent' = IF outcome \in {"awaiting", "detached", "unknown"} THEN sent \cup {p} ELSE sent
        /\ IF outcome \in {"succeeded", "awaiting"}
           THEN TakesEffect(p, f) ELSE UNCHANGED <<running, lock, committed>>
    <2>1. CASE /\ TakesEffect(p, f)
               /\ \E outcome \in {"succeeded", "awaiting"} :
                    /\ GoWith(c, "settle", CommitRecord(r, outcome))
                    /\ sent' = IF outcome = "awaiting" THEN sent \cup {p} ELSE sent
        BY <2>1 DEF CommitOutcomes
    <2>2. CASE /\ \E outcome \in {"detached", "unknown"} :
                    GoWith(c, "settle", CommitRecord(r, outcome))
               /\ sent' = sent \cup {p} /\ UNCHANGED <<running, lock, committed>>
        BY <2>2 DEF CommitOutcomes
    <2>3. CASE /\ \E outcome \in {"rejected", "unreached"} :
                    GoWith(c, "settle", CommitRecord(r, outcome))
               /\ UNCHANGED sent /\ UNCHANGED <<running, lock, committed>>
        BY <2>3 DEF CommitOutcomes
    <2>. QED
        BY <1>2, <2>1, <2>2, <2>3, Zenon DEF CommitRpc
<1> DEFINE n == CommitRecord(r, outcome)
<1>6. n \in OperationRecord
    BY <1>3, <1>4, CommitRecordOK
<1>7. /\ outcome \in {"detached", "unknown", "rejected", "unreached"} =>
           n.config_lock_held = r.config_lock_held
      /\ outcome = "succeeded" => n.state = "Committed"
      /\ outcome \in {"awaiting", "detached"} => n.state = "Committing"
      /\ outcome = "unknown" => n.state = "Indeterminate"
      /\ outcome \in {"rejected", "unreached"} => n.state = "Failed"
    BY <1>3, <1>4, CommitRecordLock
<1> HIDE DEF n
<1>8. Moves(c, "settle", n) /\ calls'[c].locked = calls[c].locked
    BY <1>3, <1>5, <1>6, GoWithMovesTo, GoWithOK DEF Steps, n
<1> HIDE DEF r
<1>9. InCandidate(p)' <=> InCandidate(p)
    BY <1>1 DEF InCandidate
<1>10. CASE outcome \in {"succeeded", "awaiting"}
    <2>1. running' = [running EXCEPT ![f] = candidate[f]] /\ lock' = Unlocked(f, p) /\ committed' = committed \cup {p}
        BY <1>5, <1>10 DEF TakesEffect
    <2>2. running'[f] = candidate[f] /\ \A e \in Endpoints : e # f => running'[e] = running[e]
        BY <1>3, <2>1 DEF DeviceOK
    <2>3. /\ \A e \in Endpoints : e # f => lock'[e] = lock[e]
          /\ lock'[f] = (IF lock[f] = p THEN NoOne ELSE lock[f]) /\ lock'[f] # p
        BY <1>3, <2>1, UnlockedAt
    <2>4. ~HoldsLock(p)'
        BY <1>3, <2>3 DEF HoldsLock
    <2>5. \A o \in OpIds : o # p => DeviceKeeps(o)
        BY <1>1, <1>2, <1>5, <2>1, <2>2, <2>3, RpcKeeps
    <2>6. OnDevice(p)'
        <3>1. TrueOf(p, ops[p])' /\ TrueOf(p, file[p])'
            BY <1>1, <1>4 DEF TrueOf
        <3>2. CoveredBy(p, ops[p])' /\ CoveredBy(p, file[p])'
            BY <2>1, <2>4 DEF CoveredBy
        <3>3. \A e \in Endpoints : lock'[e] = p \/ candidate'[e] = p \/ running'[e] = p => e = f
            BY <1>1, <1>3, <2>2, <2>3
        <3>. QED
            BY <1>1, <1>3, <1>4, <2>1, <3>1, <3>2, <3>3 DEF OnDevice
    <2>7. OnDeviceWork(c)'
        BY <1>1, <1>2, <1>4, <1>5, <1>7, <1>8, <1>10, <2>1, <2>4
        DEF OnDeviceWork, Moves, Reserved, Clean, BeforeTouch, BeforeStaged, StagingSteps
    <2>. QED
        BY <1>1, <1>3, <1>8, <2>5, <2>6, <2>7, RpcStep
<1>11. CASE outcome \notin {"succeeded", "awaiting"}
    <2>1. UNCHANGED <<running, lock, committed>>
        BY <1>5, <1>11
    <2>2. \A o \in OpIds : o # p => DeviceKeeps(o)
        BY <1>1, <1>2, <1>5, <2>1, RpcKeeps
    <2>3. HoldsLock(p)' <=> HoldsLock(p)
        BY <2>1 DEF HoldsLock
    <2>4. OnDevice(p)'
        <3>1. TrueOf(p, ops[p])' /\ TrueOf(p, file[p])'
            BY <1>1, <1>4, <2>1 DEF TrueOf
        <3>2. CoveredBy(p, ops[p])' /\ CoveredBy(p, file[p])'
            BY <1>1, <1>3, <1>9, <2>1, <2>3 DEF CoveredBy, OnDevice
        <3>. QED
            BY <1>1, <1>3, <1>4, <2>1, <3>1, <3>2 DEF OnDevice
    <2>5. n.state \in {"Committing", "Indeterminate", "Failed"} /\ n.config_lock_held = r.config_lock_held
        BY <1>7, <1>11 DEF CommitOutcomes
    <2>6. OnDeviceWork(c)'
        BY <1>1, <1>2, <1>3, <1>4, <1>8, <2>1, <2>3, <2>5
        DEF OnDeviceWork, Moves, Reserved, Clean, BeforeTouch, BeforeStaged, StagingSteps, r
    <2>. QED
        BY <1>1, <1>3, <1>8, <2>2, <2>4, <2>6, RpcStep
<1>. QED
    BY <1>10, <1>11
----------------------------------------------------------------------------
(* The world outside the calls *)

\* The process is down after the step, and the device's side of o has not grown.
LEMMA KeptOffline ==
    ASSUME NEW o \in OpIds, OnDevice(o), ~up', ops'[o] \in {ops[o], NoRecord}, file'[o] = file[o],
           minted'[o] = minted[o], intents' = intents,
           o \in committed' <=> o \in committed, o \in sent' <=> o \in sent,
           \A e \in Endpoints : lock'[e] = o => lock[e] = o,
           \A e \in Endpoints : candidate'[e] = o => candidate[e] = o \/ running[e] = o,
           \A e \in Endpoints : running'[e] = o => running[e] = o \/ (candidate[e] = o /\ o \in committed)
    PROVE  OnDevice(o)'
<1>1. (InCandidate(o)' => o \in committed \/ InCandidate(o)) /\ (HoldsLock(o)' => HoldsLock(o))
    BY DEF InCandidate, HoldsLock, OnDevice
<1>2. TrueOf(o, ops[o])' /\ TrueOf(o, file[o])'
    BY <1>1, NoRecordOK DEF TrueOf, OnDevice
<1>3. CoveredBy(o, file[o])'
    BY <1>1 DEF CoveredBy, OnDevice
<1>. QED
    BY <1>2, <1>3 DEF OnDevice

\* No call works on anything while the process is down.
LEMMA OfflineDevice ==
    ASSUME \A o \in OpIds : OnDevice(o)', \A c \in Callers : calls'[c].step = "idle" /\ calls'[c].kind = "idle"
    PROVE  DeviceInv'
BY DEF DeviceInv, Working

LEMMA PersistOtherDevice == ASSUME OpInv, DeviceInv, PersistOther PROVE DeviceInv'
<1>1. up /\ file' = ops /\ UNCHANGED <<ops, up, guard, calls, candidate, running, lock, sent, committed, minted, intents>>
    BY DEF PersistOther, device
<1>2. \A o \in OpIds : DeviceKeeps(o)
    BY <1>1 DEF DeviceKeeps
<1>3. \A o \in OpIds : OnDevice(o)'
    BY <1>1, <1>2, KeptOnDevice DEF DeviceInv
<1>4. ASSUME NEW k \in Callers, calls[k].step \in Working PROVE OnDeviceWork(k)'
    <2>1. calls[k].op \in OpIds /\ calls'[k] = calls[k] /\ OnDeviceWork(k) /\ OnDevice(calls[k].op)
        BY <1>1, <1>4, WorkFacts DEF DeviceInv
    <2>. QED
        BY <1>2, <1>4, <2>1, KeptWork
<1>. QED
    BY <1>1, <1>3, <1>4 DEF DeviceInv

LEMMA ForeignEditDevice == ASSUME OpInv, DeviceInv, NEW e \in Endpoints, ForeignEdit(e) PROVE DeviceInv'
<1>1. /\ lock[e] = NoOne /\ candidate' = [candidate EXCEPT ![e] = "Drift"]
      /\ UNCHANGED <<ops, file, up, guard, calls, running, lock, sent, committed, minted, intents>>
    BY DEF ForeignEdit, store
<1>2. candidate'[e] = "Drift" /\ \A f \in Endpoints : f # e => candidate'[f] = candidate[f]
    BY <1>1, DeviceTyped DEF DeviceOK
<1>3. \A o \in OpIds : DeviceKeeps(o)
    BY <1>1, <1>2, Constants DEF DeviceKeeps
<1>4. ASSUME NEW o \in OpIds PROVE OnDevice(o)'
    <2>1. OnDevice(o) /\ \A f \in Endpoints : candidate'[f] = o => candidate[f] = o
        BY <1>2, Constants DEF DeviceInv
    <2>. QED
        BY <1>1, <2>1, ShrinkOnDevice
<1>5. ASSUME NEW k \in Callers, calls[k].step \in Working PROVE OnDeviceWork(k)'
    <2>1. calls[k].op \in OpIds /\ calls'[k] = calls[k] /\ OnDeviceWork(k) /\ OnDevice(calls[k].op)
        BY <1>1, <1>5, WorkFacts DEF DeviceInv
    <2>. QED
        BY <1>3, <1>5, <2>1, KeptWork
<1>. QED
    BY <1>1, <1>4, <1>5 DEF DeviceInv

LEMMA CrashDevice == ASSUME OpInv, DeviceInv, Crash PROVE DeviceInv'
<1>1. /\ up' = FALSE /\ ops' = [o \in OpIds |-> NoRecord] /\ calls' = [c \in Callers |-> IdleCall]
      /\ UNCHANGED <<file, candidate, running, sent, committed, minted, intents>>
    BY DEF Crash
<1>2. PICK gone \in SUBSET Endpoints :
        lock' = [e \in Endpoints |-> IF e \in gone THEN NoOne ELSE lock[e]]
    BY DEF Crash
<1>3. \A o \in OpIds : \A e \in Endpoints : lock'[e] = o => lock[e] = o
    BY <1>2, Constants
<1>4. \A o \in OpIds : OnDevice(o)'
    BY <1>1, <1>3, KeptOffline DEF DeviceInv
<1>. QED
    BY <1>1, <1>4, IdleCallOK, OfflineDevice

\* Nothing of the process exists while it is down.
LEMMA OfflineFacts ==
    ASSUME OpInv, ~up
    PROVE  /\ \A c \in Callers : calls[c].step = "idle"
           /\ \A o \in OpIds : ops[o].state = "Absent"
BY DEF OpInv, DownOK, Exists

LEMMA LoadDevice == ASSUME OpInv, DeviceInv, load PROVE DeviceInv'
<1>1. PICK outcome \in Outcomes :
        /\ ~up
        /\ IF Recovered = file
           THEN outcome = "ok" /\ UNCHANGED <<file, faults>>
           ELSE persist_locked(Recovered, outcome)
        /\ IF outcome = "ok"
           THEN /\ up' = TRUE
                /\ ops' = Recovered
                /\ handles' = {o \in OpIds : Recovered[o].state = "Staged"}
           ELSE UNCHANGED <<up, ops, handles>>
        /\ UNCHANGED <<guard, calls, device, minted, intents>>
    BY DEF load
<1>2. \A o \in OpIds : Recovered[o] = RecoverOperation(file[o]) /\ file[o] \in OperationRecord
    BY RecoveredOK DEF OpInv, TypeOK
<1>3. file' \in {file, Recovered}
    BY <1>1 DEF persist_locked
<1> HIDE DEF Recovered
<1>4. /\ ~up /\ UNCHANGED <<calls, candidate, running, lock, sent, committed, minted, intents>>
      /\ ops' \in {ops, Recovered} /\ (up' => ops' = Recovered)
    BY <1>1 DEF device
<1>5. ASSUME NEW o \in OpIds PROVE OnDevice(o)'
    <2>1. OnDevice(o) /\ ops[o].state = "Absent"
        BY <1>4, OfflineFacts DEF DeviceInv
    <2> DEFINE r == RecoverOperation(file[o])
    <2>2. /\ r.state \in {file[o].state, "Indeterminate"} /\ r.config_lock_held = file[o].config_lock_held
          /\ Active(r) <=> Active(file[o])
        BY <1>2, RecoverOperationOK
    <2>3. file'[o] \in {file[o], r} /\ ops'[o] \in {ops[o], r} /\ (up' => ops'[o] = r)
        BY <1>2, <1>3, <1>4
    <2> HIDE DEF r
    <2>4. (InCandidate(o)' <=> InCandidate(o)) /\ (HoldsLock(o)' <=> HoldsLock(o))
        BY <1>4 DEF InCandidate, HoldsLock
    <2>5. TrueOf(o, file[o])' /\ TrueOf(o, ops[o])'
        BY <1>4, <2>1, <2>2, <2>3, <2>4 DEF TrueOf, OnDevice
    <2>6. CoveredBy(o, file[o])' /\ (up' => CoveredBy(o, ops[o])')
        BY <1>4, <2>1, <2>2, <2>3, <2>4 DEF CoveredBy, OnDevice
    <2>. QED
        BY <1>4, <2>1, <2>5, <2>6 DEF OnDevice
<1>. QED
    BY <1>4, <1>5, OfflineFacts DEF DeviceInv, Working

LEMMA ResolveDevice ==
    ASSUME OpInv, DeviceInv, NEW o \in OpIds, resolve_persisted_operation(o)
    PROVE  DeviceInv'
<1> DEFINE e == EndpointOf[file[o].device]
<1>1. PICK disposition \in {"Committed", "Discarded"}, outcome \in Outcomes :
        /\ disposition = (IF o \in committed THEN "Committed" ELSE "Discarded")
        /\ persist_locked([file EXCEPT ![o].state = disposition, ![o].config_lock_held = FALSE], outcome)
    BY DEF resolve_persisted_operation
<1>2. /\ ~up /\ Active(file[o]) /\ o \notin sent /\ lock' = Unlocked(e, o)
      /\ candidate' = IF candidate[e] = o /\ o \notin committed THEN Reverted(e) ELSE candidate
      /\ UNCHANGED <<ops, up, calls, running, sent, committed, minted, intents>>
    BY DEF resolve_persisted_operation, Resolvable
<1>3. DeviceOK /\ file \in [OpIds -> OperationRecord] /\ file[o] \in OperationRecord /\ OnDevice(o)
    BY DeviceTyped DEF OpInv, TypeOK, DeviceInv
<1>4. e \in Endpoints /\ e = EndpointOf[minted[o]]
    BY <1>2, ActiveExists, Constants DEF OpInv, StoreOK
<1> DEFINE r == [file[o] EXCEPT !.state = disposition, !.config_lock_held = FALSE]
<1>5. r.state = disposition
    BY <1>3 DEF OperationRecord
<1>6. file' = file \/ file' = [file EXCEPT ![o] = r]
    BY <1>1, <1>3 DEF persist_locked
<1> HIDE DEF r
<1>7. file'[o] \in {file[o], r} /\ \A p \in OpIds : p # o => file'[p] = file[p]
    BY <1>3, <1>6
<1>8. /\ \A f \in Endpoints : f # e => lock'[f] = lock[f]
      /\ lock'[e] = (IF lock[e] = o THEN NoOne ELSE lock[e]) /\ lock'[e] # o
    BY <1>2, <1>3, <1>4, UnlockedAt
<1>9. \A f \in Endpoints : f # e => candidate'[f] = candidate[f] /\ lock[f] # o /\ candidate[f] # o
    BY <1>2, <1>3, <1>4 DEF Reverted, DeviceOK, OnDevice
<1>10. candidate'[e] = IF candidate[e] = o /\ o \notin committed THEN running[e] ELSE candidate[e]
    BY <1>2, <1>3, <1>4 DEF Reverted, DeviceOK
<1> HIDE DEF e
<1>11. ~HoldsLock(o)' /\ (o \notin committed => ~InCandidate(o)')
    BY <1>3, <1>4, <1>8, <1>9, <1>10 DEF HoldsLock, InCandidate, OnDevice
<1>12. OnDevice(o)'
    <2>1. ops[o].state = "Absent"
        BY <1>2, OfflineFacts
    <2>2. TrueOf(o, ops[o])'
        BY <1>2, <2>1 DEF TrueOf
    <2>3. TrueOf(o, file[o])'
        BY <1>1, <1>2, <1>3, <1>5, <1>7, <1>11 DEF TrueOf, OnDevice
    <2>4. CoveredBy(o, file[o])'
        BY <1>2, <1>11 DEF CoveredBy
    <2>5. \A f \in Endpoints : lock'[f] = o \/ candidate'[f] = o \/ running'[f] = o => f = e /\ minted[o] \in Devices
        BY <1>2, <1>3, <1>4, <1>8, <1>9, <1>10 DEF OnDevice
    <2>. QED
        BY <1>2, <1>3, <1>4, <2>2, <2>3, <2>4, <2>5 DEF OnDevice
<1>13. ASSUME NEW p \in OpIds, p # o PROVE OnDevice(p)'
    <2>1. OnDevice(p) /\ p # NoOne
        BY Constants DEF DeviceInv
    <2>2. \A f \in Endpoints : /\ lock'[f] = p => lock[f] = p
                               /\ candidate'[f] = p => candidate[f] = p \/ running[f] = p
        BY <1>4, <1>8, <1>9, <1>10, <2>1
    <2>. QED
        BY <1>2, <1>7, <1>13, <2>1, <2>2, KeptOffline
<1>. QED
    BY <1>2, <1>12, <1>13, OfflineFacts DEF DeviceInv, Working

LEMMA DeviceFinishesDevice ==
    ASSUME OpInv, DeviceInv, NEW o \in OpIds, DeviceFinishes(o)
    PROVE  DeviceInv'
<1> DEFINE e == EndpointOf[minted[o]]
<1>1. /\ o \in sent /\ e \in Endpoints /\ DeviceOK /\ OnDevice(o) /\ minted[o] \in Devices
      /\ sent' = sent \ {o}
      /\ UNCHANGED <<ops, file, up, guard, calls, minted, intents>>
    BY SentFacts, DeviceTyped DEF DeviceFinishes, store, DeviceInv
<1>2. /\ file[o].state \in InFlight /\ (up => ops[o].state \in InFlight)
      /\ (~up => ops[o].state = "Absent") /\ o \in intents
    BY <1>1, OfflineFacts DEF OpInv, SentOK, OnDevice
<1>3. /\ \A f \in Endpoints : f # e => Unlocked(e, o)[f] = lock[f]
      /\ Unlocked(e, o)[e] = (IF lock[e] = o THEN NoOne ELSE lock[e])
    BY <1>1, UnlockedAt
<1>4. \A f \in Endpoints : f # e => lock[f] # o /\ candidate[f] # o /\ running[f] # o
    BY <1>1 DEF OnDevice
<1>5. \/ /\ committed' = committed \cup {o} /\ candidate' = candidate
         /\ running' = [running EXCEPT ![e] = candidate[e]] /\ lock' \in {lock, Unlocked(e, o)}
      \/ /\ committed' = committed \ {o} /\ lock' = lock
         /\ running' = [running EXCEPT ![e] = "Base"] /\ candidate' = [candidate EXCEPT ![e] = "Base"]
      \/ UNCHANGED <<candidate, running, lock, committed>>
    BY DEF DeviceFinishes
<1>6. /\ \A f \in Endpoints : f # e => lock'[f] = lock[f] /\ candidate'[f] = candidate[f] /\ running'[f] = running[f]
      /\ lock'[e] = lock[e] \/ (lock[e] = o /\ lock'[e] = NoOne)
      /\ \/ o \in committed' /\ candidate'[e] = candidate[e] /\ running'[e] = candidate[e]
         \/ candidate'[e] = "Base" /\ running'[e] = "Base"
         \/ UNCHANGED <<candidate, running, lock, committed>>
      /\ \A p \in OpIds : p # o => (p \in committed' <=> p \in committed)
    BY <1>1, <1>3, <1>5 DEF DeviceOK
<1> HIDE DEF e
<1>7. \A p \in OpIds : p # "Base" /\ p # NoOne
    BY Constants
<1>8. HoldsLock(o)' => HoldsLock(o)
    BY <1>1, <1>6, <1>7 DEF HoldsLock
<1>9. OnDevice(o)'
    <2>1. TrueOf(o, file[o])' /\ TrueOf(o, ops[o])'
        BY <1>1, <1>2 DEF TrueOf, InFlight
    <2>2. o \notin committed' /\ InCandidate(o)' => o \notin committed /\ InCandidate(o)
        <3>1. CASE UNCHANGED <<candidate, running, lock, committed>>
            BY <3>1 DEF InCandidate
        <3>2. CASE candidate'[e] = "Base"
            BY <1>1, <1>4, <1>6, <1>7, <3>2 DEF InCandidate
        <3>. QED
            BY <1>6, <3>1, <3>2
    <2>3. CoveredBy(o, file[o])' /\ (up' => CoveredBy(o, ops[o])')
        BY <1>1, <1>8, <2>2 DEF CoveredBy, OnDevice
    <2>4. \A f \in Endpoints : lock'[f] = o \/ candidate'[f] = o \/ running'[f] = o => f = e
        BY <1>4, <1>6
    <2>5. \A f \in Endpoints : running'[f] = o => o \in committed'
        BY <1>1, <1>4, <1>6, <1>7 DEF OnDevice
    <2>. QED
        BY <1>1, <1>2, <2>1, <2>3, <2>4, <2>5 DEF OnDevice, e
<1>10. ASSUME NEW p \in OpIds, p # o, NEW f \in Endpoints, running'[f] = p
       PROVE  running[f] = p \/ (candidate[f] = p /\ p \in committed)
    <2>1. CASE f # e \/ running'[f] # candidate[f]
        BY <1>6, <1>7, <1>10, <2>1
    <2>2. CASE f = e /\ candidate[f] = p
        <3>1. OnDevice(p) /\ e = EndpointOf[minted[p]] /\ InCandidate(p)
            BY <1>1, <2>2 DEF DeviceInv, OnDevice, InCandidate
        <3>2. Active(file[o]) /\ Exists(file[o])
            BY <1>2 DEF InFlight, Active, Exists, terminal
        <3>3. ASSUME p \notin committed PROVE FALSE
            <4>1. Active(file[p]) /\ Exists(file[p])
                BY <3>1, <3>3, ActiveExists DEF OnDevice, CoveredBy
            <4>2. EndpointOf[file[o].device] = e /\ EndpointOf[file[p].device] = e
                BY <3>1, <3>2, <4>1 DEF OpInv, StoreOK, e
            <4>. QED
                BY <1>10, <3>2, <4>1, <4>2 DEF OpInv, StoreOK
        <3>. QED
            BY <2>2, <3>3
    <2>. QED
        BY <1>10, <2>1, <2>2
<1>11. ASSUME NEW p \in OpIds, p # o PROVE DeviceKeeps(p)
    <2>1. OnDevice(p)
        BY DEF DeviceInv
    <2>2. \A f \in Endpoints : lock'[f] = p => lock[f] = p
        BY <1>6, <1>7
    <2>3. \A f \in Endpoints : candidate'[f] = p => candidate[f] = p \/ running[f] = p
        BY <1>6, <1>7
    <2>4. ASSUME ops[p].state = "Staging", NEW f \in Endpoints, lock[f] = p
          PROVE  lock'[f] = p /\ candidate'[f] = candidate[f]
        <3>1. Active(ops[p]) /\ Exists(ops[p]) /\ f = EndpointOf[minted[p]]
            BY <2>1, <2>4 DEF Active, Exists, terminal, OnDevice
        <3>2. Active(ops[o]) /\ Exists(ops[o])
            BY <1>2, <2>4, OfflineFacts DEF InFlight, Active, Exists, terminal
        <3>3. f # e
            BY <1>11, <3>1, <3>2 DEF OpInv, StoreOK, e
        <3>. QED
            BY <1>6, <2>4, <3>3
    <2>5. \A f \in Endpoints : running'[f] = p => running[f] = p \/ (candidate[f] = p /\ p \in committed)
        BY <1>10, <1>11
    <2>6. (p \in committed' <=> p \in committed) /\ (p \in sent' <=> p \in sent)
        BY <1>1, <1>6, <1>11
    <2>. QED
        BY <1>1, <2>2, <2>3, <2>4, <2>5, <2>6 DEF DeviceKeeps
<1>12. ASSUME NEW p \in OpIds PROVE OnDevice(p)'
    <2>1. CASE p = o
        BY <1>9, <2>1
    <2>2. CASE p # o
        <3>1. OnDevice(p) /\ DeviceKeeps(p)
            BY <1>11, <2>2 DEF DeviceInv
        <3>2. CASE up
            BY <3>1, <3>2, KeptOnDevice
        <3>3. CASE ~up
            BY <1>1, <3>1, <3>3, KeptOffline DEF DeviceKeeps
        <3>. QED
            BY <3>2, <3>3
    <2>. QED
        BY <2>1, <2>2
<1>13. ASSUME NEW k \in Callers, calls[k].step \in Working PROVE OnDeviceWork(k)'
    <2>1. /\ calls[k].op \in OpIds /\ calls'[k] = calls[k] /\ OnDeviceWork(k) /\ OnDevice(calls[k].op)
          /\ WorkOK(k)
        BY <1>1, <1>13, WorkFacts DEF DeviceInv
    <2>2. CASE calls[k].op # o
        BY <1>11, <1>13, <2>1, <2>2, KeptWork
    <2>3. CASE calls[k].op = o
        <3>1. calls[k].step = "settle" /\ calls[k].rec.state \in InFlight
            BY <1>1, <2>1, <2>3 DEF WorkOK
        <3>2. HoldsLock(calls[k].op)' => HoldsLock(calls[k].op)
            BY <1>8, <2>1, <2>3
        <3>. QED
            BY <1>1, <2>1, <3>1, <3>2
            DEF OnDeviceWork, InFlight, Reserved, Clean, BeforeTouch, BeforeStaged, StagingSteps
    <2>. QED
        BY <2>2, <2>3
<1>. QED
    BY <1>1, <1>12, <1>13 DEF DeviceInv

LEMMA StillDeviceInv == ASSUME DeviceInv, UNCHANGED vars PROVE DeviceInv'
<1>1. UNCHANGED <<ops, file, up, guard, calls, handles, candidate, running, lock, sent, faults, minted,
                  intents, committed>>
    BY DEF vars
<1>2. ASSUME NEW o \in OpIds PROVE OnDevice(o)'
    BY <1>1, ShrinkOnDevice DEF DeviceInv
<1>3. ASSUME NEW k \in Callers, calls[k].step \in Working PROVE OnDeviceWork(k)'
    <2>1. OnDeviceWork(k)
        BY <1>3 DEF DeviceInv
    <2>. QED
        BY <1>1, <2>1 DEF OnDeviceWork, InCandidate, HoldsLock, End
<1>. QED
    BY <1>1, <1>2, <1>3 DEF DeviceInv

LEMMA DeviceNext == AllOrNone /\ OpInv /\ DeviceInv /\ [Next]_vars => DeviceInv'
<1> SUFFICES ASSUME AllOrNone, OpInv, DeviceInv, [Next]_vars PROVE DeviceInv'
    OBVIOUS
<1>1. ASSUME NEW c \in Callers, StageStep(c) PROVE DeviceInv'
    BY <1>1, ReserveDevice, ReserveRefusedDevice, ClaimDevice, RecordRiskDevice, TakeDeviceLockDevice,
       CheckDevice, StageRpcDevice, ReadAfterDevice, RecordStagedDevice, SettleDevice, ReleaseRpcDevice,
       DropDevice
    DEF StageStep
<1>2. ASSUME NEW c \in Callers, LaterStep(c) PROVE DeviceInv'
    BY <1>2, StartsDevice, AnnounceDevice, ValidateRpcDevice, CommitRpcDevice, RollbackRpcDevice,
       UnlockRpcDevice, ReadRevertedDevice, SettleDevice
    DEF LaterStep
<1>3. ASSUME NEW c \in Callers, Request(c) \/ TakeGuard(c) \/ Cancel(c) \/ Refuse(c) PROVE DeviceInv'
    BY <1>3, RequestDevice, GuardDevice
<1>4. CASE Environment
    BY <1>4, CrashDevice, LoadDevice, PersistOtherDevice, ResolveDevice, DeviceFinishesDevice,
       ForeignEditDevice
    DEF Environment
<1>. QED
    BY <1>1, <1>2, <1>3, <1>4, StillDeviceInv DEF Next, Advance

\* Where stage() is all-or-none for the callers that rely on it, the records
\* of every reachable state account for what is on the devices: the second
\* inductive invariant.
THEOREM DeviceInvariant == AllOrNone => (Spec => []DeviceInv)
<1> SUFFICES ASSUME AllOrNone PROVE Spec => []DeviceInv
    OBVIOUS
<1>1. OpInv /\ DeviceInv /\ [Next]_vars => DeviceInv'
    BY DeviceNext
<1>. QED
    BY <1>1, DeviceInitial, OperationInvariant, PTL DEF Spec

\* Uncommitted changes an operation left in a candidate always have an
\* unsettled record in the state file, whichever reply, write or process was
\* lost, as long as apply_change_set's stage() is all-or-none.
THEOREM ResidueStaysRecorded == AllOrNone => (Spec => []ResidueIsRecorded)
<1> SUFFICES ASSUME AllOrNone PROVE Spec => []ResidueIsRecorded
    OBVIOUS
<1>1. DeviceInv => ResidueIsRecorded
    BY DEF DeviceInv, OnDevice, CoveredBy, InCandidate, ResidueIsRecorded
<1>. QED
    BY <1>1, DeviceInvariant, PTL

\* The state file tells the truth about every finished operation: committed,
\* discarded or in doubt, through lost replies, crashes and late commits.
THEOREM RecordsStayTrue == AllOrNone => (Spec => []RecordsTellTheTruth)
<1> SUFFICES ASSUME AllOrNone PROVE Spec => []RecordsTellTheTruth
    OBVIOUS
<1>1. DeviceInv => RecordsTellTheTruth
    BY DEF DeviceInv, OnDevice, TrueOf, InCandidate, HoldsLock, RecordsTellTheTruth
<1>. QED
    BY <1>1, DeviceInvariant, PTL

\* A device lock that stage_operation's calls took always has an unsettled
\* record on disk that says so.  (It does not hold of apply_change_set, whose
\* error path drops the record of a lock that may still be held.)
THEOREM LockStaysRecorded == OnlyStages => (Spec => []LockIsRecorded)
<1> SUFFICES ASSUME OnlyStages PROVE Spec => []LockIsRecorded
    OBVIOUS
<1>1. OpInv /\ DeviceInv => LockIsRecorded
    <2> SUFFICES ASSUME OpInv, DeviceInv, NEW e \in Endpoints, lock[e] # NoOne
                 PROVE  Active(file[lock[e]]) /\ file[lock[e]].config_lock_held
        BY DEF LockIsRecorded
    <2>1. lock[e] \in OpIds /\ HoldsLock(lock[e])
        BY DEF OpInv, TypeOK, HoldsLock
    <2>. QED
        BY <2>1 DEF DeviceInv, OnDevice, CoveredBy
<1>2. AllOrNone
    BY DEF AllOrNone, OnlyStages
<1>. QED
    BY <1>1, <1>2, OperationInvariant, DeviceInvariant, PTL

\* A step that puts nothing of an operation into a candidate.
LEMMA NothingStaged ==
    ASSUME \A e \in Endpoints : candidate'[e] \in {candidate[e], running[e]} \/ candidate'[e] \notin OpIds
    PROVE  StagesWhatWasObserved
BY DEF StagesWhatWasObserved

LEMMA StageRpcObserves ==
    ASSUME RequiresLock, OpInv, DeviceInv, NEW c \in Callers, StageRpc(c)
    PROVE  StagesWhatWasObserved
<1> DEFINE f == End(c)
<1>1. calls[c].step = "stage" /\ calls[c].step \in Working
    BY DEF StageRpc, At, Working, Steps
<1>2. PICK p \in OpIds : p = calls[c].op
    BY <1>1, WorkFacts
<1>3. OnDeviceWork(c) /\ DeviceOK /\ f \in Endpoints
    BY <1>1, <1>2, OwnPlace
<1>4. file[p].current = candidate[f]
    BY <1>1, <1>2, <1>3 DEF OnDeviceWork, BeforeStaged
<1>5. candidate' \in {candidate, [candidate EXCEPT ![f] = p]}
    BY <1>2 DEF StageRpc
<1>6. \A e \in Endpoints : candidate'[e] = candidate[e] \/ (e = f /\ candidate'[e] = p)
    BY <1>3, <1>5 DEF DeviceOK
<1>. QED
    BY <1>4, <1>6 DEF StagesWhatWasObserved

LEMMA CallObserves ==
    ASSUME RequiresLock, OpInv, DeviceInv, NEW c \in Callers,
           Request(c) \/ TakeGuard(c) \/ Cancel(c) \/ Advance(c)
    PROVE  StagesWhatWasObserved
<1>1. CASE StageRpc(c)
    BY <1>1, StageRpcObserves
<1>2. CASE RollbackRpc(c)
    <2>1. calls[c].step \in Working
        BY <1>2 DEF RollbackRpc, At, Working, Steps
    <2>2. End(c) \in Endpoints /\ DeviceOK
        BY <2>1, WorkFacts, DeviceTyped
    <2>3. candidate' \in {candidate, Reverted(End(c))}
        BY <1>2 DEF RollbackRpc
    <2>. QED
        BY <2>2, <2>3, NothingStaged DEF Reverted, DeviceOK
<1>3. CASE Request(c) \/ TakeGuard(c) \/ Cancel(c) \/ Refuse(c)
    <2>1. UNCHANGED device
        BY <1>3, Zenon DEF Request, stage_operation, apply_change_set, validate_operation, commit_operation,
              discard_operation, Begin, TakeGuard, Cancel, Refuse
    <2>. QED
        BY <2>1, NothingStaged DEF device
<1>4. CASE StageStep(c) /\ ~StageRpc(c)
    <2>1. UNCHANGED candidate \/ UNCHANGED device
        BY <1>4, Zenon DEF StageStep, Reserve, ReserveRefused, Claim, RecordRisk, TakeDeviceLock,
              CheckFingerprint, RecordTouch, ReadAfter, RecordStaged, NoteAndReturnHandle, ReleaseRpc, Drop
    <2>. QED
        BY <2>1, NothingStaged DEF device
<1>5. CASE LaterStep(c) /\ ~RollbackRpc(c)
    <2>1. UNCHANGED candidate \/ UNCHANGED device
        BY <1>5, Zenon DEF LaterStep, StartValidate, StartCommit, StartDiscard, Announce, ValidateRpc,
              CommitRpc, UnlockRpc, ReadReverted, Settle
    <2>. QED
        BY <2>1, NothingStaged DEF device
<1>. QED
    BY <1>1, <1>2, <1>3, <1>4, <1>5 DEF Advance

LEMMA EnvironmentObserves == ASSUME OpInv, Environment PROVE StagesWhatWasObserved
<1>1. CASE Crash \/ load \/ PersistOther
    <2>1. UNCHANGED candidate
        BY <1>1, Zenon DEF Crash, load, PersistOther, device
    <2>. QED
        BY <2>1, NothingStaged
<1>2. ASSUME NEW o \in OpIds, resolve_persisted_operation(o) PROVE StagesWhatWasObserved
    <2>1. candidate' \in {candidate, Reverted(EndpointOf[file[o].device])} /\ DeviceOK
        BY <1>2, DeviceTyped DEF resolve_persisted_operation
    <2>2. \A e \in Endpoints : candidate'[e] \in {candidate[e], running[e]}
        BY <2>1 DEF Reverted, DeviceOK
    <2>. QED
        BY <2>2, NothingStaged
<1>3. ASSUME NEW o \in OpIds, DeviceFinishes(o) PROVE StagesWhatWasObserved
    <2>1. candidate' \in {candidate, [candidate EXCEPT ![EndpointOf[minted[o]]] = "Base"]} /\ DeviceOK
        BY <1>3, DeviceTyped DEF DeviceFinishes
    <2>2. \A e \in Endpoints : candidate'[e] \in {candidate[e], "Base"}
        BY <2>1 DEF DeviceOK
    <2>. QED
        BY <2>2, Constants, NothingStaged
<1>4. ASSUME NEW f \in Endpoints, ForeignEdit(f) PROVE StagesWhatWasObserved
    <2>1. \A e \in Endpoints : candidate'[e] \in {candidate[e], "Drift"}
        BY <1>4, DeviceTyped DEF ForeignEdit, DeviceOK
    <2>. QED
        BY <2>1, Constants, NothingStaged
<1>. QED
    BY <1>1, <1>2, <1>3, <1>4 DEF Environment

\* With a device lock, stage() only ever puts actions onto the candidate the
\* record says was observed: nothing slips in between CheckFingerprint and
\* StageRpc, and the record on disk names the same fingerprint.
THEOREM StagingStaysOnObserved == AllOrNone /\ RequiresLock => (Spec => StagedOnWhatWasObserved)
<1> SUFFICES ASSUME AllOrNone, RequiresLock PROVE Spec => StagedOnWhatWasObserved
    OBVIOUS
<1>1. OpInv /\ DeviceInv /\ [Next]_vars => [StagesWhatWasObserved]_vars
    <2> SUFFICES ASSUME OpInv, DeviceInv, Next PROVE StagesWhatWasObserved
        OBVIOUS
    <2>. QED
        BY CallObserves, EnvironmentObserves DEF Next
<1>. QED
    BY <1>1, OperationInvariant, DeviceInvariant, PTL DEF StagedOnWhatWasObserved, Spec
=============================================================================
