--------------------------- MODULE StateFileProofs ---------------------------
(***************************************************************************)
(* An acknowledged offline resolution is never undone, for any number of   *)
(* servers, repairs and operations.                                        *)
(***************************************************************************)
EXTENDS StateFile, TLAPS

Files == [Persisted -> Lifecycle]
ServerSteps == {"down", "owner", "loading", "recovering", "up", "persist", "writing"}
RepairSteps == {"idle", "locked", "probing", "clear", "resolving"}
ServerRecord == [step : ServerSteps, memory : Files, next : Files]
RepairRecord == [step : RepairSteps, read : Files, operation : Persisted \cup {Nobody}, as : Terminal]

FileTypeOK ==
    /\ file \in Files
    /\ server \in [Servers -> ServerRecord]
    /\ repair \in [Repairs -> RepairRecord]
    /\ settled \in [Persisted -> Terminal \cup {Nobody}]

\* Which lock each step holds: the kernel's exclusion and the order in which
\* the code takes and drops the two locks.
LocksHeld ==
    /\ \A s \in Servers : owner = s <=> server[s].step # "down"
    /\ \A s \in Servers : cycle = s <=> server[s].step \in {"loading", "recovering", "writing"}
    /\ \A r \in Repairs : owner = r <=> repair[r].step = "probing"
    /\ \A r \in Repairs : cycle = r <=> repair[r].step # "idle"

\* A repair past its probe found no server, and one that has come since waits
\* for the cycle before it reads.
ProbeStands ==
    \A r \in Repairs : repair[r].step \in {"clear", "resolving"} =>
        \A s \in Servers : server[s].step \in {"down", "owner"}

\* What was read under the cycle lock is still what the file holds, and a
\* write a server is about to make keeps every settled operation.
CopiesAreCurrent ==
    /\ \A s \in Servers : server[s].step = "recovering" =>
          server[s].memory = file /\ server[s].next = Recovered(file)
    /\ \A s \in Servers : server[s].step \in {"persist", "writing"} =>
          \A o \in Persisted : settled[o] # Nobody => server[s].next[o] = settled[o]
    /\ \A r \in Repairs : repair[r].step # "idle" => repair[r].operation \in Persisted
    /\ \A r \in Repairs : repair[r].step = "resolving" =>
          repair[r].read = file /\ file[repair[r].operation] \notin Terminal

FileInv == FileTypeOK /\ LocksHeld /\ ProbeStands /\ CopiesAreCurrent /\ ResolutionHolds

LEMMA Distinct ==
    /\ \A s \in Servers : s # Nobody /\ s \notin Repairs
    /\ \A r \in Repairs : r # Nobody /\ r \notin Servers
BY ProcessesAssumption DEF ProcessesAssumption

LEMMA FreshIsFile == FreshFile \in Files /\ Down \in ServerRecord /\ AtRest \in RepairRecord
<1>1. FreshFile \in Files
    BY DEF FreshFile, Files, Lifecycle
<1>. QED
    BY <1>1 DEF Down, AtRest, ServerRecord, RepairRecord, ServerSteps, RepairSteps, Terminal

LEMMA RecoveredIsFile == \A f \in Files : Recovered(f) \in Files
BY DEF Files, Recovered, Lifecycle

LEMMA RecoveredKeepsTerminal ==
    ASSUME NEW f \in Files, NEW o \in Persisted, f[o] \in Terminal
    PROVE  Recovered(f)[o] = f[o]
BY DEF Files, Recovered, Terminal

LEMMA FileInitial == FileInit => FileInv
<1> SUFFICES ASSUME FileInit PROVE FileInv
    OBVIOUS
<1>1. FileTypeOK
    BY FreshIsFile DEF FileInit, FileTypeOK
<1>2. /\ \A s \in Servers : server[s].step = "down"
      /\ \A r \in Repairs : repair[r].step = "idle"
      /\ \A o \in Persisted : settled[o] = Nobody
    BY DEF FileInit, Down, AtRest
<1>3. LocksHeld
    BY <1>2, Distinct DEF FileInit, LocksHeld
<1>4. ProbeStands /\ CopiesAreCurrent /\ ResolutionHolds
    BY <1>2 DEF ProbeStands, CopiesAreCurrent, ResolutionHolds
<1>. QED
    BY <1>1, <1>3, <1>4 DEF FileInv

----------------------------------------------------------------------------
(* The server *)

LEMMA OwnKeeps == ASSUME FileInv, NEW s \in Servers, Own(s) PROVE FileInv'
<1> DEFINE rec == [server[s] EXCEPT !.step = "owner"]
<1>1. /\ rec \in ServerRecord /\ rec.step = "owner"
      /\ server' = [server EXCEPT ![s] = rec]
    BY DEF FileInv, FileTypeOK, Own, ServerGoes, ServerRecord, ServerSteps
<1> HIDE DEF rec
<1>2. \A t \in Servers : server'[t] = IF t = s THEN rec ELSE server[t]
    BY <1>1 DEF FileInv, FileTypeOK
<1>3. FileTypeOK'
    BY <1>1 DEF FileInv, FileTypeOK, Own
<1>4. LocksHeld'
    BY <1>1, <1>2, Distinct DEF FileInv, LocksHeld, Own
<1>5. ProbeStands'
    BY <1>1, <1>2 DEF FileInv, ProbeStands, Own
<1>6. CopiesAreCurrent'
    BY <1>1, <1>2 DEF FileInv, CopiesAreCurrent, Own
<1>7. ResolutionHolds'
    BY <1>1, <1>2 DEF FileInv, ResolutionHolds, Own
<1>. QED
    BY <1>3, <1>4, <1>5, <1>6, <1>7 DEF FileInv

LEMMA AwaitCycleKeeps == ASSUME FileInv, NEW s \in Servers, AwaitCycle(s) PROVE FileInv'
<1> DEFINE rec == [server[s] EXCEPT !.step = "loading"]
<1>1. /\ rec \in ServerRecord /\ rec.step = "loading"
      /\ server' = [server EXCEPT ![s] = rec]
    BY FreshIsFile, RecoveredIsFile DEF FileInv, FileTypeOK, AwaitCycle, ServerGoes, ServerRecord, ServerSteps
<1> HIDE DEF rec
<1>2. \A t \in Servers : server'[t] = IF t = s THEN rec ELSE server[t]
    BY <1>1 DEF FileInv, FileTypeOK
<1>3. FileTypeOK'
    BY <1>1 DEF FileInv, FileTypeOK, AwaitCycle
<1>4. LocksHeld'
    BY <1>1, <1>2, Distinct DEF FileInv, LocksHeld, AwaitCycle
<1>5. ProbeStands'
    BY <1>1, <1>2, Distinct DEF FileInv, LocksHeld, ProbeStands, AwaitCycle
<1>6. CopiesAreCurrent'
    BY <1>1, <1>2, Distinct DEF FileInv, FileTypeOK, LocksHeld, CopiesAreCurrent, AwaitCycle
<1>7. ResolutionHolds'
    BY <1>1, <1>2 DEF FileInv, ResolutionHolds, AwaitCycle
<1>. QED
    BY <1>3, <1>4, <1>5, <1>6, <1>7 DEF FileInv

LEMMA ReadStateKeeps == ASSUME FileInv, NEW s \in Servers, ReadState(s) PROVE FileInv'
<1> DEFINE rec == [step |-> "recovering", memory |-> file, next |-> Recovered(file)]
<1>1. /\ rec \in ServerRecord /\ rec.step = "recovering" /\ rec.memory = file /\ rec.next = Recovered(file)
      /\ server' = [server EXCEPT ![s] = rec]
    BY FreshIsFile, RecoveredIsFile DEF FileInv, FileTypeOK, ReadState, ServerGoes, ServerRecord, ServerSteps
<1> HIDE DEF rec
<1>2. \A t \in Servers : server'[t] = IF t = s THEN rec ELSE server[t]
    BY <1>1 DEF FileInv, FileTypeOK
<1>3. FileTypeOK'
    BY <1>1 DEF FileInv, FileTypeOK, ReadState
<1>4. LocksHeld'
    BY <1>1, <1>2, Distinct DEF FileInv, LocksHeld, ReadState
<1>5. ProbeStands'
    BY <1>1, <1>2, Distinct DEF FileInv, LocksHeld, ProbeStands, ReadState
<1>6. CopiesAreCurrent'
    BY <1>1, <1>2, Distinct DEF FileInv, FileTypeOK, LocksHeld, CopiesAreCurrent, ReadState
<1>7. ResolutionHolds'
    BY <1>1, <1>2 DEF FileInv, ResolutionHolds, ReadState
<1>. QED
    BY <1>3, <1>4, <1>5, <1>6, <1>7 DEF FileInv

LEMMA LockToPersistKeeps == ASSUME FileInv, NEW s \in Servers, LockToPersist(s) PROVE FileInv'
<1> DEFINE rec == [server[s] EXCEPT !.step = "writing"]
<1>1. /\ rec \in ServerRecord /\ rec.step = "writing" /\ rec.memory = server[s].memory /\ rec.next = server[s].next
      /\ server' = [server EXCEPT ![s] = rec]
    BY FreshIsFile, RecoveredIsFile DEF FileInv, FileTypeOK, LockToPersist, ServerGoes, ServerRecord, ServerSteps
<1> HIDE DEF rec
<1>2. \A t \in Servers : server'[t] = IF t = s THEN rec ELSE server[t]
    BY <1>1 DEF FileInv, FileTypeOK
<1>3. FileTypeOK'
    BY <1>1 DEF FileInv, FileTypeOK, LockToPersist
<1>4. LocksHeld'
    BY <1>1, <1>2, Distinct DEF FileInv, LocksHeld, LockToPersist
<1>5. ProbeStands'
    BY <1>1, <1>2, Distinct DEF FileInv, LocksHeld, ProbeStands, LockToPersist
<1>6. CopiesAreCurrent'
    BY <1>1, <1>2, Distinct DEF FileInv, FileTypeOK, LocksHeld, CopiesAreCurrent, LockToPersist
<1>7. ResolutionHolds'
    BY <1>1, <1>2 DEF FileInv, ResolutionHolds, LockToPersist
<1>. QED
    BY <1>3, <1>4, <1>5, <1>6, <1>7 DEF FileInv

LEMMA EndServerKeeps == ASSUME FileInv, NEW s \in Servers, EndServer(s) PROVE FileInv'
<1> DEFINE rec == Down
<1>1. /\ rec \in ServerRecord /\ rec.step = "down"
      /\ server' = [server EXCEPT ![s] = rec]
    BY FreshIsFile, RecoveredIsFile DEF FileInv, FileTypeOK, EndServer, ServerGoes, ServerRecord, ServerSteps, Down
<1> HIDE DEF rec
<1>2. \A t \in Servers : server'[t] = IF t = s THEN rec ELSE server[t]
    BY <1>1 DEF FileInv, FileTypeOK
<1>3. FileTypeOK'
    BY <1>1 DEF FileInv, FileTypeOK, EndServer
<1>4. LocksHeld'
    BY <1>1, <1>2, Distinct DEF FileInv, LocksHeld, EndServer
<1>5. ProbeStands'
    BY <1>1, <1>2, Distinct DEF FileInv, LocksHeld, ProbeStands, EndServer
<1>6. CopiesAreCurrent'
    BY <1>1, <1>2, Distinct DEF FileInv, FileTypeOK, LocksHeld, CopiesAreCurrent, EndServer
<1>7. ResolutionHolds'
    BY <1>1, <1>2 DEF FileInv, ResolutionHolds, EndServer
<1>. QED
    BY <1>3, <1>4, <1>5, <1>6, <1>7 DEF FileInv

LEMMA ChangeRecordKeeps == ASSUME FileInv, NEW s \in Servers, ChangeRecord(s) PROVE FileInv'
<1>0. PICK o \in Persisted, state \in Lifecycle :
          /\ server[s].memory[o] \notin Terminal
          /\ server' = [server EXCEPT ![s].step = "persist",
                                      ![s].next = [server[s].memory EXCEPT ![o] = state]]
    BY DEF ChangeRecord
<1> DEFINE new == [server[s].memory EXCEPT ![o] = state]
           rec == [server[s] EXCEPT !.step = "persist", !.next = new]
<1>u. server[s].step = "up" /\ UNCHANGED <<file, owner, cycle, repair, settled, ends>>
    BY DEF ChangeRecord
<1>a. server[s] \in ServerRecord /\ server[s].memory \in Files
    BY DEF FileInv, FileTypeOK, ServerRecord
<1>b. new \in Files
    BY <1>a DEF Files
<1>c. server' = [server EXCEPT ![s] = rec]
    BY <1>0 DEF FileInv, FileTypeOK
<1>d. \A p \in Persisted : settled[p] # Nobody => new[p] = settled[p]
    <2>1. \A p \in Persisted : settled[p] # Nobody =>
              server[s].memory[p] = settled[p] /\ settled[p] \in Terminal
        BY DEF FileInv, FileTypeOK, ResolutionHolds, ChangeRecord
    <2>. QED
        BY <1>0, <1>a, <2>1 DEF Files
<1> HIDE DEF new
<1>1. /\ rec \in ServerRecord /\ rec.step = "persist" /\ rec.next = new
      /\ rec.memory = server[s].memory
    BY <1>a, <1>b DEF ServerRecord, ServerSteps
<1> HIDE DEF rec
<1>2. \A t \in Servers : server'[t] = IF t = s THEN rec ELSE server[t]
    BY <1>c DEF FileInv, FileTypeOK
<1>3. FileTypeOK'
    BY <1>u, <1>1, <1>c DEF FileInv, FileTypeOK
<1>4. LocksHeld'
    BY <1>u, <1>1, <1>2 DEF FileInv, LocksHeld
<1>5. ProbeStands'
    BY <1>u, <1>1, <1>2 DEF FileInv, ProbeStands
<1>6. CopiesAreCurrent'
    BY <1>u, <1>1, <1>2, <1>d DEF FileInv, CopiesAreCurrent
<1>7. ResolutionHolds'
    BY <1>u, <1>1, <1>2 DEF FileInv, ResolutionHolds
<1>. QED
    BY <1>3, <1>4, <1>5, <1>6, <1>7 DEF FileInv

\* A server that holds its owner lock is the only one that runs, and under
\* the cycle lock no repair is past its start.
LEMMA AloneInCycle ==
    ASSUME FileInv, NEW s \in Servers, server[s].step \in {"recovering", "writing"}
    PROVE  /\ \A t \in Servers : t # s => server[t].step = "down"
           /\ \A r \in Repairs : repair[r].step = "idle"
           /\ owner = s /\ cycle = s
BY Distinct DEF FileInv, LocksHeld

\* The end of a cycle in which a server wrote or left the file: what it wrote
\* keeps the settled operations, and it goes on with a memory that has them
\* or goes down.
LEMMA ServerEndsCycle ==
    ASSUME FileInv, NEW s \in Servers, server[s].step \in {"recovering", "writing"},
           NEW rec \in ServerRecord, server' = [server EXCEPT ![s] = rec],
           file' \in Files,
           \A o \in Persisted : settled[o] # Nobody => file'[o] = settled[o],
           \/ /\ rec.step = "up" /\ owner' = owner
              /\ \A o \in Persisted : settled[o] # Nobody => rec.memory[o] = settled[o]
           \/ rec.step = "down" /\ owner' = Nobody,
           cycle' = Nobody, UNCHANGED <<repair, settled>>
    PROVE  FileInv'
<1>1. \A t \in Servers : server'[t] = IF t = s THEN rec ELSE server[t]
    BY DEF FileInv, FileTypeOK
<1>2. /\ \A t \in Servers : t # s => server[t].step = "down"
      /\ \A r \in Repairs : repair[r].step = "idle"
      /\ owner = s
    BY AloneInCycle
<1>3. FileTypeOK'
    BY DEF FileInv, FileTypeOK
<1>4. LocksHeld'
    BY <1>1, <1>2, Distinct DEF LocksHeld
<1>5. ProbeStands'
    BY <1>2 DEF ProbeStands
<1>6. CopiesAreCurrent'
    BY <1>1, <1>2 DEF CopiesAreCurrent
<1>7. ResolutionHolds'
    BY <1>1, <1>2 DEF ResolutionHolds
<1>. QED
    BY <1>3, <1>4, <1>5, <1>6, <1>7 DEF FileInv

LEMMA FinishStartKeeps == ASSUME FileInv, NEW s \in Servers, FinishStart(s) PROVE FileInv'
<1>1. /\ server[s].step = "recovering" /\ server[s] \in ServerRecord /\ file \in Files
      /\ server[s].memory = file /\ server[s].next = Recovered(file)
      /\ UNCHANGED <<repair, settled>>
    BY DEF FinishStart, FileInv, FileTypeOK, CopiesAreCurrent
<1>2. cycle' = Nobody
    BY <1>1, AloneInCycle DEF FinishStart
<1>3. \A o \in Persisted : settled[o] # Nobody => file[o] = settled[o] /\ file[o] \in Terminal
    BY DEF FileInv, FileTypeOK, ResolutionHolds
<1>4. server[s].next \in Files
      /\ \A o \in Persisted : settled[o] # Nobody => server[s].next[o] = settled[o]
    BY <1>1, <1>3, RecoveredIsFile, RecoveredKeepsTerminal
<1> DEFINE unchanged == [server[s] EXCEPT !.step = "up"]
           renewed == [server[s] EXCEPT !.step = "up", !.memory = server[s].next]
<1>5. /\ unchanged \in ServerRecord /\ unchanged.step = "up" /\ unchanged.memory = file
      /\ renewed \in ServerRecord /\ renewed.step = "up" /\ renewed.memory = server[s].next
      /\ Down \in ServerRecord /\ Down.step = "down"
    BY <1>1, <1>4, FreshIsFile DEF ServerRecord, ServerSteps, Down
<1>6. \/ server' = [server EXCEPT ![s] = unchanged] /\ file' = file /\ owner' = owner
      \/ /\ server' = [server EXCEPT ![s] = renewed] /\ owner' = owner
         /\ file' = server[s].next
      \/ /\ server' = [server EXCEPT ![s] = Down] /\ owner' = Nobody
         /\ file' \in {server[s].next, file}
    <2>1. CASE server[s].next = server[s].memory
        BY <2>1 DEF FinishStart, ServerGoes, FileInv, FileTypeOK
    <2>2. CASE server[s].next # server[s].memory
        <3>1. PICK result \in WriteResults(server[s].next) :
                  /\ file' = result.file
                  /\ IF result.ok
                     THEN /\ server' = [server EXCEPT ![s].step = "up",
                                                      ![s].memory = server[s].next]
                          /\ UNCHANGED owner
                     ELSE /\ server' = [server EXCEPT ![s] = Down]
                          /\ owner' = Nobody
            BY <2>2 DEF FinishStart
        <3>2. result.file \in {server[s].next, file}
            BY DEF WriteResults
        <3>3. CASE result.ok
            <4>1. result.file = server[s].next
                BY <3>3 DEF WriteResults
            <4>2. server' = [server EXCEPT ![s] = renewed] /\ owner' = owner
                BY <3>1, <3>3 DEF FileInv, FileTypeOK
            <4>. QED
                BY <3>1, <4>1, <4>2
        <3>4. CASE ~result.ok
            BY <3>1, <3>2, <3>4
        <3>. QED
            BY <3>3, <3>4
    <2>. QED
        BY <2>1, <2>2
<1> HIDE DEF unchanged, renewed
<1>. QED
    BY <1>1, <1>2, <1>3, <1>4, <1>5, <1>6, ServerEndsCycle

LEMMA WritePersistedKeeps == ASSUME FileInv, NEW s \in Servers, WritePersisted(s) PROVE FileInv'
<1>1. /\ server[s].step = "writing" /\ server[s] \in ServerRecord /\ file \in Files
      /\ server[s].next \in Files
      /\ cycle' = Nobody /\ UNCHANGED <<owner, repair, settled>>
    BY DEF WritePersisted, FileInv, FileTypeOK, ServerRecord
<1>2. \A o \in Persisted : settled[o] # Nobody =>
          file[o] = settled[o] /\ server[s].next[o] = settled[o] /\ server[s].memory[o] = settled[o]
    BY <1>1 DEF FileInv, ResolutionHolds, CopiesAreCurrent
<1> DEFINE unchanged == [server[s] EXCEPT !.step = "up"]
           renewed == [server[s] EXCEPT !.step = "up", !.memory = server[s].next]
<1>3. /\ unchanged \in ServerRecord /\ unchanged.step = "up"
      /\ unchanged.memory = server[s].memory
      /\ renewed \in ServerRecord /\ renewed.step = "up" /\ renewed.memory = server[s].next
    BY <1>1 DEF ServerRecord, ServerSteps
<1>4. /\ \/ server' = [server EXCEPT ![s] = unchanged]
         \/ server' = [server EXCEPT ![s] = renewed]
      /\ file' \in {server[s].next, file}
    <2>1. PICK result \in WriteResults(server[s].next), kept \in BOOLEAN :
              /\ file' = result.file
              /\ server' = [server EXCEPT ![s].step = "up",
                                          ![s].memory = IF kept THEN server[s].next ELSE @]
        BY DEF WritePersisted
    <2>2. result.file \in {server[s].next, file}
        BY DEF WriteResults
    <2>3. CASE kept
        <3>1. server' = [server EXCEPT ![s].step = "up", ![s].memory = server[s].next]
            BY <2>1, <2>3
        <3>2. server' = [server EXCEPT ![s] = renewed]
            BY <3>1 DEF FileInv, FileTypeOK
        <3>. QED
            BY <2>1, <2>2, <3>2
    <2>4. CASE ~kept
        <3>1. server' = [server EXCEPT ![s].step = "up", ![s].memory = @]
            BY <2>1, <2>4
        <3>2. server' = [server EXCEPT ![s] = [server[s] EXCEPT !.step = "up", !.memory = @]]
            BY <3>1 DEF FileInv, FileTypeOK
        <3>3. [server[s] EXCEPT !.step = "up", !.memory = @] = unchanged
            BY <1>1 DEF ServerRecord
        <3>. QED
            BY <2>1, <2>2, <3>2, <3>3
    <2>. QED
        BY <2>3, <2>4
<1> HIDE DEF unchanged, renewed
<1>. QED
    BY <1>1, <1>2, <1>3, <1>4, ServerEndsCycle

----------------------------------------------------------------------------
(* The repair *)

\* A repair that moves without touching the file or what was acknowledged: it
\* holds the locks of its new step, and past its probe there is no server.
LEMMA RepairMoves ==
    ASSUME FileInv, NEW r \in Repairs, NEW rec \in RepairRecord,
           repair' = [repair EXCEPT ![r] = rec],
           UNCHANGED <<file, server, settled>>,
           owner' = r <=> rec.step = "probing",
           cycle' = r <=> rec.step # "idle",
           owner' = owner \/ {owner, owner'} \subseteq {r, Nobody},
           cycle' = cycle \/ {cycle, cycle'} \subseteq {r, Nobody},
           rec.step # "idle" => rec.operation \in Persisted,
           rec.step \in {"clear", "resolving"} =>
               \A s \in Servers : server[s].step \in {"down", "owner"},
           rec.step = "resolving" => rec.read = file /\ file[rec.operation] \notin Terminal
    PROVE  FileInv'
<1>1. \A q \in Repairs : repair'[q] = IF q = r THEN rec ELSE repair[q]
    BY DEF FileInv, FileTypeOK
<1>2. FileTypeOK'
    BY DEF FileInv, FileTypeOK
<1>3. LocksHeld'
    BY <1>1, Distinct DEF FileInv, LocksHeld
<1>4. ProbeStands'
    BY <1>1 DEF FileInv, ProbeStands
<1>5. CopiesAreCurrent'
    BY <1>1 DEF FileInv, CopiesAreCurrent
<1>6. ResolutionHolds'
    BY DEF FileInv, ResolutionHolds
<1>. QED
    BY <1>2, <1>3, <1>4, <1>5, <1>6 DEF FileInv

LEMMA AtRestIsIdle == AtRest \in RepairRecord /\ AtRest.step = "idle"
BY FreshIsFile DEF AtRest

LEMMA StartRepairKeeps == ASSUME FileInv, NEW r \in Repairs, StartRepair(r) PROVE FileInv'
<1>1. PICK o \in Persisted, as \in Terminal :
          repair' = [repair EXCEPT ![r].step = "locked", ![r].operation = o, ![r].as = as]
    BY DEF StartRepair
<1> DEFINE rec == [repair[r] EXCEPT !.step = "locked", !.operation = o, !.as = as]
<1>2. /\ rec \in RepairRecord /\ rec.step = "locked" /\ rec.operation = o
      /\ repair' = [repair EXCEPT ![r] = rec]
    BY <1>1 DEF FileInv, FileTypeOK, RepairRecord, RepairSteps
<1> HIDE DEF rec
<1>3. /\ cycle = Nobody /\ cycle' = r /\ owner' = owner /\ owner # r
      /\ UNCHANGED <<file, server, settled>>
    BY DEF StartRepair, FileInv, LocksHeld
<1>. QED
    BY <1>2, <1>3, RepairMoves

LEMMA ProbeOwnerKeeps == ASSUME FileInv, NEW r \in Repairs, ProbeOwner(r) PROVE FileInv'
<1>1. /\ repair[r].step = "locked" /\ cycle = r /\ owner # r /\ r # Nobody
      /\ repair[r].operation \in Persisted /\ UNCHANGED <<file, server, settled>>
    BY Distinct DEF ProbeOwner, FileInv, LocksHeld, CopiesAreCurrent
<1>2. CASE owner = Nobody
    <2> DEFINE rec == [repair[r] EXCEPT !.step = "probing"]
    <2>1. /\ rec \in RepairRecord /\ rec.step = "probing" /\ rec.operation = repair[r].operation
          /\ repair' = [repair EXCEPT ![r] = rec] /\ owner' = r /\ cycle' = cycle
        BY <1>2 DEF ProbeOwner, FileInv, FileTypeOK, RepairRecord, RepairSteps
    <2> HIDE DEF rec
    <2>. QED
        BY <1>1, <1>2, <2>1, RepairMoves
<1>3. CASE owner # Nobody
    <2>1. repair' = [repair EXCEPT ![r] = AtRest] /\ cycle' = Nobody /\ owner' = owner
        BY <1>1, <1>3 DEF ProbeOwner, RepairEnds, Unlocks
    <2>. QED
        BY <1>1, <2>1, AtRestIsIdle, RepairMoves
<1>. QED
    BY <1>2, <1>3

\* The owner lock was the repair's, so no server is up; one that takes it from
\* here on finds the cycle lock taken.
LEMMA EndProbeKeeps == ASSUME FileInv, NEW r \in Repairs, EndProbe(r) PROVE FileInv'
<1>1. /\ repair[r].step = "probing" /\ cycle = r /\ owner = r /\ r # Nobody
      /\ repair[r].operation \in Persisted
      /\ \A s \in Servers : server[s].step = "down"
      /\ UNCHANGED <<file, cycle, server, settled>> /\ owner' = Nobody
    BY Distinct DEF EndProbe, FileInv, LocksHeld, CopiesAreCurrent
<1> DEFINE rec == [repair[r] EXCEPT !.step = "clear"]
<1>2. /\ rec \in RepairRecord /\ rec.step = "clear" /\ rec.operation = repair[r].operation
      /\ repair' = [repair EXCEPT ![r] = rec]
    BY DEF EndProbe, FileInv, FileTypeOK, RepairRecord, RepairSteps
<1> HIDE DEF rec
<1>. QED
    BY <1>1, <1>2, RepairMoves

LEMMA ReadRecordKeeps == ASSUME FileInv, NEW r \in Repairs, ReadRecord(r) PROVE FileInv'
<1>1. /\ repair[r].step = "clear" /\ cycle = r /\ owner # r /\ r # Nobody
      /\ repair[r].operation \in Persisted
      /\ \A s \in Servers : server[s].step \in {"down", "owner"}
      /\ UNCHANGED <<file, owner, server, settled>>
    BY Distinct DEF ReadRecord, FileInv, LocksHeld, ProbeStands, CopiesAreCurrent
<1>2. CASE file[repair[r].operation] \in Terminal
    <2>1. repair' = [repair EXCEPT ![r] = AtRest] /\ cycle' = Nobody
        BY <1>1, <1>2 DEF ReadRecord, RepairEnds, Unlocks
    <2>. QED
        BY <1>1, <2>1, AtRestIsIdle, RepairMoves
<1>3. CASE file[repair[r].operation] \notin Terminal
    <2> DEFINE rec == [repair[r] EXCEPT !.step = "resolving", !.read = file]
    <2>1. /\ rec \in RepairRecord /\ rec.step = "resolving" /\ rec.read = file
          /\ rec.operation = repair[r].operation
          /\ repair' = [repair EXCEPT ![r] = rec] /\ cycle' = cycle
        BY <1>3 DEF ReadRecord, FileInv, FileTypeOK, RepairRecord, RepairSteps
    <2> HIDE DEF rec
    <2>. QED
        BY <1>1, <1>3, <2>1, RepairMoves
<1>. QED
    BY <1>2, <1>3

\* The write: the file is still what was read, no server has a copy of it, and
\* the operation was not settled before.
LEMMA WriteResolutionKeeps == ASSUME FileInv, NEW r \in Repairs, WriteResolution(r) PROVE FileInv'
<1> DEFINE o == repair[r].operation
           as == repair[r].as
           new == [file EXCEPT ![o] = as]
<1>1. /\ repair[r].step = "resolving" /\ cycle = r /\ owner # r /\ r # Nobody
      /\ o \in Persisted /\ repair[r].read = file /\ file[o] \notin Terminal
      /\ \A s \in Servers : server[s].step \in {"down", "owner"}
      /\ UNCHANGED <<owner, server>>
    BY Distinct DEF WriteResolution, FileInv, LocksHeld, ProbeStands, CopiesAreCurrent
<1>2. as \in Terminal /\ file \in Files /\ settled \in [Persisted -> Terminal \cup {Nobody}]
    BY DEF FileInv, FileTypeOK, RepairRecord
<1>3. settled[o] = Nobody
    BY <1>1, <1>2 DEF FileInv, ResolutionHolds
<1>4. new \in Files
    BY <1>1, <1>2 DEF Files, Lifecycle
<1>5. /\ repair' = [repair EXCEPT ![r] = AtRest] /\ cycle' = Nobody
    BY <1>1 DEF WriteResolution, RepairEnds, Unlocks
<1>6. \/ file' = new /\ settled' = [settled EXCEPT ![o] = as]
      \/ file' \in {new, file} /\ settled' = settled
    <2>1. PICK result \in WriteResults(new) :
              /\ file' = result.file
              /\ settled' = IF result.ok THEN [settled EXCEPT ![o] = as] ELSE settled
        BY <1>1 DEF WriteResolution
    <2>2. CASE result.ok
        <3>1. result.file = new
            BY <2>2 DEF WriteResults
        <3>. QED
            BY <2>1, <2>2, <3>1
    <2>3. CASE ~result.ok
        <3>1. result.file \in {new, file}
            BY DEF WriteResults
        <3>. QED
            BY <2>1, <2>3, <3>1
    <2>. QED
        BY <2>2, <2>3
<1>7. file' \in Files /\ settled' \in [Persisted -> Terminal \cup {Nobody}]
    BY <1>1, <1>2, <1>4, <1>6
<1>8. \A p \in Persisted : settled'[p] # Nobody => file'[p] = settled'[p]
    <2>1. \A p \in Persisted : settled[p] # Nobody => p # o /\ file[p] = settled[p]
        BY <1>3 DEF FileInv, ResolutionHolds
    <2>2. \A p \in Persisted : new[p] = IF p = o THEN as ELSE file[p]
        BY <1>2 DEF Files
    <2> HIDE DEF new, o, as
    <2>. QED
        BY <1>1, <1>2, <1>6, <2>1, <2>2
<1>9. /\ \A q \in Repairs : repair'[q] = IF q = r THEN AtRest ELSE repair[q]
      /\ \A q \in Repairs : repair'[q].step = "idle"
    BY <1>1, <1>5, AtRestIsIdle DEF FileInv, FileTypeOK, LocksHeld
<1>10. FileTypeOK'
    BY <1>1, <1>5, <1>7, AtRestIsIdle DEF FileInv, FileTypeOK
<1>11. LocksHeld'
    BY <1>1, <1>5, <1>9, Distinct DEF FileInv, LocksHeld
<1>12. ProbeStands' /\ CopiesAreCurrent' /\ ResolutionHolds'
    BY <1>1, <1>8, <1>9 DEF ProbeStands, CopiesAreCurrent, ResolutionHolds
<1>. QED
    BY <1>10, <1>11, <1>12 DEF FileInv

LEMMA EndRepairKeeps == ASSUME FileInv, NEW r \in Repairs, EndRepair(r) PROVE FileInv'
<1>1. /\ repair' = [repair EXCEPT ![r] = AtRest] /\ UNCHANGED <<file, server, settled>>
      /\ cycle' = IF cycle = r THEN Nobody ELSE cycle
      /\ owner' = IF owner = r THEN Nobody ELSE owner
    BY DEF EndRepair, RepairEnds, Unlocks
<1>. QED
    BY <1>1, AtRestIsIdle, Distinct, RepairMoves

----------------------------------------------------------------------------

LEMMA FileStep == FileInv /\ [FileNext]_fileVars => FileInv'
<1> SUFFICES ASSUME FileInv, [FileNext]_fileVars PROVE FileInv'
    OBVIOUS
<1>1. CASE UNCHANGED fileVars
    BY <1>1 DEF fileVars, FileInv, FileTypeOK, LocksHeld, ProbeStands, CopiesAreCurrent, ResolutionHolds
<1>. QED
    BY <1>1, OwnKeeps, AwaitCycleKeeps, ReadStateKeeps, FinishStartKeeps, ChangeRecordKeeps,
       LockToPersistKeeps, WritePersistedKeeps, EndServerKeeps, StartRepairKeeps, ProbeOwnerKeeps,
       EndProbeKeeps, ReadRecordKeeps, WriteResolutionKeeps, EndRepairKeeps DEF FileNext

\* For any number of servers, repairs and operations, and any crashes: what a
\* repair acknowledged stays in the file and no running server takes the
\* operation for unsettled (recovery.rs, the coordinator's start and persist).
THEOREM ResolutionStands == FileSpec => []ResolutionHolds
<1>1. FileInv => ResolutionHolds
    BY DEF FileInv
<1>. QED
    BY FileInitial, FileStep, <1>1, PTL DEF FileSpec
=============================================================================
