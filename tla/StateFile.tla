------------------------------ MODULE StateFile ------------------------------
(***************************************************************************)
(* The two file locks that keep servers and offline repairs of one state   *)
(* file apart (mecmcp-changeset: state_lock.rs, recovery.rs, and the start *)
(* and persist_locked of coordinator.rs).                                  *)
(*                                                                         *)
(* The owner lock is taken without waiting and kept for a server's life;   *)
(* the read-modify-write lock is waited for and kept over one cycle.  Both *)
(* are flock locks of a process, gone when it ends.  Every lock operation, *)
(* read and write is a step; a write fails in the two ways of ChangeSets:  *)
(* nothing reached the file, or all of it did and the error came later.    *)
(***************************************************************************)
EXTENDS Naturals

CONSTANTS
    Servers,      \* processes that run a coordinator on the file
    Repairs,      \* processes that run resolve_persisted_operation
    Persisted,    \* operations in the file
    MaxEnds,      \* bound: processes that crash or are stopped
    Nobody

ASSUME ProcessesAssumption ==
    /\ Servers \cap Repairs = {}
    /\ Nobody \notin Servers \cup Repairs
    /\ MaxEnds \in Nat

VARIABLES
    file,      \* the lifecycle state of each operation in the file
    owner,     \* holder of the owner lock
    cycle,     \* holder of the read-modify-write lock
    server,    \* each server's step, its memory and the write it is about to make
    repair,    \* each repair's step, what it read and what it is to settle
    settled,   \* history: what repairs that returned Ok said of an operation
    ends       \* how many processes ended

fileVars == <<file, owner, cycle, server, repair, settled, ends>>

Terminal == {"Committed", "Discarded"}
Lifecycle == Terminal \cup {"Staged", "Indeterminate"}

FreshFile == [o \in Persisted |-> "Staged"]
Down == [step |-> "down", memory |-> FreshFile, next |-> FreshFile]
AtRest == [step |-> "idle", read |-> FreshFile, operation |-> Nobody, as |-> "Committed"]

FileInit ==
    /\ file = FreshFile
    /\ owner = Nobody /\ cycle = Nobody
    /\ server = [s \in Servers |-> Down]
    /\ repair = [r \in Repairs |-> AtRest]
    /\ settled = [o \in Persisted |-> Nobody]
    /\ ends = 0

\* What write_state leaves behind, and whether it answers Ok.
WriteResults(new) ==
    {[file |-> new, ok |-> TRUE], [file |-> new, ok |-> FALSE], [file |-> file, ok |-> FALSE]}

ServerGoes(s, step) == server' = [server EXCEPT ![s].step = step]

----------------------------------------------------------------------------
(* The server *)

\* try_acquire_owner: a lock that is held, by a server or by a repair's
\* probe, ends the start with an error and changes nothing.
Own(s) ==
    /\ server[s].step = "down" /\ owner = Nobody
    /\ owner' = s
    /\ ServerGoes(s, "owner")
    /\ UNCHANGED <<file, cycle, repair, settled, ends>>

AwaitCycleUnlocked(s) ==  \* mutant
    /\ server[s].step = "owner"
    /\ cycle' = IF cycle = Nobody THEN s ELSE cycle
    /\ ServerGoes(s, "loading")
    /\ UNCHANGED <<file, owner, repair, settled, ends>>

AwaitCycle(s) ==
    /\ server[s].step = "owner" /\ cycle = Nobody
    /\ cycle' = s
    /\ ServerGoes(s, "loading")
    /\ UNCHANGED <<file, owner, repair, settled, ends>>

\* Restart recovery: what was in flight becomes Indeterminate.
Recovered(snapshot) ==
    [o \in Persisted |-> IF snapshot[o] = "Staged" THEN "Indeterminate" ELSE snapshot[o]]

ReadState(s) ==
    /\ server[s].step = "loading"
    /\ server' = [server EXCEPT ![s] =
           [step |-> "recovering", memory |-> file, next |-> Recovered(file)]]
    /\ UNCHANGED <<file, owner, cycle, repair, settled, ends>>

\* The recovered state is written only if recovery changed something; a
\* failed write ends the start.  Either way the cycle is over.
FinishStart(s) ==
    /\ server[s].step = "recovering"
    /\ \/ /\ server[s].next = server[s].memory
          /\ ServerGoes(s, "up")
          /\ UNCHANGED <<file, owner>>
       \/ /\ server[s].next # server[s].memory
          /\ \E result \in WriteResults(server[s].next) :
                /\ file' = result.file
                /\ IF result.ok
                   THEN /\ server' = [server EXCEPT ![s].step = "up",
                                                    ![s].memory = server[s].next]
                        /\ UNCHANGED owner
                   ELSE /\ server' = [server EXCEPT ![s] = Down]
                        /\ owner' = Nobody
    /\ cycle' = IF cycle = s THEN Nobody ELSE cycle
    /\ UNCHANGED <<repair, settled, ends>>

\* A call moves an unsettled operation on and is about to persist the map.
ChangeRecord(s) ==
    /\ server[s].step = "up"
    /\ \E o \in Persisted, state \in Lifecycle \ {"Staged"} :
          /\ server[s].memory[o] \notin Terminal
          /\ server' = [server EXCEPT
                ![s].step = "persist",
                ![s].next = [server[s].memory EXCEPT ![o] = state]]
    /\ UNCHANGED <<file, owner, cycle, repair, settled, ends>>

LockToPersist(s) ==
    /\ server[s].step = "persist" /\ cycle = Nobody
    /\ cycle' = s
    /\ ServerGoes(s, "writing")
    /\ UNCHANGED <<file, owner, repair, settled, ends>>

\* Whether memory keeps a change whose write failed differs between the
\* callers of persist_locked.
WritePersisted(s) ==
    /\ server[s].step = "writing"
    /\ \E result \in WriteResults(server[s].next), kept \in BOOLEAN :
          /\ file' = result.file
          /\ result.ok => kept
          /\ server' = [server EXCEPT ![s].step = "up",
                                      ![s].memory = IF kept THEN server[s].next ELSE @]
    /\ cycle' = Nobody
    /\ UNCHANGED <<owner, repair, settled, ends>>

\* A stop or a crash: the process is gone and so are its locks.
EndServer(s) ==
    /\ server[s].step # "down" /\ ends < MaxEnds
    /\ server' = [server EXCEPT ![s] = Down]
    /\ owner' = Nobody
    /\ cycle' = IF cycle = s THEN Nobody ELSE cycle
    /\ ends' = ends + 1
    /\ UNCHANGED <<file, repair, settled>>

----------------------------------------------------------------------------
(* resolve_persisted_operation *)

RepairEnds(r) == repair' = [repair EXCEPT ![r] = AtRest]
Unlocks(p) == cycle' = IF cycle = p THEN Nobody ELSE cycle

StartRepair(r) ==
    /\ repair[r].step = "idle" /\ cycle = Nobody
    /\ cycle' = r
    /\ \E o \in Persisted, as \in Terminal :
          repair' = [repair EXCEPT ![r].step = "locked", ![r].operation = o, ![r].as = as]
    /\ UNCHANGED <<file, owner, server, settled, ends>>

\* The owner lock is tried; a server that has it ends the repair.
ProbeOwner(r) ==
    /\ repair[r].step = "locked"
    /\ \/ /\ owner = Nobody
          /\ owner' = r
          /\ repair' = [repair EXCEPT ![r].step = "probing"]
          /\ UNCHANGED cycle
       \/ /\ owner # Nobody
          /\ RepairEnds(r) /\ Unlocks(r)
          /\ UNCHANGED owner
    /\ UNCHANGED <<file, server, settled, ends>>

\* A probe, not a hold: the lock goes back at once.
EndProbe(r) ==
    /\ repair[r].step = "probing"
    /\ owner' = Nobody
    /\ repair' = [repair EXCEPT ![r].step = "clear"]
    /\ UNCHANGED <<file, cycle, server, settled, ends>>

\* The file is read; an operation that is settled already is refused.
ReadRecord(r) ==
    /\ repair[r].step = "clear"
    /\ IF file[repair[r].operation] \in Terminal
       THEN RepairEnds(r) /\ Unlocks(r)
       ELSE /\ repair' = [repair EXCEPT ![r].step = "resolving", ![r].read = file]
            /\ UNCHANGED cycle
    /\ UNCHANGED <<file, owner, server, settled, ends>>

WriteResolution(r) ==
    /\ repair[r].step = "resolving"
    /\ LET o == repair[r].operation
       IN  \E result \in WriteResults([repair[r].read EXCEPT ![o] = repair[r].as]) :
              /\ file' = result.file
              /\ settled' = IF result.ok THEN [settled EXCEPT ![o] = repair[r].as] ELSE settled
    /\ RepairEnds(r) /\ Unlocks(r)
    /\ UNCHANGED <<owner, server, ends>>

EndRepair(r) ==
    /\ repair[r].step # "idle" /\ ends < MaxEnds
    /\ RepairEnds(r) /\ Unlocks(r)
    /\ owner' = IF owner = r THEN Nobody ELSE owner
    /\ ends' = ends + 1
    /\ UNCHANGED <<file, server, settled>>

FileNext ==
    \/ \E s \in Servers :
          \/ Own(s) \/ AwaitCycle(s) \/ ReadState(s) \/ FinishStart(s)
          \/ ChangeRecord(s) \/ LockToPersist(s) \/ WritePersisted(s) \/ EndServer(s)
    \/ \E r \in Repairs :
          \/ StartRepair(r) \/ ProbeOwner(r) \/ EndProbe(r) \/ ReadRecord(r)
          \/ WriteResolution(r) \/ EndRepair(r)

FileSpec == FileInit /\ [][FileNext]_fileVars

----------------------------------------------------------------------------
\* A resolution the operator was told succeeded stays in the file: no server
\* that started, recovered or persisted around it and no other repair writes
\* an older state of that operation over it, and no running server still
\* takes it for unsettled (the order of the two locks in recovery.rs and in
\* the coordinator's start).
ResolutionHolds ==
    \A o \in Persisted : settled[o] # Nobody =>
        /\ file[o] = settled[o]
        /\ \A s \in Servers : server[s].step \in {"up", "persist", "writing"} =>
              server[s].memory[o] = settled[o]
=============================================================================
