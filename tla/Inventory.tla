------------------------------ MODULE Inventory ------------------------------
(***************************************************************************)
(* The device inventory (mecmcp-inventory, file.rs): one file in one of    *)
(* three shapes, a server that loads it and reloads it, and the explicit   *)
(* migration to the canonical shape.                                       *)
(*                                                                         *)
(* A migration reads the file three times: to compute the new document, to *)
(* copy it beside the file, and to compare it with that copy before the    *)
(* rename.  It can fail or be killed between any two steps, another        *)
(* migration can run beside it, and a server's add_device, which is        *)
(* outside this repository and keeps the shape, can write the file         *)
(* meanwhile.  A document is what its JSON says at the top level, with the *)
(* devices as a sequence of names and payloads.                            *)
(***************************************************************************)
EXTENDS Integers, Sequences, SequencesExt

CONSTANTS
    Migrators,    \* processes that run migrate_to_canonical
    InitialDocs,  \* the documents the file may hold at first
    ValidNames,   \* the names validate_device_name lets through
    NewDevices,   \* what add_device adds: pairs of a name and a payload
    Supported,    \* the one supported schema version
    Partial,      \* a copy that was created and not filled
    Null          \* a field that is absent, and nothing

\* Documents: what the first one says, in any shape, and what may be added.
Listed == NewDevices \cup UNION {ToSet(doc.devices) : doc \in InitialDocs}
Documents ==
    [version : {doc.version : doc \in InitialDocs} \cup {Supported},
     kind : {doc.kind : doc \in InitialDocs} \cup {"object"},
     devices : Seq(Listed), policy : {doc.policy : doc \in InitialDocs}, unknown : BOOLEAN]

ASSUME InventoryAssumption ==
    /\ InitialDocs \subseteq Documents
    /\ Null \notin Documents /\ Partial \notin Documents /\ Null # Partial
    /\ Supported # Null

VARIABLES
    file,       \* the document in the inventory file
    fileOwner,  \* its owner: "service", or "root" after a rename by root
    backup,     \* <name>.pre-canonical: Null, Partial, or a document
    migration,  \* what each migrator is doing
    loaded,     \* what the server serves: Null until it has started
    added,      \* history: the devices add_device has acknowledged
    late,       \* history: those of them between a comparison and its rename
    firstDoc    \* history: the document the file held at first

inventoryVars == <<file, fileOwner, backup, migration, loaded, added, late, firstDoc>>

NotMigrating == [step |-> "idle", doc |-> Null, original |-> Null, result |-> Null]

----------------------------------------------------------------------------
(* Documents: [version, kind, devices, policy, unknown], where kind is what *)
(* the JSON has under "devices".                                           *)

\* detect_shape
Shape(doc) ==
    CASE doc.version # Null /\ doc.kind = "object" -> "Canonical"
      [] doc.version # Null /\ doc.kind = "array" -> "LegacyPanos"
      [] doc.version = Null /\ doc.kind = "absent" -> "LegacyJunos"
      [] OTHER -> "Error"

NamesIn(doc) == {doc.devices[i][1] : i \in DOMAIN doc.devices}

\* Whether parse_inventory takes it.  An envelope is closed and of a known
\* version; an array may not name a device twice, and has no policy.
Parses(doc) ==
    LET shape == Shape(doc)
    IN /\ shape # "Error"
       /\ shape # "LegacyJunos" => doc.version = Supported /\ ~doc.unknown
       /\ NamesIn(doc) \subseteq ValidNames
       /\ shape = "LegacyPanos" =>
             \A i, j \in DOMAIN doc.devices : doc.devices[i][1] = doc.devices[j][1] => i = j
       /\ shape = "LegacyPanos" => doc.policy = Null

\* What parse_inventory makes of it.
Parsed(doc) == [devices |-> ToSet(doc.devices), policy |-> doc.policy]

CanonicalDroppingPolicy(doc) ==  \* mutant
    [doc EXCEPT !.version = Supported, !.kind = "object", !.unknown = FALSE, !.policy = Null]

\* canonical_from_value: a new envelope around the same content.
Canonical(doc) == [doc EXCEPT !.version = Supported, !.kind = "object", !.unknown = FALSE]

----------------------------------------------------------------------------
InventoryInit ==
    /\ file \in InitialDocs /\ firstDoc = file
    /\ fileOwner = "service" /\ backup = Null
    /\ migration = [m \in Migrators |-> NotMigrating]
    /\ loaded = Null /\ added = {} /\ late = {}

\* load, and reload: the new contents replace the old under the write lock
\* only if they parse.  The server can read only what it owns.
Load ==
    /\ fileOwner = "service" /\ Parses(file)
    /\ loaded' = Parsed(file)
    /\ UNCHANGED <<file, fileOwner, backup, migration, added, late, firstDoc>>

\* External: a device is added in the shape the file has, and acknowledged.
AddDevice(entry) ==
    /\ Parses(file) /\ entry[1] \notin NamesIn(file)
    /\ file' = [file EXCEPT !.devices = Append(@, entry)]
    /\ added' = added \cup {entry}
    /\ late' = IF \E m \in Migrators : migration[m].step = "write" THEN late \cup {entry} ELSE late
    /\ UNCHANGED <<fileOwner, backup, migration, loaded, firstDoc>>

Ends(m, result) ==
    migration' = [migration EXCEPT ![m] = [NotMigrating EXCEPT !.step = "done", !.result = result]]

\* The read the new document is computed from.
ReadForCanonical(m) ==
    /\ migration[m].step \in {"idle", "done"}
    /\ CASE ~Parses(file) -> Ends(m, "error")
         [] Parses(file) /\ Shape(file) = "Canonical" -> Ends(m, "unchanged")
         [] OTHER -> migration' = [migration EXCEPT ![m] = [NotMigrating EXCEPT !.step = "read", !.doc = file]]
    /\ UNCHANGED <<file, fileOwner, backup, loaded, added, late, firstDoc>>

\* The read the copy is made of.
ReadOriginal(m) ==
    /\ migration[m].step = "read"
    /\ migration' = [migration EXCEPT ![m].step = "original", ![m].original = file]
    /\ UNCHANGED <<file, fileOwner, backup, loaded, added, late, firstDoc>>

CreateBackupTruncating(m) ==  \* mutant
    /\ migration[m].step = "original"
    /\ backup' = Partial
    /\ migration' = [migration EXCEPT ![m].step = "backup"]
    /\ UNCHANGED <<file, fileOwner, loaded, added, late, firstDoc>>

\* create_new: a copy that is already there is never touched.
CreateBackup(m) ==
    /\ migration[m].step = "original"
    /\ IF backup = Null
       THEN /\ backup' = Partial
            /\ migration' = [migration EXCEPT ![m].step = "backup"]
       ELSE /\ Ends(m, "error") /\ UNCHANGED backup
    /\ UNCHANGED <<file, fileOwner, loaded, added, late, firstDoc>>

FillBackup(m) ==
    /\ migration[m].step = "backup"
    /\ backup' = migration[m].original
    /\ migration' = [migration EXCEPT ![m].step = "compare"]
    /\ UNCHANGED <<file, fileOwner, loaded, added, late, firstDoc>>

\* The third read: a file that is no longer the one that was copied is left
\* alone, and the copy removed.
Compare(m) ==
    /\ migration[m].step = "compare"
    /\ IF file = migration[m].original
       THEN /\ migration' = [migration EXCEPT ![m].step = "write"]
            /\ UNCHANGED backup
       ELSE /\ Ends(m, "error") /\ backup' = Null
    /\ UNCHANGED <<file, fileOwner, loaded, added, late, firstDoc>>

\* write_atomic: a rename, so the file changes owner with it.
WriteCanonical(m) ==
    /\ migration[m].step = "write"
    /\ file' = Canonical(migration[m].doc) /\ fileOwner' = "root"
    /\ migration' = [migration EXCEPT ![m].step = "chown"]
    /\ UNCHANGED <<backup, loaded, added, late, firstDoc>>

RestoreOwner(m) ==
    /\ migration[m].step = "chown"
    /\ fileOwner' = "service"
    /\ Ends(m, "converted")
    /\ UNCHANGED <<file, backup, loaded, added, late, firstDoc>>

\* An I/O error at any of the steps; nothing is undone.
MigrationFails(m) ==
    /\ migration[m].step \notin {"idle", "done"}
    /\ Ends(m, "error")
    /\ UNCHANGED <<file, fileOwner, backup, loaded, added, late, firstDoc>>

InventoryNext ==
    \/ Load
    \/ \E entry \in NewDevices : AddDevice(entry)
    \/ \E m \in Migrators :
          \/ ReadForCanonical(m) \/ ReadOriginal(m) \/ CreateBackup(m) \/ FillBackup(m)
          \/ Compare(m) \/ WriteCanonical(m) \/ RestoreOwner(m) \/ MigrationFails(m)

InventorySpec == InventoryInit /\ [][InventoryNext]_inventoryVars

----------------------------------------------------------------------------
\* As long as nobody edits the file: wherever migrations race, fail or are
\* killed, the file loads to what it loaded to at first, and the document it
\* was, field for field, is still the file or the copy beside it.
MigrationIsReversible ==
    added = {} =>
        /\ Parses(firstDoc) => Parses(file) /\ Parsed(file) = Parsed(firstDoc)
        /\ firstDoc \in {file, backup}

DevicesOf(doc) == IF doc \in {Null, Partial} THEN {} ELSE ToSet(doc.devices)

\* add_device runs beside migrations.  Of the devices it acknowledged, none is
\* missing both from the file and from the copy beside it, except one that was
\* written between the comparison and the rename.
EditsAreSomewhere == added \ late \subseteq DevicesOf(file) \cup DevicesOf(backup)

\* What migrate_to_canonical says of its comparison: an add_device interleaved
\* with a migration is not written away under a reported success.
NoEditWrittenAway ==
    \A m \in Migrators :
        migration[m].result = "converted" => added \subseteq ToSet(file.devices)
=============================================================================
