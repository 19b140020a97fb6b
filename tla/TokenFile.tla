------------------------------ MODULE TokenFile ------------------------------
(***************************************************************************)
(* The bearer-token file (mecmcp-auth, file.rs, store.rs, entry.rs), the   *)
(* commands that change it (mecmcp-runtime, token_cmd.rs) and the server   *)
(* that holds a copy of it in memory and reads it again on SIGHUP          *)
(* (TokenStoreFile::reload, signals.rs).                                   *)
(*                                                                         *)
(* A command is a process of its own.  It reads the file, builds the next  *)
(* document, validates it, replaces the file with a rename, prints, sends  *)
(* the signal if it was given a PID and exits; nothing keeps two of them   *)
(* apart.  set_scopes and set_provenance read the file twice: once to show *)
(* and confirm the change, once to make it.  A command can be killed       *)
(* between any two steps.  The inventory the scopes are checked against,   *)
(* and hand edits that damage the file, are the environment's.             *)
(*                                                                         *)
(* Names, digests, grants and timestamps are abstract: a secret is a       *)
(* number, its digest the same number, and the file is a function from     *)
(* names to entries.                                                       *)
(***************************************************************************)
EXTENDS Integers, FiniteSets

CONSTANTS
    Operators,     \* processes that run token commands
    Names,         \* token names
    Devices,       \* devices a scope can name or an inventory hold
    Tools,         \* tools the servers implement
    WriteTools,    \* those of them a wildcard does not include
    DeviceScopes,  \* the device scopes operators ask for
    ToolScopes,    \* the tool scopes operators ask for
    GrantChoices,  \* the grants operators ask for
    Provenances,   \* the provenance flags operators pass
    Wildcard,      \* ScopeSet::Wildcard
    None,          \* no entry, and an option left out
    MaxTokens,     \* MAX_TOKENS
    MaxSecrets     \* bound: secrets minted in a behaviour

\* What a token says of its holder, and who that may be.
DeclaredFields == {"provider", "provider_tier", "on_behalf_of"}
Actors == {"unknown", "human", "agent"}
Grants == {"targets", "regions"}

Entries ==
    [secret : 1..MaxSecrets, devices : {Wildcard} \cup SUBSET Devices, tools : {Wildcard} \cup SUBSET Tools,
     grant : Grants \cup {None}, declared : SUBSET DeclaredFields, actor : Actors]
Stores == [Names -> Entries \cup {None}]

ASSUME TokenAssumption ==
    /\ WriteTools \subseteq Tools
    /\ MaxTokens \in Nat /\ MaxSecrets \in Nat
    /\ DeviceScopes \subseteq {Wildcard} \cup SUBSET Devices
    /\ GrantChoices \subseteq Grants
    /\ Provenances \subseteq [declared : SUBSET DeclaredFields, actor : Actors \cup {None}]
    /\ None \notin Actors /\ None \notin Stores

VARIABLES
    tokens,     \* the entries of the file
    fileState,  \* "absent", "good", or "damaged" by hand
    minted,     \* secrets drawn so far
    retired,    \* secrets a command has taken out of the file
    command,    \* what each operator's command is doing
    inventory,  \* the devices known to the caller of a command
    serverUp,   \* whether the server runs
    store,      \* its TokenStore
    reloading,  \* the store a reload has read and not yet swapped in
    hup,        \* a SIGHUP the server has not taken
    unheard     \* history: the file has changed and no signal followed, or a
                \* reload has failed

tokenVars == <<tokens, fileState, minted, retired, command, inventory, serverUp, store, reloading, hup, unheard>>
fileVars == <<tokens, fileState, retired>>
serverVars == <<serverUp, store, reloading, hup, unheard>>

NoStore == [n \in Names |-> None]

\* A command that is not running.
Resting == [step |-> "idle", kind |-> None, name |-> None, change |-> None, yes |-> FALSE,
            pid |-> FALSE, known |-> {}, next |-> None, old |-> {}]

----------------------------------------------------------------------------
(* Entries, and what they allow. *)

AllowsDevice(scope, d) == scope = Wildcard \/ d \in scope

\* A wildcard over tools leaves the write tools out.
AllowsTool(scope, t) == IF scope = Wildcard THEN t \notin WriteTools ELSE t \in scope

\* What a token may do: the calls its scopes let through, and its grant.
Authority(e) ==
    {call \in Devices \X Tools : AllowsDevice(e.devices, call[1]) /\ AllowsTool(e.tools, call[2])}
        \cup (IF e.grant = None THEN {} ELSE {<<"grant", e.grant>>})

\* TokenEntry::validate: a provider and its tier together or neither, and no
\* provider on a token that says it is a human's.
ValidEntry(e) ==
    /\ "provider" \in e.declared <=> "provider_tier" \in e.declared
    /\ ~("provider" \in e.declared /\ e.actor = "human")

Named(entries) == {n \in Names : entries[n] # None}

ValidStore(entries) ==
    /\ Cardinality(Named(entries)) <= MaxTokens
    /\ \A n \in Named(entries) : ValidEntry(entries[n])

\* Every name in every allowlist is known; run_with_grant takes an empty
\* inventory for none, and then devices are not checked.
ReferencesKnown(entries, known) ==
    \A n \in Named(entries) :
        /\ entries[n].devices # Wildcard /\ known # {} => entries[n].devices \subseteq known
        /\ entries[n].tools # Wildcard => entries[n].tools \subseteq Tools

\* No wildcard of devices beside a grant that names them.
ScopesAgree(e) == ~(e.grant = "targets" /\ e.devices = Wildcard)

SecretsOf(entries) == {entries[n].secret : n \in Named(entries)}

----------------------------------------------------------------------------
(* What the commands ask for. *)

\* parse_provenance: a provider makes its token an agent's unless told
\* otherwise, and "unknown" may not be told.
ProvenanceAccepted(p) == ~("provider" \in p.declared /\ p.actor = "unknown")
ProvenanceActor(p) == IF p.actor = None /\ "provider" \in p.declared THEN "agent" ELSE p.actor
OrUnknown(actor) == IF actor = None THEN "unknown" ELSE actor

\* is_widening
WidensDevices(current, next) ==
    /\ next # None /\ current # Wildcard
    /\ next = Wildcard \/ \E d \in next : d \notin current
WidensToolsLikeDevices(current, next) ==  \* mutant
    /\ next # None /\ current # Wildcard
    /\ next = Wildcard \/ \E t \in next : t \notin current

WidensTools(current, next) ==
    /\ next # None /\ ~(current = Wildcard /\ next = Wildcard)
    /\ current = Wildcard \/ next = Wildcard \/ \E t \in next : t \notin current
Widens(e, change) ==
    \/ WidensDevices(e.devices, change.devices)
    \/ WidensTools(e.tools, change.tools)
    \/ change.grant # None

\* The fields a set_provenance would drop.
Clears(e, p) ==
    \/ ~(e.declared \subseteq p.declared)
    \/ e.actor # "unknown" /\ ProvenanceActor(p) = None

Or(new, old) == IF new = None THEN old ELSE new

----------------------------------------------------------------------------
TokenInit ==
    /\ tokens = NoStore /\ fileState = "absent"
    /\ minted = 0 /\ retired = {}
    /\ command = [o \in Operators |-> Resting]
    /\ inventory = Devices
    /\ serverUp = FALSE /\ store = NoStore /\ reloading = None /\ hup = FALSE /\ unheard = FALSE

Running(o) == command[o].step \notin {"idle", "exited"}

\* The command line is parsed and the inventory read; a command that shows the
\* change first has one more step.
Begin(o, kind, n, change, yes, pid) ==
    /\ ~Running(o)
    /\ command' = [command EXCEPT ![o] =
           [Resting EXCEPT !.step = IF kind \in {"set_scopes", "set_provenance"} THEN "show" ELSE "read",
                           !.kind = kind, !.name = n, !.change = change, !.yes = yes,
                           !.pid = pid, !.known = inventory]]
    /\ UNCHANGED <<minted, inventory>> /\ UNCHANGED fileVars /\ UNCHANGED serverVars

BeginAdd(o, n, pid) ==
    \E d \in DeviceScopes, t \in ToolScopes, g \in GrantChoices \cup {None}, p \in Provenances :
        /\ ProvenanceAccepted(p)
        /\ Begin(o, "add", n, [devices |-> d, tools |-> t, grant |-> g, provenance |-> p], FALSE, pid)

BeginSetScopes(o, n, yes, pid) ==
    \E d \in DeviceScopes \cup {None}, t \in ToolScopes \cup {None}, g \in GrantChoices \cup {None} :
        /\ <<d, t, g>> # <<None, None, None>>
        /\ Begin(o, "set_scopes", n, [devices |-> d, tools |-> t, grant |-> g], yes, pid)

BeginSetProvenance(o, n, yes, pid) ==
    \E p \in Provenances : ProvenanceAccepted(p) /\ Begin(o, "set_provenance", n, p, yes, pid)

BeginRevoke(o, n, pid) == Begin(o, "revoke", n, None, FALSE, pid)
BeginRotate(o, n, pid) == Begin(o, "rotate", n, None, FALSE, pid)

\* The change is made, or given up; what is left of the command is what it
\* retired and whom it tells.
GoesTo(o, step) ==
    command' = [command EXCEPT ![o] = [Resting EXCEPT !.step = step, !.pid = command[o].pid,
                                                      !.old = command[o].old]]
Exits(o) == GoesTo(o, "exited")

\* set_scopes and set_provenance look at the token as it is, print the change,
\* and stop if it takes something and was not confirmed.
Show(o) ==
    LET c == command[o]
        confirmNeeded == IF c.kind = "set_scopes" THEN Widens(tokens[c.name], c.change)
                         ELSE Clears(tokens[c.name], c.change)
    IN /\ c.step = "show"
       /\ IF fileState # "good" \/ tokens[c.name] = None \/ (confirmNeeded /\ ~c.yes)
          THEN Exits(o)
          ELSE command' = [command EXCEPT ![o].step = "read"]
       /\ UNCHANGED <<minted, inventory>> /\ UNCHANGED fileVars /\ UNCHANGED serverVars

\* The entry a command writes, from the one it read.
AddedEntry(c, secret) ==
    [secret |-> secret, devices |-> c.change.devices, tools |-> c.change.tools,
     grant |-> c.change.grant, declared |-> c.change.provenance.declared,
     actor |-> OrUnknown(ProvenanceActor(c.change.provenance))]

RotatedEntry(e, secret) == [e EXCEPT !.secret = secret]

ScopedEntry(e, change) ==
    [e EXCEPT !.devices = Or(change.devices, @), !.tools = Or(change.tools, @),
              !.grant = Or(change.grant, @)]

ProvenancedEntry(e, p) ==
    [e EXCEPT !.declared = p.declared, !.actor = OrUnknown(ProvenanceActor(p))]

WritableUnvalidated(c, next) ==  \* mutant
    /\ c.kind # "set_provenance" => ReferencesKnown(next, c.known)
    /\ c.kind \in {"add", "set_scopes"} => ScopesAgree(next[c.name])

\* Whether the document a command is about to write passes its checks: add,
\* rotate, set_scopes and revoke check every reference in it, add and
\* set_scopes that the entry's two target scopes agree.
Writable(c, next) ==
    /\ ValidStore(next)
    /\ c.kind # "set_provenance" => ReferencesKnown(next, c.known)
    /\ c.kind \in {"add", "set_scopes"} => ScopesAgree(next[c.name])

Mints(kind) == kind \in {"add", "rotate"}

\* The read that the change is made to.  A file that is not there is an empty
\* one to `add`; a name that is taken, or not there, ends the command, and so
\* does a document that would not pass.
Read(o) ==
    LET c == command[o]
        secret == minted + 1
        present == tokens[c.name] # None
        entry == CASE c.kind = "add" -> AddedEntry(c, secret)
                   [] c.kind = "rotate" -> RotatedEntry(tokens[c.name], secret)
                   [] c.kind = "set_scopes" -> ScopedEntry(tokens[c.name], c.change)
                   [] c.kind = "set_provenance" -> ProvenancedEntry(tokens[c.name], c.change)
                   [] c.kind = "revoke" -> None
    IN /\ c.step = "read"
       /\ Mints(c.kind) => minted < MaxSecrets
       /\ IF fileState = "damaged" \/ (fileState = "absent" /\ c.kind # "add")
          THEN Exits(o) /\ UNCHANGED minted
          ELSE IF c.kind = "revoke" /\ ~present
          THEN GoesTo(o, "signal") /\ UNCHANGED minted
          ELSE IF present <=> c.kind = "add"
          THEN Exits(o) /\ UNCHANGED minted
          ELSE LET next == [tokens EXCEPT ![c.name] = entry]
               IN /\ minted' = IF Mints(c.kind) THEN secret ELSE minted
                  /\ IF Writable(c, next)
                     THEN command' = [command EXCEPT ![o].step = "write", ![o].next = next, ![o].known = {},
                                                     ![o].old = SecretsOf(tokens) \ SecretsOf(next)]
                     ELSE Exits(o)
       /\ UNCHANGED inventory /\ UNCHANGED fileVars /\ UNCHANGED serverVars

\* write_atomic: the new document takes the file's place whatever is there
\* now.  The old secret is retired from here on.
Write(o) ==
    LET c == command[o]
    IN /\ c.step = "write"
       /\ tokens' = c.next /\ fileState' = "good"
       /\ retired' = retired \cup c.old
       /\ GoesTo(o, "signal")
       /\ unheard' = TRUE
       /\ UNCHANGED <<minted, inventory, serverUp, store, reloading, hup>>

WriteFails(o) ==
    /\ command[o].step = "write"
    /\ Exits(o)
    /\ UNCHANGED <<minted, inventory>> /\ UNCHANGED fileVars /\ UNCHANGED serverVars

\* The new secret is printed, then the server is signalled if the command was
\* given its PID; pending signals of one kind are one.
Signal(o) ==
    /\ command[o].step = "signal"
    /\ Exits(o)
    /\ IF command[o].pid /\ serverUp
       THEN hup' = TRUE /\ unheard' = FALSE
       ELSE UNCHANGED <<hup, unheard>>
    /\ UNCHANGED <<minted, inventory, serverUp, store, reloading>> /\ UNCHANGED fileVars

Kill(o) ==
    /\ Running(o)
    /\ command' = [command EXCEPT ![o] = Resting]
    /\ UNCHANGED <<minted, inventory>> /\ UNCHANGED fileVars /\ UNCHANGED serverVars

----------------------------------------------------------------------------
(* The server. *)

\* TokenStoreFile::load: no usable file, no server.
Start ==
    /\ ~serverUp /\ fileState = "good"
    /\ serverUp' = TRUE /\ store' = tokens /\ hup' = FALSE /\ reloading' = None /\ unheard' = FALSE
    /\ UNCHANGED <<minted, command, inventory>> /\ UNCHANGED fileVars

Stop ==
    /\ serverUp
    /\ serverUp' = FALSE /\ store' = NoStore /\ hup' = FALSE /\ reloading' = None /\ unheard' = FALSE
    /\ UNCHANGED <<minted, command, inventory>> /\ UNCHANGED fileVars

\* The handler's loop takes the signal and calls reload, which reads the file.
\* A file it cannot use leaves the store as it is.
TakeHup ==
    /\ serverUp /\ hup /\ reloading = None
    /\ hup' = FALSE
    /\ reloading' = IF fileState = "good" THEN tokens ELSE None
    /\ unheard' = (unheard \/ fileState # "good")
    /\ UNCHANGED <<minted, command, inventory, serverUp, store>> /\ UNCHANGED fileVars

SwapAndForget ==  \* mutant
    /\ reloading # None
    /\ store' = reloading /\ reloading' = None /\ hup' = FALSE
    /\ UNCHANGED <<minted, command, inventory, serverUp, unheard>> /\ UNCHANGED fileVars

\* The end of reload: one swap for every later request.
Swap ==
    /\ reloading # None
    /\ store' = reloading /\ reloading' = None
    /\ UNCHANGED <<minted, command, inventory, serverUp, hup, unheard>> /\ UNCHANGED fileVars

----------------------------------------------------------------------------
(* The environment. *)

Decommission(d) ==
    /\ d \in inventory /\ inventory' = inventory \ {d}
    /\ UNCHANGED <<minted, command>> /\ UNCHANGED fileVars /\ UNCHANGED serverVars

\* A hand edit that leaves the file unusable, and its repair.
Damage ==
    /\ fileState = "good" /\ fileState' = "damaged"
    /\ UNCHANGED <<tokens, retired, minted, command, inventory>> /\ UNCHANGED serverVars
Repair ==
    /\ fileState = "damaged" /\ fileState' = "good"
    /\ UNCHANGED <<tokens, retired, minted, command, inventory>> /\ UNCHANGED serverVars

TokenNext ==
    \/ \E o \in Operators :
          \/ \E n \in Names, pid \in BOOLEAN :
                \/ BeginAdd(o, n, pid) \/ BeginRotate(o, n, pid) \/ BeginRevoke(o, n, pid)
                \/ \E yes \in BOOLEAN : BeginSetScopes(o, n, yes, pid) \/ BeginSetProvenance(o, n, yes, pid)
          \/ Show(o) \/ Read(o) \/ Write(o) \/ WriteFails(o) \/ Signal(o) \/ Kill(o)
    \/ Start \/ Stop \/ TakeHup \/ Swap
    \/ \E d \in Devices : Decommission(d)
    \/ Damage \/ Repair

TokenSpec == TokenInit /\ [][TokenNext]_tokenVars

----------------------------------------------------------------------------
\* Every document a command has left behind is one the next start, reload and
\* command can load, whatever ran beside it and wherever it was killed
\* (try_new before write_atomic in each of the five; rename last).
FileLoads ==
    /\ \A n \in Names : tokens[n] = None \/ tokens[n] \in Entries
    /\ \A n \in Names : store[n] = None \/ store[n] \in Entries
    /\ ValidStore(tokens) /\ ValidStore(store)
    /\ reloading # None => ValidStore(reloading)

\* A server that has nothing more to do holds the file as it is, unless a
\* change was never announced or a reload has failed: whatever commands write
\* while a reload is between its read and its swap, the store it leaves is not
\* the last one (signals.rs; TokenStoreFile::reload).
StoreIsCurrent ==
    /\ serverUp /\ ~unheard /\ ~hup /\ reloading = None => store = tokens
    /\ reloading # None /\ ~unheard /\ ~hup => reloading = tokens

\* A token whose secret stays gains a call, or another grant, only from a
\* command that was confirmed with --yes: what is_widening lets through without
\* it only takes away, with write tools outside the wildcard (SetScopes).
WideningIsConfirmed(n, o) ==
    ~(Authority(tokens'[n]) \subseteq Authority(tokens[n])) => command[o].yes

\* A token loses a provenance field, or what kind of actor it is, only when the
\* operator confirmed that or named the actor (SetProvenance).
ClearingIsConfirmed(n, o) ==
    (\/ ~(tokens[n].declared \subseteq tokens'[n].declared)
     \/ tokens[n].actor # "unknown" /\ tokens'[n].actor = "unknown")
    => /\ command[o].kind = "set_provenance"
       /\ command[o].yes \/ command[o].change.actor # None

\* A step that changes a token and keeps its secret takes nothing unconfirmed.
TakesConfirmed ==
    \A n \in Names, o \in Operators :
        /\ tokens[n] # None /\ tokens'[n] # None /\ tokens'[n].secret = tokens[n].secret
        /\ tokens'[n] # tokens[n] /\ command[o].step = "write"
        => WideningIsConfirmed(n, o) /\ ClearingIsConfirmed(n, o)

\* Operators take turns.  No sequence of commands widens a token, or drops what
\* it says of its holder, without a confirmation of that change.
TakingIsConfirmed == [][TakesConfirmed]_tokenVars
=============================================================================
