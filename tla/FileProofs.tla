------------------------------ MODULE FileProofs ------------------------------
(***************************************************************************)
(* The token file and the inventory file, for any number of processes that *)
(* read and replace them.                                                  *)
(***************************************************************************)
EXTENDS TokenFile, Inventory, FiniteSetTheorems, TLAPS

----------------------------------------------------------------------------
(* The token file: types *)

Kinds == {"add", "rotate", "revoke", "set_scopes", "set_provenance"}
AddChanges ==
    [devices : DeviceScopes, tools : ToolScopes, grant : GrantChoices \cup {None}, provenance : Provenances]
ScopeChanges ==
    [devices : DeviceScopes \cup {None}, tools : ToolScopes \cup {None}, grant : GrantChoices \cup {None}]

CommandRecord ==
    [step : {"idle", "show", "read", "write", "signal", "exited"}, kind : Kinds \cup {None},
     name : Names \cup {None}, change : AddChanges \cup ScopeChanges \cup Provenances \cup {None},
     yes : BOOLEAN, pid : BOOLEAN, known : SUBSET Devices, next : Stores \cup {None},
     old : SUBSET (1..MaxSecrets)]

\* What a command that has not written yet was asked for, and what it is about
\* to write.
CommandOK(c) ==
    /\ c.step \in {"show", "read", "write"} => c.name \in Names /\ c.kind \in Kinds
    /\ c.step \in {"show", "read"} =>
          /\ c.kind = "add" => c.change \in AddChanges
          /\ c.kind = "set_scopes" => c.change \in ScopeChanges
          /\ c.kind = "set_provenance" => c.change \in Provenances
    /\ c.step = "write" => c.next \in Stores /\ ValidStore(c.next)

TokenTypeOK ==
    /\ minted \in 0..MaxSecrets
    /\ tokens \in Stores /\ store \in Stores
    /\ reloading \in Stores \cup {None}
    /\ inventory \in SUBSET Devices
    /\ command \in [Operators -> CommandRecord]

TokenInv ==
    /\ TokenTypeOK
    /\ \A o \in Operators : CommandOK(command[o])
    /\ ValidStore(tokens) /\ ValidStore(store)
    /\ reloading # None => ValidStore(reloading)

LEMMA TokenConstants ==
    /\ MaxTokens \in Nat /\ MaxSecrets \in Nat
    /\ DeviceScopes \subseteq {Wildcard} \cup SUBSET Devices
    /\ GrantChoices \subseteq Grants
    /\ Provenances \subseteq [declared : SUBSET DeclaredFields, actor : Actors \cup {None}]
    /\ None \notin Actors /\ None \notin Stores
BY TokenAssumption DEF TokenAssumption

LEMMA RestingOK == Resting \in CommandRecord /\ CommandOK(Resting) /\ Resting.step = "idle"
BY DEF Resting, CommandRecord, CommandOK

LEMMA NoStoreOK == NoStore \in Stores /\ ValidStore(NoStore)
<1>1. NoStore \in Stores
    BY DEF NoStore, Stores
<1>2. Named(NoStore) = {}
    BY DEF Named, NoStore
<1>. QED
    BY <1>1, <1>2, TokenConstants, FS_EmptySet DEF ValidStore

LEMMA TokenInitial == TokenInit => TokenInv
BY RestingOK, NoStoreOK, TokenConstants DEF TokenInit, TokenInv, TokenTypeOK

\* A step of one command.
LEMMA CommandMoves ==
    ASSUME TokenInv, NEW o \in Operators, NEW r \in CommandRecord, CommandOK(r),
           command' = [command EXCEPT ![o] = r], minted' \in 0..MaxSecrets,
           UNCHANGED <<tokens, store, reloading, inventory>>
    PROVE  TokenInv'
<1>1. \A p \in Operators : command'[p] = IF p = o THEN r ELSE command[p]
    BY DEF TokenInv, TokenTypeOK
<1>2. TokenTypeOK'
    BY DEF TokenInv, TokenTypeOK
<1>3. \A p \in Operators : CommandOK(command[p])'
    BY <1>1 DEF TokenInv, CommandOK
<1>. QED
    BY <1>2, <1>3 DEF TokenInv, ValidStore, Named

LEMMA OwnCommand == ASSUME TokenInv, NEW o \in Operators
                    PROVE  command[o] \in CommandRecord /\ CommandOK(command[o])
BY DEF TokenInv, TokenTypeOK
----------------------------------------------------------------------------
(* The entries commands write are entries *)

LEMMA ActorOK ==
    ASSUME NEW p \in Provenances
    PROVE  p.declared \in SUBSET DeclaredFields /\ OrUnknown(ProvenanceActor(p)) \in Actors
<1>1. p.declared \in SUBSET DeclaredFields /\ p.actor \in Actors \cup {None}
    BY TokenConstants
<1>2. "agent" \in Actors /\ "unknown" \in Actors
    BY DEF Actors
<1>. QED
    BY <1>1, <1>2 DEF OrUnknown, ProvenanceActor

LEMMA AddedOK ==
    ASSUME NEW c, c.change \in AddChanges, NEW secret \in 1..MaxSecrets,
           c.change.tools = Wildcard \/ c.change.tools \subseteq Tools
    PROVE  AddedEntry(c, secret) \in Entries
<1>1. /\ c.change.devices \in {Wildcard} \cup SUBSET Devices
      /\ c.change.grant \in Grants \cup {None} /\ c.change.provenance \in Provenances
    BY TokenConstants DEF AddChanges
<1>2. /\ c.change.provenance.declared \in SUBSET DeclaredFields
      /\ OrUnknown(ProvenanceActor(c.change.provenance)) \in Actors
    BY <1>1, ActorOK
<1>. QED
    BY <1>1, <1>2 DEF AddedEntry, Entries

LEMMA RotatedOK ==
    ASSUME NEW e \in Entries, NEW secret \in 1..MaxSecrets
    PROVE  /\ RotatedEntry(e, secret) \in Entries
           /\ Authority(RotatedEntry(e, secret)) = Authority(e)
           /\ RotatedEntry(e, secret).declared = e.declared /\ RotatedEntry(e, secret).actor = e.actor
<1>1. RotatedEntry(e, secret) \in Entries
    BY Zenon DEF RotatedEntry, Entries
<1>2. /\ RotatedEntry(e, secret).devices = e.devices /\ RotatedEntry(e, secret).tools = e.tools
      /\ RotatedEntry(e, secret).grant = e.grant
      /\ RotatedEntry(e, secret).declared = e.declared /\ RotatedEntry(e, secret).actor = e.actor
    BY DEF RotatedEntry, Entries
<1>. QED
    BY <1>1, <1>2 DEF Authority

LEMMA ScopedFields ==
    ASSUME NEW e \in Entries, NEW change \in ScopeChanges
    PROVE  LET n == ScopedEntry(e, change)
           IN /\ n.devices = Or(change.devices, e.devices) /\ n.tools = Or(change.tools, e.tools)
              /\ n.grant = Or(change.grant, e.grant) /\ n.secret = e.secret
              /\ n.declared = e.declared /\ n.actor = e.actor
BY DEF ScopedEntry, Entries

LEMMA ScopedOK ==
    ASSUME NEW e \in Entries, NEW change \in ScopeChanges,
           LET n == ScopedEntry(e, change) IN n.tools = Wildcard \/ n.tools \subseteq Tools
    PROVE  ScopedEntry(e, change) \in Entries
<1>1. /\ Or(change.devices, e.devices) \in {Wildcard} \cup SUBSET Devices
      /\ Or(change.grant, e.grant) \in Grants \cup {None}
    BY TokenConstants DEF Or, ScopeChanges, Entries
<1>2. Or(change.tools, e.tools) \in {Wildcard} \cup SUBSET Tools
    BY ScopedFields
<1>. QED
    BY <1>1, <1>2, Zenon DEF ScopedEntry, Entries

LEMMA ProvenancedOK ==
    ASSUME NEW e \in Entries, NEW p \in Provenances
    PROVE  LET n == ProvenancedEntry(e, p)
           IN /\ n \in Entries /\ Authority(n) = Authority(e)
              /\ n.declared = p.declared /\ n.actor = OrUnknown(ProvenanceActor(p))
<1> DEFINE n == ProvenancedEntry(e, p)
<1>1. n \in Entries
    BY ActorOK, Zenon DEF ProvenancedEntry, Entries
<1>2. /\ n.devices = e.devices /\ n.tools = e.tools /\ n.grant = e.grant
      /\ n.declared = p.declared /\ n.actor = OrUnknown(ProvenanceActor(p))
    BY DEF ProvenancedEntry, Entries
<1> HIDE DEF n
<1>3. Authority(n) = Authority(e)
    BY <1>2 DEF Authority
<1>. QED
    BY <1>1, <1>2, <1>3 DEF n

\* What is_widening does not call a widening takes nothing into a token's
\* authority: write tools are outside the wildcard over tools, and no device is
\* outside the one over devices.
LEMMA NarrowingNarrows ==
    ASSUME NEW e \in Entries, NEW change \in ScopeChanges, ~Widens(e, change)
    PROVE  Authority(ScopedEntry(e, change)) \subseteq Authority(e)
<1> DEFINE n == ScopedEntry(e, change)
<1>1. /\ n.devices = Or(change.devices, e.devices) /\ n.tools = Or(change.tools, e.tools)
      /\ n.grant = e.grant
    BY ScopedFields DEF Widens, Or
<1> HIDE DEF n
<1>2. \A d : AllowsDevice(n.devices, d) => AllowsDevice(e.devices, d)
    BY <1>1 DEF AllowsDevice, Widens, WidensDevices, Or
<1>3. \A t : AllowsTool(n.tools, t) => AllowsTool(e.tools, t)
    BY <1>1 DEF AllowsTool, Widens, WidensTools, Or
<1>4. Authority(n) \subseteq Authority(e)
    BY <1>1, <1>2, <1>3 DEF Authority
<1>. QED
    BY <1>4 DEF n
----------------------------------------------------------------------------
(* The token file: one lemma per action *)

LEMMA GoesToKeeps ==
    ASSUME TokenInv, NEW o \in Operators, NEW step \in {"signal", "exited"}, GoesTo(o, step)
    PROVE  \E r \in CommandRecord : /\ CommandOK(r) /\ r.step = step
                                    /\ command' = [command EXCEPT ![o] = r]
<1> DEFINE r == [Resting EXCEPT !.step = step, !.pid = command[o].pid, !.old = command[o].old]
<1>1. command[o].pid \in BOOLEAN /\ command[o].old \in SUBSET (1..MaxSecrets)
    BY OwnCommand DEF CommandRecord
<1>2. r \in CommandRecord
    BY <1>1, RestingOK, Zenon DEF CommandRecord
<1>3. r.step = step
    BY DEF Resting
<1>4. CommandOK(r)
    BY <1>3 DEF CommandOK
<1>. QED
    BY <1>2, <1>3, <1>4 DEF GoesTo

LEMMA BeginKeeps ==
    ASSUME TokenInv, NEW o \in Operators, NEW kind \in Kinds, NEW n \in Names,
           NEW change \in AddChanges \cup ScopeChanges \cup Provenances \cup {None},
           NEW yes \in BOOLEAN, NEW pid \in BOOLEAN,
           kind = "add" => change \in AddChanges,
           kind = "set_scopes" => change \in ScopeChanges,
           kind = "set_provenance" => change \in Provenances,
           Begin(o, kind, n, change, yes, pid)
    PROVE  TokenInv'
<1> DEFINE s == IF kind \in {"set_scopes", "set_provenance"} THEN "show" ELSE "read"
           r == [Resting EXCEPT !.step = s, !.kind = kind, !.name = n, !.change = change, !.yes = yes,
                                !.pid = pid, !.known = inventory]
<1>1. s \in {"show", "read"} /\ inventory \in SUBSET Devices
    BY DEF TokenInv, TokenTypeOK
<1>2. r.step = s /\ r.kind = kind /\ r.name = n /\ r.change = change
    BY DEF Resting
<1> HIDE DEF s
<1>3. r \in CommandRecord
    BY <1>1, RestingOK, Zenon DEF CommandRecord
<1>4. command' = [command EXCEPT ![o] = r]
    BY DEF Begin, s
<1> HIDE DEF r
<1>5. CommandOK(r)
    BY <1>1, <1>2 DEF CommandOK
<1>6. minted' \in 0..MaxSecrets /\ UNCHANGED <<tokens, store, reloading, inventory>>
    BY DEF Begin, fileVars, serverVars, TokenInv, TokenTypeOK
<1>. QED
    BY <1>3, <1>4, <1>5, <1>6, CommandMoves

LEMMA BeginAddKeeps ==
    ASSUME TokenInv, NEW o \in Operators, NEW n \in Names, NEW pid \in BOOLEAN, BeginAdd(o, n, pid)
    PROVE  TokenInv'
<1>1. PICK d \in DeviceScopes, t \in ToolScopes, g \in GrantChoices \cup {None}, p \in Provenances :
          Begin(o, "add", n, [devices |-> d, tools |-> t, grant |-> g, provenance |-> p], FALSE, pid)
    BY DEF BeginAdd
<1> DEFINE change == [devices |-> d, tools |-> t, grant |-> g, provenance |-> p]
<1>2. change \in AddChanges
    BY DEF AddChanges
<1> HIDE DEF change
<1>3. Begin(o, "add", n, change, FALSE, pid)
    BY <1>1 DEF change
<1>. QED
    BY <1>2, <1>3, BeginKeeps DEF Kinds

LEMMA BeginSetScopesKeeps ==
    ASSUME TokenInv, NEW o \in Operators, NEW n \in Names, NEW yes \in BOOLEAN, NEW pid \in BOOLEAN,
           BeginSetScopes(o, n, yes, pid)
    PROVE  TokenInv'
<1>1. PICK d \in DeviceScopes \cup {None}, t \in ToolScopes \cup {None}, g \in GrantChoices \cup {None} :
          Begin(o, "set_scopes", n, [devices |-> d, tools |-> t, grant |-> g], yes, pid)
    BY DEF BeginSetScopes
<1> DEFINE change == [devices |-> d, tools |-> t, grant |-> g]
<1>2. change \in ScopeChanges
    BY DEF ScopeChanges
<1> HIDE DEF change
<1>3. Begin(o, "set_scopes", n, change, yes, pid)
    BY <1>1 DEF change
<1>. QED
    BY <1>2, <1>3, BeginKeeps DEF Kinds

LEMMA BeginOthersKeep ==
    ASSUME TokenInv, NEW o \in Operators, NEW n \in Names, NEW yes \in BOOLEAN, NEW pid \in BOOLEAN,
           BeginSetProvenance(o, n, yes, pid) \/ BeginRevoke(o, n, pid) \/ BeginRotate(o, n, pid)
    PROVE  TokenInv'
<1>1. CASE BeginSetProvenance(o, n, yes, pid)
    BY <1>1, BeginKeeps DEF BeginSetProvenance, Kinds
<1>2. CASE BeginRevoke(o, n, pid)
    BY <1>2, BeginKeeps DEF BeginRevoke, Kinds
<1>3. CASE BeginRotate(o, n, pid)
    BY <1>3, BeginKeeps DEF BeginRotate, Kinds
<1>. QED
    BY <1>1, <1>2, <1>3

\* A command that ends, or is about to signal, without having written.
LEMMA EndsKeeps ==
    ASSUME TokenInv, NEW o \in Operators, NEW step \in {"signal", "exited"}, GoesTo(o, step),
           minted' \in 0..MaxSecrets, UNCHANGED <<tokens, store, reloading, inventory>>
    PROVE  TokenInv'
BY GoesToKeeps, CommandMoves

LEMMA ShowKeeps == ASSUME TokenInv, NEW o \in Operators, Show(o) PROVE TokenInv'
<1>1. minted' \in 0..MaxSecrets /\ UNCHANGED <<tokens, store, reloading, inventory>>
    BY DEF Show, fileVars, serverVars, TokenInv, TokenTypeOK
<1>2. CASE Exits(o)
    BY <1>1, <1>2, EndsKeeps DEF Exits
<1>3. CASE command' = [command EXCEPT ![o].step = "read"]
    <2> DEFINE c == command[o]
               r == [c EXCEPT !.step = "read"]
    <2>1. c \in CommandRecord /\ CommandOK(c) /\ c.step = "show"
        BY OwnCommand DEF Show
    <2>2. r \in CommandRecord
        BY <2>1, Zenon DEF CommandRecord
    <2>3. r.step = "read" /\ r.kind = c.kind /\ r.name = c.name /\ r.change = c.change
        BY <2>1 DEF CommandRecord
    <2>4. command' = [command EXCEPT ![o] = r]
        BY <1>3
    <2> HIDE DEF r, c
    <2>5. CommandOK(r)
        BY <2>1, <2>3 DEF CommandOK
    <2>. QED
        BY <1>1, <2>2, <2>4, <2>5, CommandMoves
<1>. QED
    BY <1>2, <1>3 DEF Show

\* The entry a command makes of the one it read.
EntryOf(c, e, secret) ==
    CASE c.kind = "add" -> AddedEntry(c, secret)
      [] c.kind = "rotate" -> RotatedEntry(e, secret)
      [] c.kind = "set_scopes" -> ScopedEntry(e, c.change)
      [] c.kind = "set_provenance" -> ProvenancedEntry(e, c.change)
      [] c.kind = "revoke" -> None

\* A document that is writable is a store.
LEMMA WritableIsStore ==
    ASSUME TokenInv, NEW c \in CommandRecord, CommandOK(c), c.step = "read", NEW secret \in Nat,
           Mints(c.kind) => secret \in 1..MaxSecrets, tokens[c.name] # None <=> c.kind # "add",
           Writable(c, [tokens EXCEPT ![c.name] = EntryOf(c, tokens[c.name], secret)])
    PROVE  [tokens EXCEPT ![c.name] = EntryOf(c, tokens[c.name], secret)] \in Stores
<1> DEFINE entry == EntryOf(c, tokens[c.name], secret)
           next == [tokens EXCEPT ![c.name] = entry]
<1>1. c.name \in Names /\ c.kind \in Kinds /\ tokens \in Stores
    BY DEF CommandOK, TokenInv, TokenTypeOK
<1>2. next[c.name] = entry /\ (entry # None => c.name \in Named(next))
    BY <1>1 DEF Stores, Named
<1>3. c.kind # "set_provenance" /\ entry # None => entry.tools = Wildcard \/ entry.tools \subseteq Tools
    BY <1>2 DEF Writable, ReferencesKnown
<1>4. c.kind # "add" => tokens[c.name] \in Entries
    BY <1>1 DEF Stores
<1>5. entry \in Entries \cup {None}
    <2>1. CASE c.kind = "add"
        <3>1. entry = AddedEntry(c, secret) /\ c.change \in AddChanges
            BY <2>1 DEF EntryOf, CommandOK
        <3>2. entry.tools = c.change.tools
            BY <3>1 DEF AddedEntry
        <3>. QED
            BY <1>3, <2>1, <3>1, <3>2, AddedOK DEF Mints
    <2>2. CASE c.kind = "rotate"
        BY <1>4, <2>2, RotatedOK DEF EntryOf, Mints
    <2>3. CASE c.kind = "set_scopes"
        <3>1. entry = ScopedEntry(tokens[c.name], c.change) /\ c.change \in ScopeChanges
            BY <2>3 DEF EntryOf, CommandOK
        <3>. QED
            BY <1>3, <1>4, <2>3, <3>1, ScopedOK
    <2>4. CASE c.kind = "set_provenance"
        BY <1>4, <2>4, ProvenancedOK DEF EntryOf, CommandOK
    <2>5. CASE c.kind = "revoke"
        BY <2>5 DEF EntryOf
    <2>. QED
        BY <1>1, <2>1, <2>2, <2>3, <2>4, <2>5 DEF Kinds
<1> HIDE DEF entry
<1>6. next \in Stores
    BY <1>1, <1>5 DEF Stores
<1>. QED
    BY <1>6 DEF entry

\* How a Read ends: the command gives up, finds nothing to revoke, or has a
\* document that passes its checks.
LEMMA ReadOutcomes ==
    ASSUME TokenInv, NEW o \in Operators, Read(o)
    PROVE  LET c == command[o]
               next == [tokens EXCEPT ![c.name] = EntryOf(c, tokens[c.name], minted + 1)]
           IN /\ c.step = "read" /\ minted' \in 0..MaxSecrets
              /\ UNCHANGED <<tokens, store, reloading, inventory>>
              /\ \/ Exits(o)
                 \/ GoesTo(o, "signal")
                 \/ /\ tokens[c.name] # None <=> c.kind # "add"
                    /\ Mints(c.kind) => minted + 1 \in 1..MaxSecrets
                    /\ Writable(c, next)
                    /\ command' = [command EXCEPT ![o].step = "write", ![o].next = next, ![o].known = {},
                                                  ![o].old = SecretsOf(tokens) \ SecretsOf(next)]
<1> DEFINE c == command[o]
           next == [tokens EXCEPT ![c.name] = EntryOf(c, tokens[c.name], minted + 1)]
<1>1. minted \in 0..MaxSecrets /\ MaxSecrets \in Nat
    BY TokenConstants DEF TokenInv, TokenTypeOK
<1>2. Mints(c.kind) => minted < MaxSecrets
    BY DEF Read
<1>3. minted' = minted \/ (Mints(c.kind) /\ minted' = minted + 1)
    BY DEF Read
<1>4. minted' \in 0..MaxSecrets /\ (Mints(c.kind) => minted + 1 \in 1..MaxSecrets)
    BY <1>1, <1>2, <1>3
<1>5. c.step = "read" /\ UNCHANGED <<tokens, store, reloading, inventory>>
    BY DEF Read, fileVars, serverVars
<1>6. \/ Exits(o) \/ GoesTo(o, "signal")
      \/ /\ tokens[c.name] # None <=> c.kind # "add"
         /\ Writable(c, next)
         /\ command' = [command EXCEPT ![o].step = "write", ![o].next = next, ![o].known = {},
                                       ![o].old = SecretsOf(tokens) \ SecretsOf(next)]
    BY Zenon DEF Read, EntryOf
<1>. QED
    BY <1>4, <1>5, <1>6

LEMMA SecretsOK == ASSUME NEW entries \in Stores PROVE SecretsOf(entries) \in SUBSET (1..MaxSecrets)
BY DEF SecretsOf, Named, Stores, Entries

LEMMA ReadKeeps == ASSUME TokenInv, NEW o \in Operators, Read(o) PROVE TokenInv'
<1> DEFINE c == command[o]
           next == [tokens EXCEPT ![c.name] = EntryOf(c, tokens[c.name], minted + 1)]
<1>1. minted' \in 0..MaxSecrets /\ UNCHANGED <<tokens, store, reloading, inventory>>
    BY ReadOutcomes
<1>2. CASE Exits(o)
    BY <1>1, <1>2, EndsKeeps DEF Exits
<1>3. CASE GoesTo(o, "signal")
    BY <1>1, <1>3, EndsKeeps
<1>4. CASE /\ c.step = "read"
           /\ tokens[c.name] # None <=> c.kind # "add"
           /\ Mints(c.kind) => minted + 1 \in 1..MaxSecrets
           /\ Writable(c, next)
           /\ command' = [command EXCEPT ![o].step = "write", ![o].next = next, ![o].known = {},
                                         ![o].old = SecretsOf(tokens) \ SecretsOf(next)]
    <2> DEFINE old == SecretsOf(tokens) \ SecretsOf(next)
               r == [c EXCEPT !.step = "write", !.next = next, !.known = {}, !.old = old]
    <2>1. c \in CommandRecord /\ CommandOK(c) /\ minted + 1 \in Nat /\ tokens \in Stores
        BY OwnCommand, TokenConstants DEF TokenInv, TokenTypeOK
    <2>2. next \in Stores /\ ValidStore(next)
        BY <1>4, <2>1, WritableIsStore DEF Writable
    <2>3. old \in SUBSET (1..MaxSecrets)
        BY <2>1, SecretsOK
    <2>4. command' = [command EXCEPT ![o] = r]
        BY <1>4
    <2> HIDE DEF next, old
    <2>5. r \in CommandRecord
        BY <2>1, <2>2, <2>3, Zenon DEF CommandRecord
    <2>6. r.step = "write" /\ r.next = next /\ r.kind = c.kind /\ r.name = c.name
        BY <2>1 DEF CommandRecord
    <2>7. c.name \in Names /\ c.kind \in Kinds
        BY <1>4, <2>1 DEF CommandOK
    <2> HIDE DEF r, c
    <2>8. CommandOK(r)
        BY <2>2, <2>6, <2>7 DEF CommandOK
    <2>. QED
        BY <1>1, <2>4, <2>5, <2>8, CommandMoves
<1>. QED
    BY <1>2, <1>3, <1>4, ReadOutcomes

LEMMA WriteKeeps == ASSUME TokenInv, NEW o \in Operators, Write(o) PROVE TokenInv'
<1>1. command[o].next \in Stores /\ ValidStore(command[o].next)
    BY OwnCommand DEF Write, CommandOK
<1>2. PICK r \in CommandRecord : CommandOK(r) /\ command' = [command EXCEPT ![o] = r]
    BY GoesToKeeps DEF Write
<1>3. \A p \in Operators : command'[p] = IF p = o THEN r ELSE command[p]
    BY <1>2 DEF TokenInv, TokenTypeOK
<1>4. TokenTypeOK'
    BY <1>1, <1>2 DEF Write, TokenInv, TokenTypeOK
<1>5. \A p \in Operators : CommandOK(command[p])'
    BY <1>2, <1>3 DEF TokenInv, CommandOK
<1>6. ValidStore(tokens')
    BY <1>1 DEF Write
<1>. QED
    BY <1>4, <1>5, <1>6 DEF Write, TokenInv, ValidStore, Named

LEMMA OtherCommandStepsKeep ==
    ASSUME TokenInv, NEW o \in Operators, WriteFails(o) \/ Signal(o) \/ Kill(o)
    PROVE  TokenInv'
<1>1. minted' \in 0..MaxSecrets /\ UNCHANGED <<tokens, store, reloading, inventory>>
    BY DEF WriteFails, Signal, Kill, fileVars, serverVars, TokenInv, TokenTypeOK
<1>2. CASE Exits(o)
    BY <1>1, <1>2, EndsKeeps DEF Exits
<1>3. CASE command' = [command EXCEPT ![o] = Resting]
    BY <1>1, <1>3, RestingOK, CommandMoves
<1>. QED
    BY <1>2, <1>3 DEF WriteFails, Signal, Kill

LEMMA ServerStepsKeep ==
    ASSUME TokenInv, \/ Start \/ Stop \/ TakeHup \/ Swap \/ Damage \/ Repair
                     \/ \E d \in Devices : Decommission(d)
    PROVE  TokenInv'
<1>1. UNCHANGED <<tokens, command, minted>>
    BY DEF Start, Stop, TakeHup, Swap, Damage, Repair, Decommission, fileVars, serverVars
<1>2. /\ store' \in {tokens, NoStore, store} \cup ({reloading} \ {None})
      /\ reloading' \in {None, tokens, reloading}
      /\ inventory' \subseteq inventory
    BY DEF Start, Stop, TakeHup, Swap, Damage, Repair, Decommission, fileVars, serverVars
<1>3. TokenTypeOK'
    BY <1>1, <1>2, NoStoreOK DEF TokenInv, TokenTypeOK
<1>4. \A o \in Operators : CommandOK(command[o])'
    BY <1>1 DEF TokenInv, CommandOK
<1>5. ValidStore(tokens') /\ ValidStore(store') /\ (reloading' # None => ValidStore(reloading'))
    BY <1>1, <1>2, NoStoreOK DEF TokenInv
<1>. QED
    BY <1>3, <1>4, <1>5 DEF TokenInv, ValidStore, Named

LEMMA TokenStep == TokenInv /\ [TokenNext]_tokenVars => TokenInv'
<1> SUFFICES ASSUME TokenInv, [TokenNext]_tokenVars PROVE TokenInv'
    OBVIOUS
<1>1. ASSUME NEW o \in Operators, NEW n \in Names, NEW pid \in BOOLEAN,
             \/ BeginAdd(o, n, pid) \/ BeginRotate(o, n, pid) \/ BeginRevoke(o, n, pid)
             \/ \E yes \in BOOLEAN : BeginSetScopes(o, n, yes, pid) \/ BeginSetProvenance(o, n, yes, pid)
      PROVE  TokenInv'
    BY <1>1, BeginAddKeeps, BeginSetScopesKeeps, BeginOthersKeep
<1>2. ASSUME NEW o \in Operators,
             Show(o) \/ Read(o) \/ Write(o) \/ WriteFails(o) \/ Signal(o) \/ Kill(o)
      PROVE  TokenInv'
    BY <1>2, ShowKeeps, ReadKeeps, WriteKeeps, OtherCommandStepsKeep
<1>3. CASE UNCHANGED tokenVars
    BY <1>3 DEF tokenVars, TokenInv, TokenTypeOK, CommandOK, ValidStore, Named
<1>. QED
    BY <1>1, <1>2, <1>3, ServerStepsKeep DEF TokenNext

LEMMA TokenInvariant == TokenSpec => []TokenInv
BY TokenInitial, TokenStep, PTL DEF TokenSpec

\* For any operators, names, scopes and limits: every document a command leaves
\* behind, and every store the server holds, is one that loads (TokenStore::try_new
\* before each write_atomic).
THEOREM TokenFileLoads == TokenSpec => []FileLoads
<1>1. TokenInv => FileLoads
    BY DEF TokenInv, TokenTypeOK, FileLoads, Stores
<1>. QED
    BY <1>1, TokenInvariant, PTL

\* To begin a command changes nothing but the command.
LEMMA BeginsAreQuiet ==
    ASSUME NEW o \in Operators, NEW n \in Names, NEW pid \in BOOLEAN, NEW yes \in BOOLEAN,
           \/ BeginAdd(o, n, pid) \/ BeginRotate(o, n, pid) \/ BeginRevoke(o, n, pid)
           \/ BeginSetScopes(o, n, yes, pid) \/ BeginSetProvenance(o, n, yes, pid)
    PROVE  UNCHANGED <<tokens, serverUp, store, reloading, hup, unheard>>
<1>1. \A kind, change, y : Begin(o, kind, n, change, y, pid)
          => UNCHANGED <<tokens, serverUp, store, reloading, hup, unheard>>
    BY DEF Begin, fileVars, serverVars
<1>. QED
    BY <1>1, Zenon DEF BeginAdd, BeginRotate, BeginRevoke, BeginSetScopes, BeginSetProvenance

\* For any operators and names: whatever commands write while a reload is between
\* its read and its swap, a server that has nothing more to do and was told of the
\* last change holds the file as it is (TokenStoreFile::reload, signals.rs).
THEOREM StoreStaysCurrent == TokenSpec => []StoreIsCurrent
<1>1. TokenInit => StoreIsCurrent
    BY DEF TokenInit, StoreIsCurrent
<1>2. TokenInv /\ StoreIsCurrent /\ [TokenNext]_tokenVars => StoreIsCurrent'
    <2> SUFFICES ASSUME TokenInv, StoreIsCurrent, [TokenNext]_tokenVars PROVE StoreIsCurrent'
        OBVIOUS
    <2>1. tokens # None
        BY TokenConstants DEF TokenInv, TokenTypeOK
    <2>2. CASE \E o \in Operators : Write(o) \/ Signal(o)
        BY <2>2 DEF Write, Signal, fileVars, StoreIsCurrent
    <2>3. CASE Start \/ Stop
        BY <2>3 DEF Start, Stop, fileVars, StoreIsCurrent
    <2>4. CASE TakeHup
        BY <2>1, <2>4 DEF TakeHup, fileVars, StoreIsCurrent
    <2>5. CASE Swap
        BY <2>5 DEF Swap, fileVars, StoreIsCurrent
    <2>6. CASE UNCHANGED <<tokens, serverUp, store, reloading, hup, unheard>>
        BY <2>6 DEF StoreIsCurrent
    <2>7. CASE \E o \in Operators, n \in Names, pid \in BOOLEAN :
                   \/ BeginAdd(o, n, pid) \/ BeginRotate(o, n, pid) \/ BeginRevoke(o, n, pid)
                   \/ \E yes \in BOOLEAN : BeginSetScopes(o, n, yes, pid) \/ BeginSetProvenance(o, n, yes, pid)
        <3>1. UNCHANGED <<tokens, serverUp, store, reloading, hup, unheard>>
            BY <2>7, BeginsAreQuiet
        <3>. QED
            BY <2>6, <3>1
    <2>8. CASE \E o \in Operators : Show(o) \/ Read(o) \/ WriteFails(o) \/ Kill(o)
        <3>1. UNCHANGED <<tokens, serverUp, store, reloading, hup, unheard>>
            BY <2>8 DEF Show, Read, WriteFails, Kill, fileVars, serverVars
        <3>. QED
            BY <2>6, <3>1
    <2>9. CASE Damage \/ Repair \/ \E d \in Devices : Decommission(d)
        <3>1. UNCHANGED <<tokens, serverUp, store, reloading, hup, unheard>>
            BY <2>9 DEF Damage, Repair, Decommission, fileVars, serverVars
        <3>. QED
            BY <2>6, <3>1
    <2>10. CASE UNCHANGED tokenVars
        BY <2>6, <2>10 DEF tokenVars
    <2>. QED
        BY <2>2, <2>3, <2>4, <2>5, <2>7, <2>8, <2>9, <2>10 DEF TokenNext
<1>. QED
    BY <1>1, <1>2, TokenInvariant, PTL DEF TokenSpec
----------------------------------------------------------------------------
(* One operator at a time: what a command was shown is what it changes *)

OneOperator == \A o, p \in Operators : o = p

\* A command that is past its confirmation was confirmed, or takes nothing.
Shown(c, toks) ==
    /\ c.kind = "set_scopes" =>
          /\ toks[c.name] \in Entries /\ c.change \in ScopeChanges
          /\ Widens(toks[c.name], c.change) => c.yes
    /\ c.kind = "set_provenance" =>
          /\ toks[c.name] \in Entries /\ c.change \in Provenances
          /\ Clears(toks[c.name], c.change) => c.yes

\* What it writes is the file it read with one entry changed.
Prepared(c, toks) ==
    /\ Shown(c, toks) /\ c.kind \in Kinds
    /\ \A n \in Names : n # c.name => c.next[n] = toks[n]
    /\ c.kind = "add" => toks[c.name] = None
    /\ c.kind = "revoke" => c.next[c.name] = None
    /\ c.kind = "rotate" =>
          /\ toks[c.name] \in Entries
          /\ \E secret \in 1..MaxSecrets : c.next[c.name] = RotatedEntry(toks[c.name], secret)
    /\ c.kind = "set_scopes" => c.next[c.name] = ScopedEntry(toks[c.name], c.change)
    /\ c.kind = "set_provenance" => c.next[c.name] = ProvenancedEntry(toks[c.name], c.change)

ConfirmedOK(c, toks) ==
    /\ c.step = "read" => Shown(c, toks)
    /\ c.step = "write" => Prepared(c, toks)

ConfirmInv == \A o \in Operators : ConfirmedOK(command[o], tokens)

LEMMA ConfirmInitial == TokenInit => ConfirmInv
BY DEF TokenInit, ConfirmInv, ConfirmedOK, Resting

LEMMA ConfirmMoves ==
    ASSUME TokenInv, ConfirmInv, NEW o \in Operators, NEW r, command' = [command EXCEPT ![o] = r],
           ConfirmedOK(r, tokens), tokens' = tokens
    PROVE  ConfirmInv'
<1>1. \A p \in Operators : command'[p] = IF p = o THEN r ELSE command[p]
    BY DEF TokenInv, TokenTypeOK
<1>. QED
    BY <1>1 DEF ConfirmInv

LEMMA BeginConfirmed ==
    ASSUME TokenInv, ConfirmInv, NEW o \in Operators, NEW n, NEW kind, NEW change, NEW yes, NEW pid,
           Begin(o, kind, n, change, yes, pid)
    PROVE  ConfirmInv'
<1> DEFINE s == IF kind \in {"set_scopes", "set_provenance"} THEN "show" ELSE "read"
           r == [Resting EXCEPT !.step = s, !.kind = kind, !.name = n, !.change = change, !.yes = yes,
                                !.pid = pid, !.known = inventory]
<1>1. r.step = s /\ r.kind = kind
    BY DEF Resting
<1>2. command' = [command EXCEPT ![o] = r] /\ tokens' = tokens
    BY DEF Begin, fileVars
<1> HIDE DEF r
<1>3. ConfirmedOK(r, tokens)
    BY <1>1 DEF ConfirmedOK, Shown
<1>. QED
    BY <1>2, <1>3, ConfirmMoves

LEMMA RestConfirmed ==
    ASSUME TokenInv, ConfirmInv, NEW o \in Operators, NEW step \in {"signal", "exited"}, GoesTo(o, step),
           tokens' = tokens
    PROVE  ConfirmInv'
<1>1. PICK r \in CommandRecord : r.step = step /\ command' = [command EXCEPT ![o] = r]
    BY GoesToKeeps
<1>. QED
    BY <1>1, ConfirmMoves DEF ConfirmedOK

LEMMA ShowConfirmed ==
    ASSUME TokenInv, ConfirmInv, NEW o \in Operators, Show(o)
    PROVE  ConfirmInv'
<1> DEFINE c == command[o]
           r == [c EXCEPT !.step = "read"]
<1>1. tokens' = tokens /\ c \in CommandRecord /\ CommandOK(c) /\ c.step = "show"
    BY OwnCommand DEF Show, fileVars
<1>2. CASE Exits(o)
    BY <1>1, <1>2, RestConfirmed DEF Exits
<1>3. CASE ~Exits(o)
    <2>1. /\ tokens[c.name] # None
          /\ IF c.kind = "set_scopes" THEN Widens(tokens[c.name], c.change) => c.yes
             ELSE Clears(tokens[c.name], c.change) => c.yes
          /\ command' = [command EXCEPT ![o] = r]
        BY <1>3 DEF Show
    <2>2. r.step = "read" /\ r.kind = c.kind /\ r.name = c.name /\ r.change = c.change /\ r.yes = c.yes
        BY <1>1 DEF CommandRecord
    <2>3. c.name \in Names /\ (c.kind = "set_scopes" => c.change \in ScopeChanges)
          /\ (c.kind = "set_provenance" => c.change \in Provenances)
        BY <1>1 DEF CommandOK
    <2>4. tokens[c.name] \in Entries
        BY <2>1, <2>3 DEF TokenInv, TokenTypeOK, Stores
    <2> HIDE DEF c, r
    <2>5. Shown(r, tokens)
        BY <2>1, <2>2, <2>3, <2>4 DEF Shown
    <2>. QED
        BY <1>1, <2>1, <2>2, <2>5, ConfirmMoves DEF ConfirmedOK
<1>. QED
    BY <1>2, <1>3

LEMMA ReadConfirmed ==
    ASSUME TokenInv, ConfirmInv, NEW o \in Operators, Read(o)
    PROVE  ConfirmInv'
<1> DEFINE c == command[o]
           entry == EntryOf(c, tokens[c.name], minted + 1)
           next == [tokens EXCEPT ![c.name] = entry]
           r == [c EXCEPT !.step = "write", !.next = next, !.known = {},
                          !.old = SecretsOf(tokens) \ SecretsOf(next)]
<1>1. tokens' = tokens /\ c \in CommandRecord /\ CommandOK(c) /\ c.step = "read" /\ Shown(c, tokens)
    BY OwnCommand, ReadOutcomes DEF ConfirmInv, ConfirmedOK
<1>2. CASE Exits(o) \/ GoesTo(o, "signal")
    BY <1>1, <1>2, RestConfirmed DEF Exits
<1>3. CASE /\ tokens[c.name] # None <=> c.kind # "add"
           /\ Mints(c.kind) => minted + 1 \in 1..MaxSecrets
           /\ command' = [command EXCEPT ![o].step = "write", ![o].next = next, ![o].known = {},
                                         ![o].old = SecretsOf(tokens) \ SecretsOf(next)]
    <2>1. c.name \in Names /\ c.kind \in Kinds /\ tokens \in Stores
        BY <1>1 DEF CommandOK, TokenInv, TokenTypeOK
    <2>2. command' = [command EXCEPT ![o] = r]
        BY <1>3
    <2>3. /\ r.step = "write" /\ r.kind = c.kind /\ r.name = c.name /\ r.change = c.change /\ r.yes = c.yes
          /\ r.next = next
        BY <1>1 DEF CommandRecord
    <2>4. next[c.name] = entry /\ \A n \in Names : n # c.name => next[n] = tokens[n]
        BY <2>1 DEF Stores
    <2>5. c.kind # "add" => tokens[c.name] \in Entries
        BY <1>3, <2>1 DEF Stores
    <2>6. /\ c.kind = "revoke" => entry = None
          /\ c.kind = "rotate" => entry = RotatedEntry(tokens[c.name], minted + 1)
          /\ c.kind = "set_scopes" => entry = ScopedEntry(tokens[c.name], c.change)
          /\ c.kind = "set_provenance" => entry = ProvenancedEntry(tokens[c.name], c.change)
        BY DEF EntryOf
    <2>7. Shown(r, tokens)
        BY <1>1, <2>3 DEF Shown
    <2>8. (c.kind = "add" => tokens[c.name] = None) /\ (c.kind = "rotate" => minted + 1 \in 1..MaxSecrets)
        BY <1>3 DEF Mints
    <2> HIDE DEF c, r, entry, next
    <2>9. Prepared(r, tokens)
        BY <2>1, <2>3, <2>4, <2>5, <2>6, <2>7, <2>8 DEF Prepared
    <2>. QED
        BY <1>1, <2>2, <2>3, <2>9, ConfirmMoves DEF ConfirmedOK
<1>. QED
    BY <1>2, <1>3, ReadOutcomes

LEMMA WriteConfirmed ==
    ASSUME OneOperator, TokenInv, ConfirmInv, NEW o \in Operators, Write(o)
    PROVE  ConfirmInv'
<1>1. PICK r \in CommandRecord : r.step = "signal" /\ command' = [command EXCEPT ![o] = r]
    BY GoesToKeeps DEF Write
<1>2. \A p \in Operators : command'[p] = r
    BY <1>1 DEF OneOperator, TokenInv, TokenTypeOK
<1>. QED
    BY <1>1, <1>2 DEF ConfirmInv, ConfirmedOK

LEMMA ConfirmStep ==
    ASSUME OneOperator, TokenInv, ConfirmInv, [TokenNext]_tokenVars
    PROVE  ConfirmInv'
<1>1. ASSUME NEW o \in Operators, NEW n \in Names, NEW pid \in BOOLEAN,
             \/ BeginAdd(o, n, pid) \/ BeginRotate(o, n, pid) \/ BeginRevoke(o, n, pid)
             \/ \E yes \in BOOLEAN : BeginSetScopes(o, n, yes, pid) \/ BeginSetProvenance(o, n, yes, pid)
      PROVE  ConfirmInv'
    <2>1. \E kind, change, y : Begin(o, kind, n, change, y, pid)
        BY <1>1, Zenon DEF BeginAdd, BeginRotate, BeginRevoke, BeginSetScopes, BeginSetProvenance
    <2>. QED
        BY <2>1, BeginConfirmed
<1>2. ASSUME NEW o \in Operators, Show(o) \/ Read(o) \/ Write(o)
      PROVE  ConfirmInv'
    BY <1>2, ShowConfirmed, ReadConfirmed, WriteConfirmed
<1>3. ASSUME NEW o \in Operators, WriteFails(o) \/ Signal(o)
      PROVE  ConfirmInv'
    BY <1>3, RestConfirmed DEF WriteFails, Signal, Exits, fileVars
<1>4. ASSUME NEW o \in Operators, Kill(o)
      PROVE  ConfirmInv'
    BY <1>4, ConfirmMoves, RestingOK DEF Kill, fileVars, ConfirmedOK
<1>5. CASE UNCHANGED <<tokens, command>>
    BY <1>5 DEF ConfirmInv
<1>6. CASE \/ Start \/ Stop \/ TakeHup \/ Swap \/ Damage \/ Repair
           \/ \E d \in Devices : Decommission(d)
    <2>1. UNCHANGED <<tokens, command>>
        BY <1>6 DEF Start, Stop, TakeHup, Swap, Damage, Repair, Decommission, fileVars
    <2>. QED
        BY <1>5, <2>1
<1>7. CASE UNCHANGED tokenVars
    BY <1>5, <1>7 DEF tokenVars
<1>. QED
    BY <1>1, <1>2, <1>3, <1>4, <1>6, <1>7 DEF TokenNext

\* The entry that a prepared command writes over another one.
LEMMA PreparedTakes ==
    ASSUME TokenInv, NEW o \in Operators, Prepared(command[o], tokens), command[o].name \in Names,
           NEW n \in Names, tokens' = command[o].next,
           tokens[n] # None, tokens'[n] # None, tokens'[n] # tokens[n]
    PROVE  WideningIsConfirmed(n, o) /\ ClearingIsConfirmed(n, o)
<1> DEFINE c == command[o]
           e == tokens[n]
           f == tokens'[n]
<1>1. n = c.name /\ f = c.next[c.name] /\ e \in Entries /\ c.kind \in Kinds
    BY DEF Prepared, TokenInv, TokenTypeOK, Stores
<1>2. c.kind \notin {"add", "revoke"}
    BY <1>1 DEF Prepared
<1>3. CASE c.kind = "rotate"
    <2>1. PICK secret \in 1..MaxSecrets : f = RotatedEntry(e, secret)
        BY <1>1, <1>3 DEF Prepared
    <2>2. Authority(f) = Authority(e) /\ f.declared = e.declared /\ f.actor = e.actor
        BY <1>1, <2>1, RotatedOK
    <2>. QED
        BY <2>2 DEF WideningIsConfirmed, ClearingIsConfirmed
<1>4. CASE c.kind = "set_scopes"
    <2>1. f = ScopedEntry(e, c.change) /\ c.change \in ScopeChanges /\ (Widens(e, c.change) => c.yes)
        BY <1>1, <1>4 DEF Prepared, Shown
    <2>2. f.declared = e.declared /\ f.actor = e.actor
        BY <1>1, <2>1, ScopedFields
    <2>3. ~(Authority(f) \subseteq Authority(e)) => c.yes
        BY <1>1, <2>1, NarrowingNarrows
    <2>. QED
        BY <2>2, <2>3 DEF WideningIsConfirmed, ClearingIsConfirmed
<1>5. CASE c.kind = "set_provenance"
    <2>1. f = ProvenancedEntry(e, c.change) /\ c.change \in Provenances /\ (Clears(e, c.change) => c.yes)
        BY <1>1, <1>5 DEF Prepared, Shown
    <2>2. /\ Authority(f) = Authority(e) /\ f.declared = c.change.declared
          /\ f.actor = OrUnknown(ProvenanceActor(c.change))
        BY <1>1, <2>1, ProvenancedOK
    <2>3. ~(e.declared \subseteq f.declared) => c.yes
        BY <2>1, <2>2 DEF Clears
    <2>4. f.actor = "unknown" => ProvenanceActor(c.change) = None \/ c.change.actor # None
        BY <2>2, TokenConstants DEF OrUnknown, ProvenanceActor, Actors
    <2>5. e.actor # "unknown" /\ f.actor = "unknown" => c.yes \/ c.change.actor # None
        BY <2>1, <2>4 DEF Clears
    <2>. QED
        BY <1>5, <2>2, <2>3, <2>5 DEF WideningIsConfirmed, ClearingIsConfirmed
<1>. QED
    BY <1>1, <1>2, <1>3, <1>4, <1>5 DEF Kinds

LEMMA TakingStep ==
    ASSUME OneOperator, TokenInv, ConfirmInv, [TokenNext]_tokenVars
    PROVE  [TakesConfirmed]_tokenVars
<1>1. CASE tokens' = tokens
    BY <1>1 DEF TakesConfirmed
<1>2. ASSUME NEW o \in Operators, Write(o) PROVE TakesConfirmed
    <2>1. /\ Prepared(command[o], tokens) /\ command[o].name \in Names /\ tokens' = command[o].next
          /\ \A p \in Operators : p = o
        BY <1>2, OwnCommand DEF Write, ConfirmInv, ConfirmedOK, CommandOK, OneOperator
    <2>. QED
        BY <2>1, PreparedTakes DEF TakesConfirmed
<1>3. ASSUME NEW o \in Operators, NEW n \in Names, NEW pid \in BOOLEAN,
             \/ BeginAdd(o, n, pid) \/ BeginRotate(o, n, pid) \/ BeginRevoke(o, n, pid)
             \/ \E yes \in BOOLEAN : BeginSetScopes(o, n, yes, pid) \/ BeginSetProvenance(o, n, yes, pid)
      PROVE  tokens' = tokens
    BY <1>3, BeginsAreQuiet
<1>4. ASSUME NEW o \in Operators, Show(o) \/ Read(o) \/ WriteFails(o) \/ Signal(o) \/ Kill(o)
      PROVE  tokens' = tokens
    BY <1>4 DEF Show, Read, WriteFails, Signal, Kill, fileVars
<1>5. CASE \/ Start \/ Stop \/ TakeHup \/ Swap \/ Damage \/ Repair
           \/ \E d \in Devices : Decommission(d)
    BY <1>1, <1>5 DEF Start, Stop, TakeHup, Swap, Damage, Repair, Decommission, fileVars
<1>6. CASE UNCHANGED tokenVars
    BY <1>6
<1>. QED
    BY <1>1, <1>2, <1>3, <1>4, <1>5, <1>6 DEF TokenNext

\* Where operators take turns, for any names, scopes and provenance: no sequence of
\* commands widens a token that keeps its secret, or drops what it says of its
\* holder, without a confirmation of that change (is_widening, SetScopes,
\* SetProvenance).
THEOREM TakingStaysConfirmed == OneOperator => (TokenSpec => TakingIsConfirmed)
<1> SUFFICES ASSUME OneOperator PROVE TokenSpec => TakingIsConfirmed
    OBVIOUS
<1>1. TokenInv /\ ConfirmInv /\ [TokenNext]_tokenVars => ConfirmInv'
    BY ConfirmStep
<1>2. TokenInv /\ ConfirmInv /\ [TokenNext]_tokenVars => [TakesConfirmed]_tokenVars
    BY TakingStep
<1>. QED
    BY <1>1, <1>2, ConfirmInitial, TokenInvariant, PTL DEF TokenSpec, TakingIsConfirmed
----------------------------------------------------------------------------
(* The inventory file: types *)

MigrationSteps == {"idle", "read", "original", "backup", "compare", "write", "chown", "done"}
MigrationRecord ==
    [step : MigrationSteps, doc : Documents \cup {Null}, original : Documents \cup {Null},
     result : {Null, "error", "unchanged", "converted"}]

HasDoc == {"read", "original", "backup", "compare", "write"}
HasOriginal == {"original", "backup", "compare", "write"}
HasBackup == {"backup", "compare", "write"}

InventoryTypeOK ==
    /\ file \in Documents /\ firstDoc \in Documents
    /\ backup \in Documents \cup {Null, Partial}
    /\ migration \in [Migrators -> MigrationRecord]
    /\ \A m \in Migrators :
          /\ migration[m].step \in HasDoc => migration[m].doc \in Documents
          /\ migration[m].step \in HasOriginal => migration[m].original \in Documents

\* The copy belongs to the one migration that created it.  Until that one has
\* compared, the file holds every acknowledged device; from then on the copy
\* holds those that were not late.
CopyInv ==
    /\ \A m, k \in Migrators : migration[m].step \in HasBackup /\ migration[k].step \in HasBackup => m = k
    /\ \A m \in Migrators :
          /\ migration[m].step \in HasBackup => backup # Null
          /\ migration[m].step \in {"compare", "write"} => backup = migration[m].original
          /\ migration[m].step \in {"backup", "compare"} => added \ late \subseteq DevicesOf(file)
          /\ migration[m].step = "write" => added \ late \subseteq DevicesOf(backup)
    /\ EditsAreSomewhere

\* Without edits there are two documents, the first one and its canonical form,
\* and the second is in the file only once the first is in the copy.
TwoDocsInv ==
    added = {} =>
        /\ file \in {firstDoc, Canonical(firstDoc)}
        /\ file # firstDoc => backup = firstDoc
        /\ \A m \in Migrators :
              /\ migration[m].step \in HasDoc => migration[m].doc = firstDoc
              /\ migration[m].step \in HasOriginal =>
                    /\ migration[m].original \in {firstDoc, Canonical(firstDoc)}
                    /\ migration[m].original # firstDoc => file # firstDoc
              /\ migration[m].step \in HasBackup => file = firstDoc

InventoryInv == InventoryTypeOK /\ CopyInv /\ TwoDocsInv

LEMMA InventoryConstants ==
    /\ InitialDocs \subseteq Documents
    /\ Null \notin Documents /\ Partial \notin Documents /\ Null # Partial
    /\ Supported # Null
BY InventoryAssumption DEF InventoryAssumption

\* The canonical form of a document says what the document says, and loads if the
\* document does.
LEMMA CanonicalOK ==
    ASSUME NEW doc \in Documents
    PROVE  /\ Canonical(doc) \in Documents /\ Shape(Canonical(doc)) = "Canonical"
           /\ Parses(doc) => Parses(Canonical(doc))
           /\ Parsed(Canonical(doc)) = Parsed(doc)
<1> DEFINE n == Canonical(doc)
<1>1. Supported \in {d.version : d \in InitialDocs} \cup {Supported}
      /\ "object" \in {d.kind : d \in InitialDocs} \cup {"object"} /\ FALSE \in BOOLEAN
    OBVIOUS
<1>2. n \in Documents
    BY <1>1, Zenon DEF Canonical, Documents
<1>3. /\ n.version = Supported /\ n.kind = "object" /\ n.unknown = FALSE
      /\ n.devices = doc.devices /\ n.policy = doc.policy
    BY DEF Canonical, Documents
<1> HIDE DEF n
<1>4. Shape(n) = "Canonical"
    BY <1>3, InventoryConstants DEF Shape
<1>5. Parsed(n) = Parsed(doc) /\ NamesIn(n) = NamesIn(doc)
    BY <1>3 DEF Parsed, NamesIn
<1>6. Parses(doc) => Parses(n)
    BY <1>3, <1>4, <1>5 DEF Parses
<1>. QED
    BY <1>2, <1>4, <1>5, <1>6 DEF n

LEMMA NotMigratingOK == NotMigrating \in MigrationRecord /\ NotMigrating.step = "idle"
BY DEF NotMigrating, MigrationRecord, MigrationSteps

LEMMA InventoryInitial == InventoryInit => InventoryInv
<1> SUFFICES ASSUME InventoryInit PROVE InventoryInv
    OBVIOUS
<1>1. InventoryTypeOK
    BY InventoryConstants, NotMigratingOK DEF InventoryInit, InventoryTypeOK, HasDoc, HasOriginal
<1>2. CopyInv
    BY NotMigratingOK DEF InventoryInit, CopyInv, HasBackup, EditsAreSomewhere
<1>3. TwoDocsInv
    BY NotMigratingOK DEF InventoryInit, TwoDocsInv, HasDoc, HasOriginal, HasBackup
<1>. QED
    BY <1>1, <1>2, <1>3 DEF InventoryInv

\* A migration that ends, or goes on, by itself: it takes no copy.
LEMMA MigrationMoves ==
    ASSUME InventoryInv, NEW m \in Migrators, NEW r \in MigrationRecord,
           migration' = [migration EXCEPT ![m] = r],
           UNCHANGED <<file, backup, added, late, firstDoc>>,
           r.step \in HasBackup => migration[m].step = r.step,
           r.step \in HasBackup => r.original = migration[m].original,
           r.step \in HasDoc => /\ r.doc \in Documents
                                /\ added = {} => r.doc = firstDoc,
           r.step \in HasOriginal =>
               /\ r.original \in Documents
               /\ added = {} => /\ r.original \in {firstDoc, Canonical(firstDoc)}
                                /\ r.original # firstDoc => file # firstDoc
    PROVE  InventoryInv'
<1>1. \A k \in Migrators : migration'[k] = IF k = m THEN r ELSE migration[k]
    BY DEF InventoryInv, InventoryTypeOK
<1>2. InventoryTypeOK'
    BY <1>1 DEF InventoryInv, InventoryTypeOK
<1>3. CopyInv'
    BY <1>1 DEF InventoryInv, CopyInv, EditsAreSomewhere, HasBackup
<1>4. TwoDocsInv'
    BY <1>1 DEF InventoryInv, TwoDocsInv
<1>. QED
    BY <1>2, <1>3, <1>4 DEF InventoryInv

LEMMA EndsOK ==
    ASSUME NEW m \in Migrators, NEW result \in {"error", "unchanged", "converted"}, Ends(m, result)
    PROVE  \E r \in MigrationRecord : r.step = "done" /\ migration' = [migration EXCEPT ![m] = r]
<1> DEFINE r == [NotMigrating EXCEPT !.step = "done", !.result = result]
<1>1. "done" \in MigrationSteps /\ result \in {Null, "error", "unchanged", "converted"}
    BY DEF MigrationSteps
<1>2. r \in MigrationRecord
    BY <1>1, NotMigratingOK, Zenon DEF MigrationRecord
<1>3. r.step = "done"
    BY DEF NotMigrating
<1>. QED
    BY <1>2, <1>3 DEF Ends

LEMMA EndsKeepsInventory ==
    ASSUME InventoryInv, NEW m \in Migrators, NEW result \in {"error", "unchanged", "converted"},
           Ends(m, result), UNCHANGED <<file, backup, added, late, firstDoc>>
    PROVE  InventoryInv'
<1>1. PICK r \in MigrationRecord : r.step = "done" /\ migration' = [migration EXCEPT ![m] = r]
    BY EndsOK
<1>. QED
    BY <1>1, MigrationMoves DEF HasBackup, HasDoc, HasOriginal
----------------------------------------------------------------------------
(* The inventory file: one lemma per action *)

LEMMA AddDeviceKeeps ==
    ASSUME InventoryInv, NEW entry \in NewDevices, AddDevice(entry)
    PROVE  InventoryInv'
<1> DEFINE f == [file EXCEPT !.devices = Append(@, entry)]
<1>1. file \in Documents /\ file.devices \in Seq(Listed) /\ entry \in Listed
    BY DEF InventoryInv, InventoryTypeOK, Documents, Listed
<1>2. Append(file.devices, entry) \in Seq(Listed)
    BY <1>1
<1>3. f \in Documents
    BY <1>1, <1>2, Zenon DEF Documents
<1>4. f.devices = Append(file.devices, entry)
    BY <1>1 DEF Documents
<1>5. /\ ToSet(file.devices) \subseteq ToSet(f.devices) /\ entry \in ToSet(f.devices)
    <2>1. /\ DOMAIN f.devices = 1..(Len(file.devices) + 1) /\ Len(file.devices) \in Nat
          /\ DOMAIN file.devices = 1..Len(file.devices)
          /\ f.devices[Len(file.devices) + 1] = entry
          /\ \A i \in 1..Len(file.devices) : f.devices[i] = file.devices[i]
        BY <1>1, <1>4
    <2>. QED
        BY <2>1 DEF ToSet
<1> HIDE DEF f
<1>6. file' = f /\ added' = added \cup {entry} /\ UNCHANGED <<backup, migration, firstDoc>>
    BY DEF AddDevice, f
<1>7. DevicesOf(file) \subseteq DevicesOf(file') /\ entry \in DevicesOf(file')
    BY <1>1, <1>3, <1>5, <1>6, InventoryConstants DEF DevicesOf
<1>8. InventoryTypeOK'
    BY <1>3, <1>6 DEF InventoryInv, InventoryTypeOK
<1>9. added' \ late' \subseteq (added \ late) \cup {entry}
    BY <1>6 DEF AddDevice
<1>10. (\E m \in Migrators : migration[m].step = "write") => added' \ late' \subseteq added \ late
    BY <1>6 DEF AddDevice
<1>11. CopyInv'
    <2>1. EditsAreSomewhere'
        BY <1>6, <1>7, <1>9 DEF InventoryInv, CopyInv, EditsAreSomewhere, DevicesOf
    <2>2. ASSUME NEW m \in Migrators, migration[m].step \in {"backup", "compare"}
          PROVE  added' \ late' \subseteq DevicesOf(file')
        BY <1>7, <1>9, <2>2 DEF InventoryInv, CopyInv
    <2>3. ASSUME NEW m \in Migrators, migration[m].step = "write"
          PROVE  added' \ late' \subseteq DevicesOf(backup)
        BY <1>10, <2>3 DEF InventoryInv, CopyInv
    <2>. QED
        BY <1>6, <2>1, <2>2, <2>3 DEF InventoryInv, CopyInv, DevicesOf
<1>12. TwoDocsInv'
    BY <1>6 DEF TwoDocsInv
<1>. QED
    BY <1>8, <1>11, <1>12 DEF InventoryInv

LEMMA ReadForCanonicalKeeps == ASSUME InventoryInv, NEW m \in Migrators, ReadForCanonical(m) PROVE InventoryInv'
<1>1. UNCHANGED <<file, backup, added, late, firstDoc>>
    BY DEF ReadForCanonical
<1>2. CASE Ends(m, "error") \/ Ends(m, "unchanged")
    BY <1>1, <1>2, EndsKeepsInventory
<1>3. CASE ~(Ends(m, "error") \/ Ends(m, "unchanged"))
    <2> DEFINE r == [NotMigrating EXCEPT !.step = "read", !.doc = file]
    <2>1. Shape(file) # "Canonical" /\ migration' = [migration EXCEPT ![m] = r]
        BY <1>3, Zenon DEF ReadForCanonical
    <2>2. file \in Documents /\ firstDoc \in Documents /\ "read" \in MigrationSteps
        BY DEF InventoryInv, InventoryTypeOK, MigrationSteps
    <2>3. r \in MigrationRecord
        BY <2>2, NotMigratingOK, Zenon DEF MigrationRecord
    <2>4. r.step = "read" /\ r.doc = file
        BY DEF NotMigrating
    <2>5. added = {} => file = firstDoc
        BY <2>1, <2>2, CanonicalOK DEF InventoryInv, TwoDocsInv
    <2> HIDE DEF r
    <2>. QED
        BY <1>1, <2>1, <2>2, <2>3, <2>4, <2>5, MigrationMoves DEF HasBackup, HasOriginal
<1>. QED
    BY <1>2, <1>3

LEMMA OwnMigration ==
    ASSUME InventoryInv, NEW m \in Migrators
    PROVE  /\ migration[m] \in MigrationRecord /\ file \in Documents /\ firstDoc \in Documents
           /\ migration[m].step \in HasDoc => migration[m].doc \in Documents
           /\ migration[m].step \in HasOriginal => migration[m].original \in Documents
BY DEF InventoryInv, InventoryTypeOK

LEMMA ReadOriginalKeeps == ASSUME InventoryInv, NEW m \in Migrators, ReadOriginal(m) PROVE InventoryInv'
<1> DEFINE c == migration[m]
           r == [c EXCEPT !.step = "original", !.original = file]
<1>1. c \in MigrationRecord /\ file \in Documents /\ c.step = "read" /\ c.doc \in Documents
      /\ "original" \in MigrationSteps
    BY OwnMigration DEF ReadOriginal, HasDoc, MigrationSteps
<1>2. r \in MigrationRecord
    BY <1>1, Zenon DEF MigrationRecord
<1>3. r.step = "original" /\ r.original = file /\ r.doc = c.doc
    BY <1>1 DEF MigrationRecord
<1>4. migration' = [migration EXCEPT ![m] = r] /\ UNCHANGED <<file, backup, added, late, firstDoc>>
    BY DEF ReadOriginal
<1>5. added = {} => c.doc = firstDoc /\ file \in {firstDoc, Canonical(firstDoc)}
    BY <1>1 DEF InventoryInv, TwoDocsInv, HasDoc
<1> HIDE DEF r, c
<1>. QED
    BY <1>1, <1>2, <1>3, <1>4, <1>5, MigrationMoves DEF HasBackup

\* The step of a migration that is moved on, with the copy.
LEMMA StepOnly ==
    ASSUME InventoryInv, NEW m \in Migrators, NEW step \in MigrationSteps,
           migration' = [migration EXCEPT ![m].step = step]
    PROVE  /\ migration' \in [Migrators -> MigrationRecord]
           /\ migration'[m].step = step
           /\ migration'[m].doc = migration[m].doc /\ migration'[m].original = migration[m].original
           /\ \A k \in Migrators : k # m => migration'[k] = migration[k]
<1> DEFINE r == [migration[m] EXCEPT !.step = step]
<1>1. migration[m] \in MigrationRecord /\ migration \in [Migrators -> MigrationRecord]
    BY DEF InventoryInv, InventoryTypeOK
<1>2. r \in MigrationRecord
    BY <1>1, Zenon DEF MigrationRecord
<1>3. r.step = step /\ r.doc = migration[m].doc /\ r.original = migration[m].original
    BY <1>1 DEF MigrationRecord
<1>4. migration' = [migration EXCEPT ![m] = r]
    OBVIOUS
<1> HIDE DEF r
<1>. QED
    BY <1>1, <1>2, <1>3, <1>4

LEMMA CreateBackupKeeps == ASSUME InventoryInv, NEW m \in Migrators, CreateBackup(m) PROVE InventoryInv'
<1>1. UNCHANGED <<file, added, late, firstDoc>> /\ migration[m].step = "original"
    BY DEF CreateBackup
<1>2. CASE backup # Null
    BY <1>1, <1>2, EndsKeepsInventory DEF CreateBackup
<1>3. CASE backup = Null
    <2>1. backup' = Partial /\ migration' = [migration EXCEPT ![m].step = "backup"]
        BY <1>3 DEF CreateBackup
    <2>2. /\ migration' \in [Migrators -> MigrationRecord] /\ migration'[m].step = "backup"
          /\ migration'[m].doc = migration[m].doc /\ migration'[m].original = migration[m].original
          /\ \A k \in Migrators : k # m => migration'[k] = migration[k]
        BY <2>1, StepOnly DEF MigrationSteps
    <2>3. \A k \in Migrators : migration[k].step \notin HasBackup
        BY <1>3 DEF InventoryInv, CopyInv
    <2>4. \A k \in Migrators : k # m => migration'[k].step \notin HasBackup
        BY <2>2, <2>3
    <2>5. InventoryTypeOK'
        BY <1>1, <2>1, <2>2, OwnMigration DEF InventoryInv, InventoryTypeOK, HasDoc, HasOriginal
    <2>6. added \ late \subseteq DevicesOf(file)
        BY <1>3 DEF InventoryInv, CopyInv, EditsAreSomewhere, DevicesOf
    <2>7. CopyInv'
        BY <1>1, <2>1, <2>2, <2>4, <2>6, InventoryConstants
        DEF CopyInv, EditsAreSomewhere, DevicesOf, HasBackup
    <2>8. added = {} => file = firstDoc
        BY <1>3, InventoryConstants DEF InventoryInv, InventoryTypeOK, TwoDocsInv
    <2>9. TwoDocsInv'
        BY <1>1, <2>1, <2>2, <2>4, <2>8 DEF InventoryInv, TwoDocsInv, HasDoc, HasOriginal
    <2>. QED
        BY <2>5, <2>7, <2>9 DEF InventoryInv
<1>. QED
    BY <1>2, <1>3

\* The migration that has the copy is alone with it.
LEMMA AloneWithCopy ==
    ASSUME InventoryInv, NEW m \in Migrators, migration[m].step \in HasBackup
    PROVE  /\ \A k \in Migrators : k # m => migration[k].step \notin HasBackup
           /\ migration[m].doc \in Documents /\ migration[m].original \in Documents
           /\ added = {} => /\ file = firstDoc /\ migration[m].original = firstDoc
                            /\ migration[m].doc = firstDoc
BY OwnMigration DEF InventoryInv, CopyInv, TwoDocsInv, HasDoc, HasOriginal, HasBackup

LEMMA FillBackupKeeps == ASSUME InventoryInv, NEW m \in Migrators, FillBackup(m) PROVE InventoryInv'
<1>1. /\ UNCHANGED <<file, added, late, firstDoc>> /\ migration[m].step = "backup"
      /\ backup' = migration[m].original /\ migration' = [migration EXCEPT ![m].step = "compare"]
    BY DEF FillBackup
<1>2. /\ migration' \in [Migrators -> MigrationRecord] /\ migration'[m].step = "compare"
      /\ migration'[m].doc = migration[m].doc /\ migration'[m].original = migration[m].original
      /\ \A k \in Migrators : k # m => migration'[k] = migration[k]
    BY <1>1, StepOnly DEF MigrationSteps
<1>3. /\ \A k \in Migrators : k # m => migration[k].step \notin HasBackup
      /\ migration[m].doc \in Documents /\ migration[m].original \in Documents
      /\ added = {} => file = firstDoc /\ migration[m].original = firstDoc /\ migration[m].doc = firstDoc
    BY <1>1, AloneWithCopy DEF HasBackup
<1>4. InventoryTypeOK'
    BY <1>1, <1>2, <1>3 DEF InventoryInv, InventoryTypeOK
<1>5. added \ late \subseteq DevicesOf(file)
    BY <1>1 DEF InventoryInv, CopyInv
<1>6. CopyInv'
    BY <1>1, <1>2, <1>3, <1>5, InventoryConstants DEF CopyInv, EditsAreSomewhere, DevicesOf, HasBackup
<1>7. TwoDocsInv'
    BY <1>1, <1>2, <1>3 DEF InventoryInv, TwoDocsInv, HasDoc, HasOriginal
<1>. QED
    BY <1>4, <1>6, <1>7 DEF InventoryInv

LEMMA CompareKeeps == ASSUME InventoryInv, NEW m \in Migrators, Compare(m) PROVE InventoryInv'
<1>1. UNCHANGED <<file, added, late, firstDoc>> /\ migration[m].step = "compare"
    BY DEF Compare
<1>2. /\ \A k \in Migrators : k # m => migration[k].step \notin HasBackup
      /\ migration[m].doc \in Documents /\ migration[m].original \in Documents
      /\ added = {} => file = firstDoc /\ migration[m].original = firstDoc /\ migration[m].doc = firstDoc
    BY <1>1, AloneWithCopy DEF HasBackup
<1>3. added \ late \subseteq DevicesOf(file) /\ backup = migration[m].original
    BY <1>1 DEF InventoryInv, CopyInv
<1>4. CASE file = migration[m].original
    <2>1. UNCHANGED backup /\ migration' = [migration EXCEPT ![m].step = "write"]
        BY <1>4 DEF Compare
    <2>2. /\ migration' \in [Migrators -> MigrationRecord] /\ migration'[m].step = "write"
          /\ migration'[m].doc = migration[m].doc /\ migration'[m].original = migration[m].original
          /\ \A k \in Migrators : k # m => migration'[k] = migration[k]
        BY <2>1, StepOnly DEF MigrationSteps
    <2>3. InventoryTypeOK'
        BY <1>1, <1>2, <2>1, <2>2 DEF InventoryInv, InventoryTypeOK
    <2>4. CopyInv'
        BY <1>1, <1>2, <1>3, <1>4, <2>1, <2>2, InventoryConstants
        DEF InventoryInv, CopyInv, EditsAreSomewhere, DevicesOf, HasBackup
    <2>5. TwoDocsInv'
        BY <1>1, <1>2, <2>1, <2>2 DEF InventoryInv, TwoDocsInv, HasDoc, HasOriginal
    <2>. QED
        BY <2>3, <2>4, <2>5 DEF InventoryInv
<1>5. CASE file # migration[m].original
    <2>1. backup' = Null /\ Ends(m, "error")
        BY <1>5 DEF Compare
    <2>2. PICK r \in MigrationRecord : r.step = "done" /\ migration' = [migration EXCEPT ![m] = r]
        BY <2>1, EndsOK
    <2>3. \A k \in Migrators : migration'[k] = IF k = m THEN r ELSE migration[k]
        BY <2>2 DEF InventoryInv, InventoryTypeOK
    <2>4. InventoryTypeOK'
        BY <1>1, <2>1, <2>2, <2>3 DEF InventoryInv, InventoryTypeOK, HasDoc, HasOriginal
    <2>5. CopyInv'
        BY <1>1, <1>2, <1>3, <2>1, <2>2, <2>3 DEF CopyInv, EditsAreSomewhere, DevicesOf, HasBackup
    <2>6. TwoDocsInv'
        BY <1>1, <1>2, <2>1, <2>2, <2>3 DEF InventoryInv, TwoDocsInv, HasDoc, HasOriginal, HasBackup
    <2>. QED
        BY <2>4, <2>5, <2>6 DEF InventoryInv
<1>. QED
    BY <1>4, <1>5

LEMMA WriteCanonicalKeeps == ASSUME InventoryInv, NEW m \in Migrators, WriteCanonical(m) PROVE InventoryInv'
<1>1. /\ UNCHANGED <<backup, added, late, firstDoc>> /\ migration[m].step = "write"
      /\ file' = Canonical(migration[m].doc) /\ migration' = [migration EXCEPT ![m].step = "chown"]
    BY DEF WriteCanonical
<1>2. /\ migration' \in [Migrators -> MigrationRecord] /\ migration'[m].step = "chown"
      /\ \A k \in Migrators : k # m => migration'[k] = migration[k]
    BY <1>1, StepOnly DEF MigrationSteps
<1>3. /\ \A k \in Migrators : k # m => migration[k].step \notin HasBackup
      /\ migration[m].doc \in Documents
      /\ added = {} => file = firstDoc /\ migration[m].original = firstDoc /\ migration[m].doc = firstDoc
    BY <1>1, AloneWithCopy DEF HasBackup
<1>4. added \ late \subseteq DevicesOf(backup) /\ backup = migration[m].original
    BY <1>1 DEF InventoryInv, CopyInv
<1>5. InventoryTypeOK'
    BY <1>1, <1>2, <1>3, CanonicalOK DEF InventoryInv, InventoryTypeOK, HasDoc, HasOriginal
<1>6. CopyInv'
    BY <1>1, <1>2, <1>3, <1>4 DEF CopyInv, EditsAreSomewhere, DevicesOf, HasBackup
<1>7. TwoDocsInv'
    BY <1>1, <1>2, <1>3, <1>4 DEF InventoryInv, TwoDocsInv, HasDoc, HasOriginal, HasBackup
<1>. QED
    BY <1>5, <1>6, <1>7 DEF InventoryInv

LEMMA InventoryStep == InventoryInv /\ [InventoryNext]_inventoryVars => InventoryInv'
<1> SUFFICES ASSUME InventoryInv, [InventoryNext]_inventoryVars PROVE InventoryInv'
    OBVIOUS
<1>1. ASSUME NEW m \in Migrators, RestoreOwner(m) \/ MigrationFails(m) PROVE InventoryInv'
    BY <1>1, EndsKeepsInventory DEF RestoreOwner, MigrationFails
<1>2. CASE UNCHANGED <<file, backup, migration, added, late, firstDoc>>
    BY <1>2 DEF InventoryInv, InventoryTypeOK, CopyInv, TwoDocsInv, EditsAreSomewhere, DevicesOf
<1>3. CASE Load
    BY <1>2, <1>3 DEF Load
<1>4. CASE UNCHANGED inventoryVars
    BY <1>2, <1>4 DEF inventoryVars
<1>. QED
    BY <1>1, <1>3, <1>4, AddDeviceKeeps, ReadForCanonicalKeeps, ReadOriginalKeeps, CreateBackupKeeps,
       FillBackupKeeps, CompareKeeps, WriteCanonicalKeeps DEF InventoryNext

LEMMA InventoryInvariant == InventorySpec => []InventoryInv
BY InventoryInitial, InventoryStep, PTL DEF InventorySpec

\* For any number of migrations and any document: while nobody edits the file it
\* loads to what it loaded to at first, and the first document is still the file or
\* the copy (migrate_to_canonical: create_new, compare, rename).
THEOREM MigrationStaysReversible == InventorySpec => []MigrationIsReversible
<1>1. InventoryInv => MigrationIsReversible
    <2> SUFFICES ASSUME InventoryInv, added = {}
                 PROVE  /\ Parses(firstDoc) => Parses(file) /\ Parsed(file) = Parsed(firstDoc)
                        /\ firstDoc \in {file, backup}
        BY DEF MigrationIsReversible
    <2>1. file \in {firstDoc, Canonical(firstDoc)} /\ (file # firstDoc => backup = firstDoc)
        BY DEF InventoryInv, TwoDocsInv
    <2>2. firstDoc \in Documents
        BY DEF InventoryInv, InventoryTypeOK
    <2>. QED
        BY <2>1, <2>2, CanonicalOK
<1>. QED
    BY <1>1, InventoryInvariant, PTL

\* For any number of migrations beside any number of edits: a device that add_device
\* acknowledged is in the file or in the copy, unless it was written between a
\* comparison and its rename (migrate_to_canonical).
THEOREM EditsStaySomewhere == InventorySpec => []EditsAreSomewhere
<1>1. InventoryInv => EditsAreSomewhere
    BY DEF InventoryInv, CopyInv
<1>. QED
    BY <1>1, InventoryInvariant, PTL
=============================================================================
