--------------------------- MODULE MCFilesAndCalls ---------------------------
(***************************************************************************)
(* Four more parts that share no state: the token file with its commands   *)
(* and its server, the inventory file with its migrations, the HTTP client *)
(* and the verification of an evidence chain.  Each behaviour moves one of *)
(* them.  The token file is moved in two ways, to keep what a command may  *)
(* write apart from when the server reads it: every command with the       *)
(* server down, and plain tokens that are added, rotated and revoked       *)
(* beside a server.                                                        *)
(***************************************************************************)
EXTENDS TokenFile, Inventory, HttpClient, Verify, TLC

CONSTANTS n1, d1, d2, read, write, a, b, hyphen, pay1, pay2, pol, q1, q2

\* Scopes, grants and provenance an operator asks for: valid ones, one with a
\* tool no server implements, one provenance that an entry may not have.
SomeDeviceScopes == {Wildcard, {d1}}
SomeToolScopes == {Wildcard, {read, write}, {"unheard of"}}
SomeProvenances ==
    {[declared |-> {}, actor |-> None],
     [declared |-> {"provider", "provider_tier"}, actor |-> None],
     [declared |-> {"provider"}, actor |-> "agent"]}

Doc(version, kind, devices, policy, unknown) ==
    [version |-> version, kind |-> kind, devices |-> devices, policy |-> policy, unknown |-> unknown]

Junos == Doc(Null, "absent", <<<<a, pay1>>>>, pol, FALSE)

\* Every shape of an inventory, and one document for each reason to refuse.
SomeDocs ==
    {Junos,
     Doc(1, "array", <<<<a, pay1>>>>, Null, FALSE),
     Doc(Null, "absent", <<>>, Null, FALSE),
     Doc(1, "object", <<<<a, pay1>>>>, pol, FALSE),
     Doc(1, "array", <<<<a, pay1>>, <<a, pay2>>>>, Null, FALSE),
     Doc(2, "array", <<<<a, pay1>>>>, Null, FALSE),
     Doc(1, "absent", <<>>, Null, FALSE),
     Doc(Null, "object", <<<<a, pay1>>>>, Null, FALSE),
     Doc(1, "object", <<<<hyphen, pay1>>>>, Null, FALSE),
     Doc(1, "object", <<<<a, pay1>>>>, Null, TRUE)}
TwoDevices == {<<a, pay2>>, <<b, pay1>>}

\* Segments of one and of two records; a commit log with a request of both.
SomeBatches == {<<q1>>, <<q2, q1>>}
SomeLogs == {Missing, {q1}}

\* Bounds on the two ways.
OneSecret == minted' <= 1
PlainAdd == [devices |-> Wildcard, tools |-> Wildcard, grant |-> None,
             provenance |-> [declared |-> {}, actor |-> None]]
PlainCommands ==
    \A o \in Operators :
        /\ command'[o].kind \in {None, "add", "rotate", "revoke"}
        /\ command'[o].kind = "add" => command'[o].change = PlainAdd

\* Two changes to short chains, one to the longest.
LessDamage == damages' + FoldFunction(LAMBDA g, n : n + Len(g), 0, archive') <= MaxClosed + 1

VARIABLE part  \* the part that moves

Init ==
    /\ TokenInit /\ InventoryInit /\ HttpInit /\ VerifyInit
    /\ part \in {"commands", "reload", "inventory", "http", "verify"}
    /\ part # "inventory" => file = Junos
    /\ part # "verify" => signing = [s \in Auditors |-> "segment"]

Next ==
    /\ UNCHANGED part
    /\ \/ part = "commands" /\ TokenNext /\ ~serverUp' /\ OneSecret /\ UNCHANGED <<inventoryVars, httpVars, verifyVars>>
       \/ part = "reload" /\ TokenNext /\ PlainCommands /\ UNCHANGED <<inventory, inventoryVars, httpVars, verifyVars>>
       \/ part = "inventory" /\ InventoryNext /\ UNCHANGED <<tokenVars, httpVars, verifyVars>>
       \/ part = "http" /\ HttpNext /\ UNCHANGED <<tokenVars, inventoryVars, verifyVars>>
       \/ part = "verify" /\ VerifyNext /\ LessDamage /\ UNCHANGED <<tokenVars, inventoryVars, httpVars>>

Spec == Init /\ [][Next]_<<part, tokenVars, inventoryVars, httpVars, verifyVars>>

TaskSymmetry == Permutations(Tasks)
=============================================================================
