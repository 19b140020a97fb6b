---------------------------- MODULE MCOperations ----------------------------
(* Model values for the runs of Operations. *)
EXTENDS Operations, TLC

CONSTANT Mgmt       \* the one endpoint every name resolves to

OneEndpoint == {Mgmt}
Aliased == [d \in Devices |-> Mgmt]

Symmetry == Permutations(OpIds) \cup Permutations(Callers) \cup Permutations(Devices)

=============================================================================
