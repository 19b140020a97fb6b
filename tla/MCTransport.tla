----------------------------- MODULE MCTransport -----------------------------
(***************************************************************************)
(* Three requests of two tokens, two of them of the same one; a token may  *)
(* have one request in flight, or as many as the server.                   *)
(***************************************************************************)
EXTENDS Transport, TLC

CONSTANTS r1, r2, r3, alice, bob

OwnersOfThree == [r \in Requests |-> IF r = r3 THEN bob ELSE alice]
TightOrShared == {[inflight |-> 2, perToken |-> 1], [inflight |-> 2, perToken |-> 2]}
\* The requests of one token are interchangeable.
SameOwner == Permutations({r1, r2})
=============================================================================
