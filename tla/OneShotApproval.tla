-------------------------- MODULE OneShotApproval ---------------------------
(***************************************************************************)
(* What the approval gate promises its users, with no store, file, process *)
(* or clock: somebody consents to a change set, it runs at most once, and  *)
(* it does not run after it was reported cancelled or expired.             *)
(***************************************************************************)
CONSTANTS Ids, Principals

VARIABLES consented,   \* who consented to each change set
          ran,         \* how often the execution of each was granted
          closed       \* change sets reported cancelled or expired

Init ==
    /\ consented = [i \in Ids |-> {}]
    /\ ran = [i \in Ids |-> 0]
    /\ closed = {}

Consent(i, p) ==
    /\ consented' = [consented EXCEPT ![i] = @ \cup {p}]
    /\ UNCHANGED <<ran, closed>>

Run(i) ==
    /\ ran[i] = 0 /\ i \notin closed
    /\ consented[i] # {}
    /\ ran' = [ran EXCEPT ![i] = 1]
    /\ UNCHANGED <<consented, closed>>

Close(i) ==
    /\ closed' = closed \cup {i}
    /\ UNCHANGED <<consented, ran>>

Next == \E i \in Ids : Run(i) \/ Close(i) \/ \E p \in Principals : Consent(i, p)

Spec == Init /\ [][Next]_<<consented, ran, closed>>

=============================================================================
