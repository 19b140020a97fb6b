----------------------------- MODULE MCEvidence -----------------------------
(* Model values for the runs of Evidence. *)
EXTENDS Evidence

All(p) == [ch \in Changes |-> p]
OneLate == [All("approved") EXCEPT ![CHOOSE ch \in Changes : TRUE] = "proposed"]

\* Two changes approved under an earlier process, over every lifetime; one of them
\* still to be approved, over one lifetime; and two that one process plans itself,
\* without faults.
Approved == {<<All("approved"), 0, 0>>}
EarlyOrLate ==
    Approved \cup {<<OneLate, 0, MaxRuns - 1>>, <<All("new"), MaxFaults, MaxRuns - 1>>}

=============================================================================
