---------------------------- MODULE MCChangeSets ----------------------------
(* Model values for the runs of ChangeSets. *)
EXTENDS ChangeSets, TLC

IdSymmetry == Permutations(Ids)
CallerSymmetry == Permutations(Callers)
Symmetry == IdSymmetry \cup CallerSymmetry

=============================================================================
