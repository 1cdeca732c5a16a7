-------------------------- MODULE MCRootAdmission --------------------------
(* An instance of RootAdmission for TLC. *)
EXTENDS RootAdmission, TLC

\* A root, one inside it and one beside it.
NestedPaths == {<<1>>, <<1, 1>>, <<2>>}

\* Processes are interchangeable, and so are shares.
AdmissionSymmetry == Permutations(Process) \cup Permutations(Share)
=============================================================================
