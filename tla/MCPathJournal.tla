--------------------------- MODULE MCPathJournal ---------------------------
(* Instances of PathJournal for TLC. *)
EXTENDS PathJournal, TLC

\* Attempts are interchangeable: recovery may meet them in any order.
AttemptSymmetry == Permutations(Attempt)
=============================================================================
