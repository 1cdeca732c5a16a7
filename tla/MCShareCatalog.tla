-------------------------- MODULE MCShareCatalog --------------------------
(* Two devices, two pushes at a time, one retained identity. *)
EXTENDS ShareCatalog, TLC

Symmetric == Permutations(Peer) \cup Permutations(Writer)
=============================================================================
