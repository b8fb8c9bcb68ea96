----------------------------- MODULE MCBackend ------------------------------
(* Backend for TLC. *)
EXTENDS Backend, TLC
Symmetry == Permutations(Calls) \cup Permutations(GroupNames) \cup Permutations(Languages)
=============================================================================
