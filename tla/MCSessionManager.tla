-------------------------- MODULE MCSessionManager --------------------------
EXTENDS SessionManager, TLC

Symmetry == Permutations(Attachers) \cup Permutations(Sups)
=============================================================================
