---------------------------- MODULE MCSupervisor ----------------------------
EXTENDS Supervisor, TLC

\* Callers and sessions are interchangeable in the safety runs.
Symmetry == Permutations(Callers) \cup Permutations(Sessions)
=============================================================================
