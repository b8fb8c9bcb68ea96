----------------------------- MODULE MCInstances -----------------------------
EXTENDS Instances, TLC

\* Everything but ports, which are taken in order; for the safety runs.
Symmetry == Permutations(Requests) \cup Permutations(Workers)
                \cup Permutations(Ids) \cup Permutations(Names)
=============================================================================
