------------------------------- MODULE MCPump -------------------------------
EXTENDS Pump, TLC

\* Subscribers of one fan-out are interchangeable; for the safety runs.
Symmetry == Permutations(VideoSubs) \cup Permutations(RawSubs)
=============================================================================
