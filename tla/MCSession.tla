----------------------------- MODULE MCSession -----------------------------
EXTENDS Session, TLC

Symmetry == Permutations(Closers) \cup Permutations(Senders)
                \cup Permutations(VideoSubs) \cup Permutations(RawSubs)
=============================================================================
