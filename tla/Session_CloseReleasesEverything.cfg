CONSTANTS
    Closers = {c1, c2}
    Senders = {d1}
    VideoSubs = {v1, v2}
    RawSubs = {r1}
    None = None
SYMMETRY Symmetry
SPECIFICATION Spec
INVARIANT CloseReleasesEverything
CHECK_DEADLOCK FALSE
