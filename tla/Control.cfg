CONSTANTS
    Instances = {i1, i2}
    Serials = {p1}
    Target = i1
    Requests = {h1}
    Conns = {k1, k2}
    MaxFrames = 2
    None = None
SPECIFICATION FairSpec
INVARIANT TapLifts
PROPERTIES InGestureOrder FingerLifts
CHECK_DEADLOCK FALSE
