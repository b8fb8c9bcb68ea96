CONSTANTS
    VideoSubs = {v1, v2}
    RawSubs = {r1}
    Cap = 2
    MaxFrames = 3
    None = None
SYMMETRY Symmetry
SPECIFICATION Spec
INVARIANTS GaplessUnlessSlow InOrderOnce InitFirst FirstKeyCarriesItsParams
CHECK_DEADLOCK FALSE
