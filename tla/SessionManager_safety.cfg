CONSTANTS
    Serials = {e1, e2}
    Sups = {p1, p2, p3}
    Attachers = {a1, a2}
    Senders = {d1}
    Readers = {}
    Closers = {}
    CmdCap = 2
    MayAbandon = TRUE
    None = None
PROPERTY CollectsOnlyIdle
SYMMETRY Symmetry
SPECIFICATION Spec
INVARIANT SupervisorsAccounted
CHECK_DEADLOCK FALSE
