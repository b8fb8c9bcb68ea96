CONSTANTS
    Serials = {e1}
    Sups = {p1}
    Attachers = {a1}
    Senders = {}
    Readers = {}
    Closers = {}
    CmdCap = 1
    MayAbandon = TRUE
    None = None
SPECIFICATION FairSpec
PROPERTY IdleCollected
CHECK_DEADLOCK FALSE
