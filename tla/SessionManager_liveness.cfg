CONSTANTS
    Serials = {e1}
    Sups = {p1}
    Attachers = {a1}
    Senders = {}
    Readers = {r1}
    Closers = {k1}
    CmdCap = 1
    MayAbandon = FALSE
    None = None
SPECIFICATION FairSpec
PROPERTIES IdleCollected CallsServed ShutdownCompletes
CHECK_DEADLOCK FALSE
