CONSTANTS
    Callers = {c1, c2}
    Sessions = {s1, s2}
    MaxAttempts = 1
    CmdCap = 1
    None = None
SPECIFICATION FairSpec
INVARIANTS NoOrphanSession NoStrandedWaiter
PROPERTIES ImplementsBreaker ImplementsLife AcquireReturns CloseCompletes
CHECK_DEADLOCK FALSE
