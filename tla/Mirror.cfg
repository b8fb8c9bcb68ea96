CONSTANTS
    Transports = {t1, t2}
    Sockets = {s1, s2}
    MaxAttempts = 2
    MaxStray = 1
    None = None
SPECIFICATION FairSpec
INVARIANTS OpenIsRegistered DecoderBelongsToStream DisconnectReleases
PROPERTIES GivesUp HandlerEnds
CHECK_DEADLOCK FALSE
