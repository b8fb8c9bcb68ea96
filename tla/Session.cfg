CONSTANTS
    Closers = {c1, c2}
    Senders = {d1}
    VideoSubs = {v1, v2}
    RawSubs = {r1}
    None = None
SPECIFICATION FairSpec
INVARIANTS FailedOpenHoldsNothing ChannelsSound WriteHasSocket OwnerReleasedEverything
PROPERTIES CloseCompletes SubscribersReleased
CHECK_DEADLOCK FALSE
