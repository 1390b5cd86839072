SPECIFICATION FairSpec
CONSTANTS
    MaxNoResp = 2
    InboxDepth = 2
    MaxLeaving = 1
    Faults = {"connect", "alloc", "thread", "timer", "quick", "slow"}
INVARIANTS
    AsleepIsWatched
    WokenForReason
PROPERTIES
    DeadLinkServed
    WakeupServed
    TeardownCompletes
CHECK_DEADLOCK FALSE
