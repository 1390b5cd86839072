SPECIFICATION Spec
CONSTANTS
    MaxNoResp = 2
    InboxDepth = 2
    MaxLeaving = 1
    Faults = {"connect", "alloc", "thread", "timer", "early", "preempt", "quick", "slow", "reset"}
INVARIANTS
    TypeOK
    OneReleaser
    ResourcesHeld
PROPERTIES
    SessionManaged
CHECK_DEADLOCK FALSE
