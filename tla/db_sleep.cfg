SPECIFICATION FairSpec
CONSTANTS
    Media = {"camera"}
    Services = {"tcp"}
    None = none
    QueueLen = 4
    Preempted = FALSE
    Faults = {}
INVARIANTS
    PendingHasCause
    HandedOverIdle
    CommandsGated
    RunningIsVoted
    IdleCounts
CHECK_DEADLOCK FALSE
PROPERTIES
    IdleSleeps
    WakeServed
