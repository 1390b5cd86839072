SPECIFICATION FairSpec
CONSTANTS
    Media = {"camera"}
    Services = {"tcp"}
    None = none
    QueueLen = 4
    Preempted = FALSE
    Faults = {}
PROPERTIES
    LostSleeps
CHECK_DEADLOCK FALSE
