SPECIFICATION FairSpec
CONSTANTS
    MaxNoResp = 2
    InboxDepth = 2
    MaxLeaving = 1
    Faults = {"early"}
PROPERTIES
    DeadLinkServed
CHECK_DEADLOCK FALSE
