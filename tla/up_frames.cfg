SPECIFICATION FairSpec
CONSTANTS
    Frames = {f1, f2, f3, f4}
    NoFrame = none
    Faults = {"camera", "memory", "thread"}
INVARIANTS
    FramesAccounted
    CountErrsHigh
    OnDelivers
PROPERTIES
    OffCompletes
