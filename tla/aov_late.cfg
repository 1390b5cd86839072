SPECIFICATION Spec
CONSTANTS
    QueueDepth = 4
    IpcDepth = 1
    SeqMod = 4
    Frames = {f1}
    NoFrame = none
    Faults = {"late", "camera"}
    Inputs = {"CLOUD_REGISTERED"}
    Orderly = TRUE
    InputBacklog = 1
    TickBacklog = 1
    SlowWifi = FALSE
    NoMotionStop = 1
    MaxMotion = 1
INVARIANTS
    PowerOffOnlyWhenQuiesced
    GrayWaiverEarned
CHECK_DEADLOCK FALSE
