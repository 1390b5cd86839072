SPECIFICATION FairSpec
CONSTANTS
    QueueDepth = 6
    IpcDepth = 1
    SeqMod = 3
    Frames = {f1, f2}
    NoFrame = none
    Faults = {}
    Inputs = {"CLOUD_REGISTERED", "LIVE_START", "LIVE_STOP", "QR_DONE"}
    Orderly = TRUE
    InputBacklog = 1
    TickBacklog = 1
    SlowWifi = TRUE
    NoMotionStop = 2
    MaxMotion = 2
INVARIANTS
    TypeOK
    DetectionArmed
    GrayConsistent
PROPERTIES
    DetectPhaseKept
    PowerReturns
    MotionJobEnds
    DetectionRecurs
