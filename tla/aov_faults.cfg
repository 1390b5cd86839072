SPECIFICATION Spec
CONSTANTS
    QueueDepth = 3
    IpcDepth = 1
    SeqMod = 2
    Frames = {f1}
    NoFrame = none
    Faults = {"ipc", "camera", "wifi", "pm", "crash", "flash"}
    Inputs = {"CLOUD_REGISTERED", "FACTORY_RESET", "OTA_START", "OTA_FINISH"}
    Orderly = TRUE
    InputBacklog = 1
    TickBacklog = 1
    SlowWifi = FALSE
    NoMotionStop = 1
    MaxMotion = 1
INVARIANTS
    SleepVoteOnlyApDown
PROPERTIES
    PendingResetSurvives
    PowerManaged
CHECK_DEADLOCK FALSE
