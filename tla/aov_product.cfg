SPECIFICATION Spec
CONSTANTS
    QueueDepth = 3
    IpcDepth = 1
    SeqMod = 2
    Frames = {f1}
    NoFrame = none
    Faults = {}
    Inputs = {"PROVISION_START", "PROVISION_SUCCESS", "PROVISION_FAIL", "CLOUD_REGISTER_FAIL", "WIFI_SET", "WIFI_CLEAR", "STATE_TIMEOUT"}
    Orderly = TRUE
    InputBacklog = 1
    TickBacklog = 1
    SlowWifi = TRUE
    NoMotionStop = 1
    MaxMotion = 0
INVARIANTS
    RecordWrittenThrough
    RetryPending
    JobStatesVoteOn
CHECK_DEADLOCK FALSE
