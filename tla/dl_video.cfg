SPECIFICATION FairSpec
CONSTANTS
    Slots = {s1, s2, s3}
    NoSlot = none
    Faults = {"decode", "lossy", "start"}
INVARIANTS
    SlotsAccounted
    TornDownUnused
    GateSeesLoss
PROPERTIES
    StopCompletes
    Resyncs
