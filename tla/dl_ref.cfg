SPECIFICATION Spec
CONSTANTS
    Slots = {s1, s2, s3}
    NoSlot = none
    Faults = {}
INVARIANTS
    GateKeepsReferences
