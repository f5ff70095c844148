\* A sender two epochs ahead.
SPECIFICATION Spec
CONSTANTS
    InChannels = {c1, c2}
    Timestamps = {}
    U64Max = 3
    MaxEpoch = 2
    MaxSent = 4
    MaxBatch = 1
    Lead = 2
    SaveMayFail = FALSE
    MayDie = FALSE
INVARIANTS CheckpointIsCut
CHECK_DEADLOCK FALSE
