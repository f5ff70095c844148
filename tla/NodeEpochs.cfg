\* Epoch alignment alone, three channels: untimestamped elements, no watermarks.
SPECIFICATION FairSpec
CONSTANTS
    InChannels = {c1, c2, c3}
    Timestamps = {}
    U64Max = 3
    MaxEpoch = 2
    MaxSent = 3
    MaxBatch = 1
    Lead = 1
    SaveMayFail = FALSE
    MayDie = FALSE
INVARIANTS CheckpointIsCut
PROPERTIES EpochsComplete
CHECK_DEADLOCK FALSE
