\* Every kind of event, failing checkpoints and Death.
SPECIFICATION Spec
CONSTANTS
    InChannels = {c1, c2}
    Timestamps = {1, 2}
    U64Max = 2
    MaxEpoch = 2
    MaxSent = 3
    MaxBatch = 2
    Lead = 2
    SaveMayFail = TRUE
    MayDie = TRUE
SYMMETRY Symmetry
INVARIANTS TypeOK WatermarkIsLowest
PROPERTIES EmitsMarkedStream
CHECK_DEADLOCK FALSE
