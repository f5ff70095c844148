\* Senders up to three epochs ahead of the node.
SPECIFICATION Spec
CONSTANTS
    InChannels = {c1, c2, c3}
    Timestamps = {}
    U64Max = 3
    MaxEpoch = 4
    MaxSent = 4
    MaxBatch = 1
    Lead = 3
    SaveMayFail = TRUE
    MayDie = FALSE
SYMMETRY Symmetry
INVARIANTS ChannelsAreFifo NeverFullyBlocked OneReplayAtATime
CHECK_DEADLOCK FALSE
