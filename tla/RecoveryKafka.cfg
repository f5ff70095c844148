SPECIFICATION Spec
CONSTANTS
  NumNodes = 2
  SinkKind = "file"
  AtomicCheckpoints = FALSE
  MaxCrashes = 2
  MaxTs = 2
  MaxMessages = 3
  MaxEpoch = 3
  batch_size = 2
  Parses = {TRUE, FALSE}
  None = None
INVARIANTS  CheckpointsFitTogether
CHECK_DEADLOCK FALSE
