SPECIFICATION FairSpec
CONSTANTS
  NumNodes = 2
  SinkKind = "kafka"
  AtomicCheckpoints = TRUE
  MaxCrashes = 2
  MaxTs = 2
  MaxLog = 5
  None = None
  
PROPERTY EverythingArrives
CHECK_DEADLOCK FALSE
