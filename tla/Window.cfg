SPECIFICATION FairSpec
CONSTANTS
  ElementKeys = {0, 1}
  Assigners <- MCAssigners
  MaxTimestamp = 3
  MaxTime = 6
  MaxElements = 3
  MaxRestarts = 1
  MaxTimeouts = 5
  OverflowChecks = TRUE
  U64 = 32
  U32Max = 3
  None = None
INVARIANTS WheelAgrees AdvanceReturnsDue WindowsAreComplete OneTriggerPerWindow
           TriggersAreInTheFuture ResultsAreOnTime
PROPERTY PassedWindowsClose
CHECK_DEADLOCK FALSE
