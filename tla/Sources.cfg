SPECIFICATION FairSpec
CONSTANTS
  Configurations <- MCConfigurations
  RescheduleEvery = 2
  MaxTs = 2
  MaxTicks = 2
  None = None
INVARIANTS InOrderOnce WatermarksCover WatermarkEveryInterval
PROPERTY EndsCovered
CHECK_DEADLOCK FALSE
