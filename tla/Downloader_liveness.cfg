SPECIFICATION FairSpec
CONSTANTS
  FileSize = 2
  MaxSections = 2
  MinSize = 1
  SplitFloor = 2
  MaxRead = 1
  CacheSize = 0
  RollBack = 0
  SpeedAhead = 0
  MaxAttempts = 1
  MaxFaults = 2
  MaxStarts = 1
  Owner = Owner
  Tail = Tail
  None = None
PROPERTIES
  ComesToRest
CHECK_DEADLOCK FALSE
