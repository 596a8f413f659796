SPECIFICATION Spec
CONSTANTS
  FileSize = 2
  MaxSections = 2
  MinSize = 1
  SplitFloor = 2
  MaxRead = 2
  CacheSize = 1
  RollBack = 1
  SpeedAhead = 0
  MaxAttempts = 1
  MaxFaults = 1
  MaxStarts = 2
  Owner = Owner
  Tail = Tail
  None = None
INVARIANTS
  RunNotMissed
  CreatingCounted
  DownloadingHasThread
PROPERTIES
  NoSecondWorker
  DoneStays
CHECK_DEADLOCK FALSE
