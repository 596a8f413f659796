SPECIFICATION Spec
CONSTANTS
  FileSize = 3
  MaxSections = 2
  MinSize = 1
  SplitFloor = 2
  MaxRead = 2
  CacheSize = 2
  RollBack = 1
  SpeedAhead = 1
  MaxAttempts = 1
  MaxFaults = 1
  MaxStarts = 1
  Owner = Owner
  Tail = Tail
  None = None
INVARIANTS
  TypeOK
  PrefixWritten
  DoneMeansComplete
  NoHole
  SectionsApart
CHECK_DEADLOCK FALSE
