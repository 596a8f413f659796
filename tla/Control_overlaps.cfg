SPECIFICATION Spec
CONSTANTS
  Ctl = {c1, c2}
  Caller = {ui, scheduler}
  None = None
  MaxSections = 2
  MaxThreads = 3
  MaxAttempts = 1
  NoRecovery = FALSE
  MaxFaults = 1
  MaxCalls = 2
  Overlapping = {"early", "again", "stop", "late"}
SYMMETRY Symmetry
INVARIANTS
  TypeOK
  RunningIsKnown
  ThreadsAttended
  FatalIsReal
  CompletedOnce
  ToldTheTruth
PROPERTIES
  DoneSectionStays
CHECK_DEADLOCK FALSE
