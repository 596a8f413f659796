SPECIFICATION FairSpec
CONSTANTS
  Ctl = {c1}
  Caller = {ui}
  None = None
  MaxSections = 2
  MaxThreads = 2
  MaxAttempts = 1
  NoRecovery = FALSE
  MaxFaults = 1
  MaxCalls = 2
  Overlapping = {"early"}
PROPERTIES
  StopHonoured
  RunGoesOn
CHECK_DEADLOCK FALSE
