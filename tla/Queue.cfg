SPECIFICATION MCSpec
CONSTANTS
  N = 2
  User = {u1}
  Manager = Manager
  None = None
  Site = {"site"}
  SiteOf <- One
  SiteMaxConns <- Free
  Settings <- OneOrTwo
  MaxSections = 1
  Resumable = {1}
  UIntMax = 2
  MaxEnds = 1
  MaxCalls = 1
INVARIANTS
  TypeOK
  NeverStuck
PROPERTIES
  StartsWithinLimit
  StartsOnlyQueued
CHECK_DEADLOCK FALSE
