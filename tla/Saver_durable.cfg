SPECIFICATION FairSpec
CONSTANTS
  Download = {d1, d2}
  List = List
  LastVersion = 4
  MaxFaults = 1
  MayGrow = TRUE
  Missing = Missing
  Bad = Bad
  None = None
INVARIANTS
  TypeOK
  SurvivesOneFault
  CleanIsSaved
PROPERTIES
  DurableWhileCalm
  EventuallySaved
