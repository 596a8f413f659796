SPECIFICATION Spec
CONSTANTS
  Download = {d1, d2}
  Thread = {t1, t2}
  MaxDeleted = 1
  MaxBatch = 1
  MaxCrashes = 1
  Bad = Bad
  None = None
SYMMETRY Symmetry
INVARIANTS
  TypeOK
  OneBin
  NoneLost
  IdsUnique
  ListKeptUnlessMoved
  BackNotBlocked
  RestoringShown
CHECK_DEADLOCK FALSE
