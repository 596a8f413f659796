SPECIFICATION Spec
CONSTANTS
  Download = {d1, d2}
  Thread = {t1, t2}
  MaxDeleted = 1
  MaxBatch = 2
  MaxCrashes = 0
  Bad = Bad
  None = None
SYMMETRY Symmetry
INVARIANTS
  ListKept
CHECK_DEADLOCK FALSE
