SPECIFICATION Spec
CONSTANTS
  Download = {d1, d2}
  List = List
  LastVersion = 3
  MaxFaults = 0
  MayGrow = TRUE
  Missing = Missing
  Bad = Bad
  None = None
SYMMETRY Downloads
INVARIANTS
  ListProtected
