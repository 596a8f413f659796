SPECIFICATION ListSpec
CONSTANTS
  Thread = {t1, t2, t3}
  MaxNest = 2
  MaxSize = 2
  None = None
INVARIANTS
  ExcludedUnlessLate
  WriterWoken
  IndexSoundUnlessLate
PROPERTIES
  WriterGetsIn
