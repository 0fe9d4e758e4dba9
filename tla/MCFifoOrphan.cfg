SPECIFICATION Spec
CONSTANTS
  Threads = {t1, t2, t3}
  Messages = {m1, m2, m3}
  NULL = NULL
  Wild = Wild
  NoThread = NoThread
  UintRange = 8
  EarlyDrain = FALSE
SYMMETRY Symmetry
INVARIANT NoOrphan
CHECK_DEADLOCK FALSE
