SPECIFICATION Spec
CONSTANTS
  Threads = {t1, t2, t3}
  Messages = {m1, m2, m3}
  NULL = NULL
  Wild = Wild
  NoThread = NoThread
  UintRange = 8
  EarlyDrain = TRUE
SYMMETRY Symmetry
INVARIANTS
  TypeOK
  MutualExclusion
  SingleOwner
  ClosedWakesAll
  SizeCountsAccepted
PROPERTY ImplementsMessageQueue
CHECK_DEADLOCK FALSE
