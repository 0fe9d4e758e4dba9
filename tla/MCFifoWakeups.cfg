SPECIFICATION FairSpec
CONSTANTS
  Threads = {t1, t2, t3}
  Messages = {m1}
  NULL = NULL
  Wild = Wild
  NoThread = NoThread
  UintRange = 2
  EarlyDrain = FALSE
INVARIANT NoLostWakeup
PROPERTIES
  ClosedReleases
  Delivery
CHECK_DEADLOCK FALSE
