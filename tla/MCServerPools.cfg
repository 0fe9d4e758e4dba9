SPECIFICATION Spec
CONSTANTS
  main = main  checker = checker
  r1 = r1  r2 = r2
  w1 = w1  w2 = w2  w3 = w3  w4 = w4
  Main = main
  Checker = checker
  Receivers <- TwoCpuReceivers
  Workers <- TwoCpuWorkers
  Threads <- TwoCpuThreads
  Fallible = {w3}
  SysconfMayFail = FALSE
  Messages = {m1, m2, m3, m4, m5, m6}
  NULL = NULL
  Wild = Wild
  NoThread = NoThread
  UintRange = 8
  CpuCount = 2
  minMessagesPerReceiverThread = 1
  desiredMessagesPerReceiverThread = 3
  minMessagesPerWorkerThread = 1
  desiredMessagesPerWorkerThread = 2
SYMMETRY MessageSymmetry
CONSTRAINT Serving
INVARIANTS
  PoolsAreAlive
  ServingNeverLeaks
  FewerReceivers
PROPERTY ServingPoolsGrow
CHECK_DEADLOCK FALSE
