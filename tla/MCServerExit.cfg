SPECIFICATION FairSpec
CONSTANTS
  main = main  checker = checker
  r1 = r1  r2 = r2
  w1 = w1  w2 = w2  w3 = w3  w4 = w4
  Main = main
  Checker = checker
  Receivers <- OneCpuReceivers
  Workers <- OneCpuWorkers
  Threads <- OneCpuThreads
  Fallible = {}
  SysconfMayFail = FALSE
  Messages = {m1}
  NULL = NULL
  Wild = Wild
  NoThread = NoThread
  UintRange = 8
  CpuCount = 1
  minMessagesPerReceiverThread = 1
  desiredMessagesPerReceiverThread = 2
  minMessagesPerWorkerThread = 1
  desiredMessagesPerWorkerThread = 2
PROPERTY ExitsGracefully
CHECK_DEADLOCK FALSE
