SPECIFICATION FairSpec
CONSTANTS
  CpuCount = 3
  minMessagesPerReceiverThread = 10
  desiredMessagesPerReceiverThread = 100
  minMessagesPerWorkerThread = 10
  desiredMessagesPerWorkerThread = 50
  Sizes <- EdgeSizes
INVARIANT WithinLimits
PROPERTIES
  ShrinksSlowly
  Settles
