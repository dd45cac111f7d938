SPECIFICATION FairSpec
CONSTANTS
  Download = TRUE
  MaxSize = 7
  ChunkSize = 2
  Concurrency = 3
  MaxFaults = 2
  MaxPauses = 1
INVARIANT VerdictIsTrue
PROPERTY QuietAfterDestroy
PROPERTY TransferSettles
CHECK_DEADLOCK FALSE
