CONSTANTS
  FileSize = 3
  WindowSize = 2
  MaxRetries = 1
  MaxInflight = 2
  Limit = 1
  SmallReadThreshold = 1
  Readers = {r1, r2}
  Requests <- MCCrossing
  MaxReads = 1
  MaxFaults = 1
  Windows = {1, 2}
SPECIFICATION FairSpec
PROPERTIES ReadReturns
\* The readers stop after MaxReads calls.
CHECK_DEADLOCK FALSE
