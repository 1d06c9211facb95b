CONSTANTS
  FileSize = 3
  WindowSize = 2
  MaxRetries = 1
  MaxInflight = 2
  Limit = 1
  SmallReadThreshold = 2
  Readers = {r1, r2}
  Requests <- MCCrossing
  MaxReads = 1
  MaxFaults = 2
  Windows = {1, 2}
SPECIFICATION Spec
SYMMETRY ReaderSymmetry
INVARIANTS TypeOK GenuineUnlessSlipped ReadyIsBuffered NoDeadWindow WindowReadsComplete
\* The readers stop after MaxReads calls.
CHECK_DEADLOCK FALSE
