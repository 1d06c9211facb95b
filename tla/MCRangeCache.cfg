CONSTANTS
  Procs = {w1, w2}
  Keys = {1, 2, 3}
  ShardOf <- MCShardOf
  Sizes = {1, 2}
  Budget = 2
  MaxClock = 4
  None = None
SPECIFICATION Spec
SYMMETRY WriterSymmetry
INVARIANTS TypeOK CountersExact WithinBudget
\* The bound on the clock ends the writers' work.
CHECK_DEADLOCK FALSE
