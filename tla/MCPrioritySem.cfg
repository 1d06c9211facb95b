CONSTANTS
  Procs = {p1, p2, p3, p4}
  Limit = 2
  Priorities = {0, 1}
SPECIFICATION FairSpec
INVARIANTS TypeOK SlotsAccounted NoIdleSlot QueueMatchesWaits QueueSorted
PROPERTIES FirstComeFirstServed ImplementsPool PlaybackServed CancelledLeaves
