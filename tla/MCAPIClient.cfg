CONSTANTS
  Refreshers = {refresh}
  Deleters = {dashboard}
  Items = {1, 2, 3}
  Cached = {1, 2}
  PageLimit = 2
  MaxRetries = 2
  MaxCacheEntries = 1
  MaxFaults = 2
  MaxFatal = 1
  MaxChanges = 1
  None = None
SPECIFICATION FairSpec
INVARIANTS TypeOK SlotOwned ListingSound RetriesAbsorb
PROPERTIES CallsReturn
