CONSTANTS
  Callers = {"play1", "play2", "scan"}
  Permalinks = {u1}
  Hosts = {"api", "cdn1", "cdn2"}
  MaxVersion = 2
  HostOf <- MCHostOf
  MaxConns = 1
  Rank <- MCRank
  MaxRedirects = 2
  MaxFaults = 1
  None = "nobody"
SPECIFICATION FairSpec
INVARIANTS TypeOK FlightsLed FailuresHaveCauses
PROPERTIES BackoffHolds ImplementsPools FetchReturns RetriesSucceed
