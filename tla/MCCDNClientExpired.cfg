CONSTANTS
  Callers = {"play1"}
  Permalinks = {u1}
  Hosts = {"api", "cdn1", "cdn2"}
  MaxVersion = 2
  HostOf <- MCHostOf
  MaxConns = 1
  Rank <- MCRank
  MaxRedirects = 2
  MaxFaults = 0
  None = "nobody"
SPECIFICATION Spec
INVARIANT RefusalInvalidates
