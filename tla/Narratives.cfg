SPECIFICATION FairSpec
CONSTANTS
  Alerts = {a1}
  Panels = {p1, p2}
  Deployments <- MCDeployments
  PoolSize = 2
  Attempts = 2
  MaxRequests = 2
  MaxFaults = 1
INVARIANTS OutagesNeverSurface ProvenanceTrue PoolAccounted
PROPERTIES ShowsNewer MemoFollows JobsEnd
CHECK_DEADLOCK FALSE
