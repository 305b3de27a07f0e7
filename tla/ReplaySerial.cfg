SPECIFICATION FairSpec
CONSTANTS
  Clients = {c1}
  Requests <- StudioRequests
  BurstLen = 1
  FileLen = 2
  ReportEvery = 2
  InjectLen = 1
  MaxRuns = 2
  MaxSent = 4
  MaxFaults = 1
  MaxTimeouts = 1
INVARIANTS OneLoop StatusTruthful NeverOvercounts
PROPERTIES RequestsReturn
