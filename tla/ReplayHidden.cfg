SPECIFICATION Spec
CONSTANTS
  Clients = {c1, c2}
  Requests <- PlaybackRequests
  BurstLen = 1
  FileLen = 2
  ReportEvery = 2
  InjectLen = 1
  MaxRuns = 2
  MaxSent = 4
  MaxFaults = 0
  MaxTimeouts = 0
INVARIANTS RunningShown
