SPECIFICATION FairSpec
CONSTANTS
  p1 = p1  p2 = p2  a1 = a1  a2 = a2
  Partitions = {p1}
  Accounts = {a1}
  Junk = Junk
  Key <- OnePartition
  Seeded = {a1}
  Scores = {1, 2, 3}
  Threshold = 2
  SampleEvery = 1
  MaxLog = 2
  MaxNow = 1
  MaxFaults = 1
  MaxRestarts = 2
INVARIANTS RepeatsNeedCrash LossNeedsFault GraphFollowsDeltas AlertsFollowedUp AlertsLeaveTraces
PROPERTIES Drains
CHECK_DEADLOCK FALSE
