SPECIFICATION Spec
CONSTANTS
  Employees = {e1}
  Scores = {3, 4}
  Delta = 2
  Window = 1
  Analysts = {a1, a2}
  Actions = {"investigate", "reopen"}
  Start = 0
  MaxAlerts = 1
  MaxNow = 1
  MaxFaults = 1
SYMMETRY Symmetry
INVARIANTS AccountedFor SilenceNeedsFault
PROPERTIES TriageSticks ScoresOnlyRise
CHECK_DEADLOCK FALSE
