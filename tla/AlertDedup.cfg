SPECIFICATION Spec
CONSTANTS
  Employees = {e1}
  Scores = {3, 4, 5}
  Delta = 2
  Window = 1
  Analysts = {a1}
  Actions = {"dismiss"}
  Start = 1
  MaxAlerts = 3
  MaxNow = 2
  MaxFaults = 0
INVARIANTS OpenLadder
PROPERTIES ImplementsBook
CHECK_DEADLOCK FALSE
