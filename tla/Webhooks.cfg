SPECIFICATION HookSpec
CONSTANTS
  Work = {g, j}
  Graph = {g}
  Portable = {g}
  Tool = {j}
  Job = {j}
  MaxAttempts = 2
  MaxAgain = 1
  MaxRestarts = 1
INVARIANTS
  HookTypeOK
  DueHasAlarm
  OutcomeOwed
  
PROPERTIES
  DeliveryEnds
CHECK_DEADLOCK FALSE
