SPECIFICATION Spec
CONSTANTS
  Job = {1}
  Device = {d1}
  CanRun <- MCCanRun
  LeaseAware = {d1}
  LocalUse = {d1}
  InlineInput = {1}
  Uncancelled = {}
  MaxAttempts = 1
  DispatchCap = 2
  None = None
  Local = Local
PROPERTIES
  CancelFinal
CHECK_DEADLOCK FALSE
