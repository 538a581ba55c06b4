SPECIFICATION Spec
CONSTANTS
  Job = {1, 2}
  Device = {d1, d2}
  CanRun <- MCCanRun
  LeaseAware = {d1, d2}
  LocalUse = {}
  InlineInput = {1}
  Uncancelled = {2}
  MaxAttempts = 1
  DispatchCap = 2
  None = None
  Local = Local
INVARIANTS
  LeaseNamesHolder
CHECK_DEADLOCK FALSE
