SPECIFICATION Spec
CONSTANTS
  Job = {1}
  Device = {d1}
  CanRun <- MCCanRun
  LeaseAware = {d1}
  LocalUse = {}
  InlineInput = {}
  Uncancelled = {}
  MaxAttempts = 2
  DispatchCap = 2
  None = None
  Local = Local
PROPERTIES
  DisconnectRequeues
CHECK_DEADLOCK FALSE
