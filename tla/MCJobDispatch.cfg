SPECIFICATION Spec
CONSTANTS
  Job = {1}
  Device = {d1, d2}
  CanRun <- MCCanRun
  LeaseAware = {d1}
  LocalUse = {d1, d2}
  InlineInput = {}
  Uncancelled = {1}
  MaxAttempts = 3
  DispatchCap = 3
  None = None
  Local = Local
INVARIANTS
  TypeOK
  LeaseDiscipline
  LeaseNamesHolder
PROPERTIES
  ImplementsLeasedWork
CHECK_DEADLOCK FALSE
