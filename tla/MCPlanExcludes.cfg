SPECIFICATION AccountSpec
CONSTANTS
  Work = {1, 2}
  d1 = d1
  d2 = d2
  Device = {d1, d2}
  CanRun <- MCCanRun
  CanStream <- MCCanStream
  Setup <- MCPlanSetup
  MaxWire = 2
  MaxApply = 2
  None = None
  Local = Local
  Plan = Plan
  Stream = Stream
  Session = Session
PROPERTIES
  PlanExcludes
