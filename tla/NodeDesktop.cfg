SPECIFICATION DeskSpec
CONSTANTS
  Worker = {w1}
  Barrier = {b1}
  None = None
  Drain = Drain
PROPERTIES
  CommandsReturn
CHECK_DEADLOCK FALSE
