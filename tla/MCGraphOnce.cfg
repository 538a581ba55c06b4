SPECIFICATION Spec
CONSTANTS
  Device = {d1, d2}
  Slot = {s1, s2}
  MaxAttempts = 2
  MaxTokens = 2
  MaxCreates = 1
  None = None
SYMMETRY MCSymmetry
INVARIANTS
  PlacedOnce
CHECK_DEADLOCK FALSE
