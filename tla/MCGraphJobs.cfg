SPECIFICATION Spec
CONSTANTS
  Device = {d1, d2}
  Slot = {s1, s2}
  MaxAttempts = 2
  MaxTokens = 2
  MaxCreates = 1
  None = None
SYMMETRY MCSymmetry
INVARIANTS
  GraphTypeOK
  CacheCoherent
  TokenNamesHolder
  PayloadForgotten
  Deliverable
PROPERTIES
  ImplementsCustodiedWork
CHECK_DEADLOCK FALSE
