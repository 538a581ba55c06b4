SPECIFICATION FairSpec
CONSTANTS
  Worker = {w1, w2, w3}
  Barrier = {b1}
  None = None
  Drain = Drain
INVARIANTS
  TypeOK
  PermitAccounted
  GateTellsTruth
PROPERTIES
  ImplementsSlot
  WaiterStarts
  DrainQuiesces
