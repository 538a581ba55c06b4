SPECIFICATION FairDaemonSpec
CONSTANTS
  Worker = {w1, w2}
  Barrier = {}
  None = None
  Drain = Drain
INVARIANTS
  DaemonTypeOK
  StopIsQuiet
PROPERTIES
  DrainPersists
  SignalEnds
  FileIsObeyed
