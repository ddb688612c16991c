SPECIFICATION FairSpec
CONSTANTS
  HttpSlots = {h1}
  GrpcSlots = {g1}
  IdLimit = 3
  BatchSize = 2
INVARIANTS TypeOK DrainedBeforeCleanup ExportComplete
PROPERTY ShutdownEnds
CHECK_DEADLOCK FALSE
