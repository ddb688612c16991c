SPECIFICATION FairSpec
CONSTANTS
  N = 4
  NumCPU = 3
INVARIANTS TypeOK Complete
PROPERTIES NoWriteAfterReturn Returns ImplementsBatch
CHECK_DEADLOCK FALSE
