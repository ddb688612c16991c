CONSTANTS
  Texts = {"t1", "t2"}
  Metas = {"m1"}
  InitialRows <- OneActive
  Instances = {i1}
  Handlers = {h1, h2}
  MaxAttempts = 2
  RequestLimit = 2
  ClockLimit = 3
SPECIFICATION FairSpec
INVARIANTS TypeOK SettledFingerprintSound NoMissedWord
PROPERTIES EventuallyCovered CloseEndsLoop
CHECK_DEADLOCK FALSE
