CONSTANTS
  Texts = {"t1", "t2"}
  Metas = {"m1"}
  InitialRows <- OneActive
  Instances = {i1}
  Handlers = {h1, h2}
  MaxAttempts = 2
  RequestLimit = 2
  ClockLimit = 2
SPECIFICATION Spec
INVARIANT SkipMeansExact
CHECK_DEADLOCK FALSE
SYMMETRY Symmetry
