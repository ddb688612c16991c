CONSTANTS
  Texts = {"t1", "t2"}
  Metas = {"m1", "m2"}
  InitialRows <- TwoActive
  Instances = {i1}
  Handlers = {h1, h2}
  MaxAttempts = 1
  RequestLimit = 2
  ClockLimit = 3
SPECIFICATION Spec
INVARIANT OnlyTiesHide
CHECK_DEADLOCK FALSE
SYMMETRY Symmetry
