SPECIFICATION FairSpec
CONSTANTS
  Requests = {r1, r2}
  Sweeps = {s1}
  FailThreshold = 3
  HalfOpenRequired = 2
INVARIANTS TypeOK WithinLimits
PROPERTIES Recovers Degrades GaugeSettles
