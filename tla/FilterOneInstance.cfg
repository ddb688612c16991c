CONSTANTS
  Instances = {i1}
  Slots = {s1, s2}
  Queries = {q1}
  Shards = {1, 2}
  ShardOf <- FirstShard
  PerShardLimit = 1
  LexLimit = 2
  VersionLimit = 3
  StartLimit = 1
SPECIFICATION Spec
INVARIANTS TypeOK NoStaleAnswer L1Bounded
PROPERTY ImplementsFreshAnswers
CHECK_DEADLOCK FALSE
SYMMETRY Symmetry
