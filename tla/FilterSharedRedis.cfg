CONSTANTS
  Instances = {i1, i2}
  Slots = {s1}
  Queries = {q1}
  Shards = {1, 2}
  ShardOf <- FirstShard
  PerShardLimit = 1
  LexLimit = 2
  VersionLimit = 2
  StartLimit = 1
SPECIFICATION Spec
INVARIANT NoStaleAnswer
CHECK_DEADLOCK FALSE
SYMMETRY Symmetry
