SPECIFICATION FairSpec
CONSTANTS
  Clients = {c1}
  Requests = {r1, r2, r3}
  Entries = {e1, e2, e3, e4}
  Burst = 1
  Idle = 2
  StepTicks = 1
INVARIANTS TypeOK BurstBound
PROPERTY IdleForgotten
