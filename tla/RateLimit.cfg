SPECIFICATION Spec
CONSTANTS
  Principals = {p1, p2}
  AgentIds = {a1, a2}
  Unit = 5
  Rate = 2
  Burst = 6
  Second = 2
  MaxKeys = 3
  IdleTtl = 1
  MaxTime = 4
  MaxSetBacks = 1
  NoPromise = NoPromise
SYMMETRY MCSymmetry
INVARIANTS
  BoundedStates
  LazyIsEager
PROPERTIES
  HonestRetryAfter
