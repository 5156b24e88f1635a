SPECIFICATION Spec
CONSTANTS
  Agents = {a1, a2}
  Issues = {i1, i2}
  ClaimIds = {c1, c2}
  Tasks = {t1, t2}
  Syncer = Syncer
  Metas = {m1}
  AgentUpdates <- MCTwoUpdates
  ClaimTimeout = 1
  StaleAutoRelease = 1
  HistoryMax = 1
  MaxFailures = 0
  MaxCrashes = 1
  NoClaim = NoClaim
  NoId = NoId
  NoRequest = NoRequest
SYMMETRY MCSymmetry
INVARIANTS
  AnswersHold
  DiskFollowsMemory
PROPERTIES
  EndsRightly
  ImplementsRegistry
