SPECIFICATION Spec
CONSTANTS
  Agents = {a1, a2}
  Issues = {i1}
  ClaimIds = {c1, c2}
  Tasks = {t1, t2}
  Syncer = Syncer
  Metas = {m1}
  AgentUpdates <- MCTwoUpdates
  ClaimTimeout = 1
  StaleAutoRelease = 1
  HistoryMax = 2
  MaxFailures = 1
  MaxCrashes = 1
  NoClaim = NoClaim
  NoId = NoId
  NoRequest = NoRequest
SYMMETRY MCSymmetry
INVARIANTS
  Exclusive
  IndexConsistent
  DiskFollowsMemory
  GrantedIsDurable
  EndsOnce
  LocksHaveOwners
