SPECIFICATION WorkSpec
CONSTANTS
  Agents = {a1, a2}
  i1 = i1
  i2 = i2
  p1 = p1
  r1 = r1
  r2 = r2
  Issues = {i1, i2}
  Pulls = {p1}
  Repos = {r1, r2}
  Scopes <- MCScopes
  ByAge <- MCByAge
  RepoOf <- MCRepoOf
  Score <- MCScore
  GhLimit = 2
  PageSize = 1
  AutoClose = TRUE
  ClaimIds = {c1, c2}
  Tasks = {t1, t2}
  Syncer = Syncer
  Metas = {m1}
  AgentUpdates <- MCToMerged
  ClaimTimeout = 0
  StaleAutoRelease = 0
  HistoryMax = 0
  MaxFailures = 0
  MaxCrashes = 0
  NoClaim = NoClaim
  NoId = NoId
  NoRequest = NoRequest
SYMMETRY MCSymmetry
INVARIANTS
  WorkTypeOK
  NothingOverlooked
  GivenWasOpen
