SPECIFICATION SyncSpec
CONSTANTS
  Agents = {a1}
  i1 = i1
  i2 = i2
  r1 = r1
  r2 = r2
  Issues = {i1}
  RepoList <- MCOneRepo
  RepoOf <- MCRepoOf
  Reliable = {r1}
  ClaimIds = {c1}
  Tasks = {t1}
  Syncer = Syncer
  Metas = {m1}
  AgentUpdates = {}
  ClaimTimeout = 0
  StaleAutoRelease = 0
  HistoryMax = 0
  MaxFailures = 0
  MaxCrashes = 0
  NoClaim = NoClaim
  NoId = NoId
  NoRequest = NoRequest
  NoListing = NoListing
PROPERTIES
  NeverClosedIsKept
