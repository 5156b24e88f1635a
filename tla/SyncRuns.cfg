SPECIFICATION SyncFairSpec
CONSTANTS
  Agents = {a1}
  i1 = i1
  i2 = i2
  r1 = r1
  r2 = r2
  Issues = {i1}
  RepoList <- MCTwoRepos
  RepoOf <- MCRepoOf
  Reliable = {r1}
  ClaimIds = {c1}
  Tasks = {t1}
  Syncer = Syncer
  Metas = {m1}
  AgentUpdates <- MCOneUpdate
  ClaimTimeout = 1
  StaleAutoRelease = 1
  HistoryMax = 0
  MaxFailures = 1
  MaxCrashes = 1
  NoClaim = NoClaim
  NoId = NoId
  NoRequest = NoRequest
  NoListing = NoListing
INVARIANTS
  SyncTypeOK
PROPERTIES
  UsesClaimManager
  RunsRecur
  ClosedIsCaught
  StopDrains
  NoRunAfterStop
  CallsReturn
  StaleClaimsReturn
  IdleClaimsAreFlagged
