SPECIFICATION Spec
CONSTANTS
  Agents = {a1, a2}
  Issues = {i1}
  ClaimIds = {c1}
  Tasks = {t1}
  Syncer = Syncer
  Metas = {m1, m2}
  AgentUpdates <- MCEveryUpdate
  ClaimTimeout = 2
  StaleAutoRelease = 2
  HistoryMax = 0
  MaxFailures = 1
  MaxCrashes = 1
  NoClaim = NoClaim
  NoId = NoId
  NoRequest = NoRequest
SYMMETRY MCSymmetry
INVARIANTS
  TypeOK
  ChangesAreDurable
PROPERTIES
  PrBacked
  EndsRightly
