SPECIFICATION Spec
CONSTANTS
  Agents = {a1}
  c1 = c1
  c2 = c2
  s1 = s1
  pr1 = pr1
  Prs = {pr1}
  Comments = {c1, c2}
  Pushes = {s1}
  PrOf <- MCOnePr
  Score <- MCScore
  Scopes <- MCEverywhere
  AgentUpdates = {"in_progress", "done"}
  Workers = {w1}
  Hooks = {h1}
  Sweeper = Sweeper
  MaxItems = 3
  StaleMinutes = 0
  MaxEntries = 1
  SeenCap = 2
  MaxFailures = 1
  MaxCrashes = 1
  NoWork = NoWork
  NoItem = NoItem
  NoAgent = NoAgent
  NoRequest = NoRequest
SYMMETRY MCSymmetry
INVARIANTS
  FollowupTypeOK
  DedupeConsistent
  RowsFollow
  FinishedStaysFinished
  FollowupLocksHaveOwners
