SPECIFICATION HookFairSpec
CONSTANTS
  Agents = {a1}
  c1 = c1
  c2 = c2
  s1 = s1
  pr1 = pr1
  pr2 = pr2
  d1 = d1
  d2 = d2
  d3 = d3
  Prs = {pr1, pr2}
  Comments = {c1, c2}
  Pushes = {}
  PrOf <- MCTwoPrs
  Score <- MCScore
  Scopes = {{pr1, pr2}}
  AgentUpdates = {}
  Workers = {w1}
  Hooks = {h1}
  Sweeper = Sweeper
  MaxItems = 2
  StaleMinutes = 0
  MaxEntries = 0
  SeenCap = 2
  MaxFailures = 1
  MaxCrashes = 0
  NoWork = NoWork
  NoItem = NoItem
  NoAgent = NoAgent
  NoRequest = NoRequest
  Deliveries = {d1, d2, d3}
  EventOf <- MCTwo
  MemoryCap = 1
  TableCap = 1
  NoDelivery = NoDelivery
  NoEvent = NoEvent


INVARIANTS
  AckedIsActed
PROPERTIES
  EveryCallReturns
  WorkComesBack
