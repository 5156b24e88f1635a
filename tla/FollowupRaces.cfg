SPECIFICATION HookSpec
CONSTANTS
  Agents = {a1, a2}
  c1 = c1
  c2 = c2
  s1 = s1
  pr1 = pr1
  pr2 = pr2
  d1 = d1
  d2 = d2
  d3 = d3
  Prs = {pr1}
  Comments = {c1}
  Pushes = {s1}
  PrOf <- MCPrOf
  Score <- MCScore
  Scopes = {{pr1}}
  AgentUpdates = {"done"}
  Workers = {w1, w2}
  Hooks = {h1, h2}
  Sweeper = Sweeper
  MaxItems = 2
  StaleMinutes = 1
  MaxEntries = 0
  SeenCap = 2
  MaxFailures = 0
  MaxCrashes = 1
  NoWork = NoWork
  NoItem = NoItem
  NoAgent = NoAgent
  NoRequest = NoRequest
  Deliveries = {d1, d2}
  EventOf <- MCPushed
  MemoryCap = 1
  TableCap = 1
  NoDelivery = NoDelivery
  NoEvent = NoEvent
SYMMETRY MCSymmetry
INVARIANTS
  AckedIsActed
PROPERTIES
  ImplementsQueue
  HandedOverWhenStale
