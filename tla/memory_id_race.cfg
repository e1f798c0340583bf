\* Two store requests at once on the one connection.
CONSTANTS
  Task = {t1, t2}
  Storing = {t1, t2}
  Reading = {t1, t2}
  c1 = c1
  c2 = c2
  agentA = agentA
  agentB = agentB
  Content = {c1, c2}
  Scope = {agentA, agentB}
  DefaultScope = agentB
  Blank = Blank
  StoreLabel <- MCStoreLabel
  FilterLabel <- MCFilterLabel
  PurgeLabel <- CleanLabel
  Query <- MCQuery
  Limit <- MCLimit
  Ttl = {0, 1, 3}
  Millis = 2
  MaxInt = 7
  OverflowChecks = TRUE
  MaxTime = 2
  MaxId = 2
  Never = Never
  NoRow = NoRow
  NoCursor = NoCursor
SPECIFICATION Spec
INVARIANTS
  ToldIdsNameTheirMemory
