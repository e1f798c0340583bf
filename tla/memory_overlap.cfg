\* A request that may store and one that may not, in a build whose integers wrap.
CONSTANTS
  Task = {t1, t2}
  Storing = {t1}
  Reading = {t2}
  c1 = c1
  c2 = c2
  agentA = agentA
  agentB = agentB
  Content = {c1, c2}
  Scope = {agentA, agentB}
  DefaultScope = agentB
  Blank = Blank
  StoreLabel <- MCStoreLabel
  FilterLabel <- MCFilterLabel
  PurgeLabel <- OneLabel
  Query <- OneQuery
  Limit <- MCLimit
  Ttl = {0, 1}
  Millis = 1
  MaxInt = 1
  OverflowChecks = FALSE
  MaxTime = 1
  MaxId = 2
  Never = Never
  NoRow = NoRow
  NoCursor = NoCursor
SPECIFICATION Spec
INVARIANTS
  TypeOK
  ToldIdsNameTheirMemory
PROPERTIES
  ImplementsScopedMemory
