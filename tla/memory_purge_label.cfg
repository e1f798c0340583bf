\* A purge by a label with blanks around it.
CONSTANTS
  Task = {t1}
  Storing = {t1}
  Reading = {t1}
  c1 = c1
  c2 = c2
  agentA = agentA
  agentB = agentB
  Content = {c1, c2}
  Scope = {agentA, agentB}
  DefaultScope = agentB
  Blank = Blank
  StoreLabel <- MCStoreLabel
  FilterLabel <- MCFilterLabel
  PurgeLabel <- PaddedLabel
  Query <- MCQuery
  Limit <- MCLimit
  Ttl = {0, 1, 3}
  Millis = 2
  MaxInt = 7
  OverflowChecks = TRUE
  MaxTime = 2
  MaxId = 2
  Never = Never
  NoRow = NoRow
  NoCursor = NoCursor
SPECIFICATION Spec
PROPERTIES
  PurgeEmptiesScope
