\* Two processes on one file, new or written by version 0.1.
CONSTANTS
  Process = {s1, s2}
  agentA = agentA
  agentB = agentB
  c1 = c1
  Content = {c1}
  Scope = {agentA, agentB}
  DefaultScope = agentB
  Blank = Blank
  NoScope = NoScope
  StoreLabel <- MCStoreLabel
  PurgeLabel = {agentA}
  Filter <- MCFilter
  Query <- MCQuery
  Limit = {1, 2}
  Time = {0, 1}
  MaxId = 3
SPECIFICATION Spec
SYMMETRY Symmetry
INVARIANTS
  TypeOK
  ServingIsMigrated
  ToldIdsNameTheirMemory
  SweepMissesFew
  NoMemoryTwice
