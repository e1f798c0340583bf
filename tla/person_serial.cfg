\* One caller at a time, statement failures and restarts, references not enforced.
CONSTANTS
  Task = {t1}
  Namespace = {cb}
  Handle = {h1, h2}
  Spelling = {plain, shouted}
  Person = {p1, p2}
  ContentKey = {k1, k2}
  AttrId = {a1, a2}
  MaxTime = 1
  ForeignKeys = FALSE
  NoPerson = NoPerson
  NoKey = NoKey
  NoIndex = NoIndex
  Never = Never
SPECIFICATION Spec
SYMMETRY Symmetry
INVARIANTS
  TypeOK
  ResolveIdempotent
  ForgetErasesFootprint
PROPERTIES
  ImplementsDirectory
