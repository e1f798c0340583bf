\* Two overlapping resolves of one unseen identifier.
CONSTANTS
  Task = {t1, t2}
  Namespace = {cb}
  Handle = {h1}
  Spelling = {plain}
  Person = {p1, p2}
  ContentKey = {k1, k2, k3}
  AttrId = {a1}
  MaxTime = 0
  ForeignKeys = FALSE
  NoPerson = NoPerson
  NoKey = NoKey
  NoIndex = NoIndex
  Never = Never
SPECIFICATION Spec
SYMMETRY Symmetry
INVARIANTS
  ResolveIdempotent
