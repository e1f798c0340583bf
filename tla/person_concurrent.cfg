\* Two overlapping callers, references enforced; nothing expires.
CONSTANTS
  Task = {t1, t2}
  Namespace = {cb}
  Handle = {h1}
  Spelling = {plain}
  Person = {p1, p2}
  ContentKey = {k1, k2}
  AttrId = {a1, a2}
  MaxTime = 0
  ForeignKeys = TRUE
  NoPerson = NoPerson
  NoKey = NoKey
  NoIndex = NoIndex
  Never = Never
SPECIFICATION Spec
SYMMETRY Symmetry
INVARIANTS
  CryptoShred
  UntouchedReadable
  ForgetErasesFootprint
PROPERTIES
  NoPoisonedRead
  NoErasedAnswer
  IdentifierNeverMoves
  ImplementsDirectory
