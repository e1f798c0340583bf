\* Starts one after another, with reads of the sidecars that may fail.
CONSTANTS
  Process = {s1, s2}
  Mode = {"passphrase"}
  Passphrase = {right, wrong}
  MaxDrawn = 4
  Disturbance = {"misread"}
  Absent = Absent
  Torn = Torn
  NoPassphrase = NoPassphrase
  NoDatabase = NoDatabase
SPECIFICATION Spec
SYMMETRY ProcessSymmetry
INVARIANTS
  OwnerNotLockedOut
