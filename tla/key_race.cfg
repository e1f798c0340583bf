\* Two first starts of the passphrase mode at once.
CONSTANTS
  Process = {s1, s2}
  Mode = {"passphrase"}
  Passphrase = {right, wrong}
  MaxDrawn = 4
  Disturbance = {"overlap"}
  Absent = Absent
  Torn = Torn
  NoPassphrase = NoPassphrase
  NoDatabase = NoDatabase
SPECIFICATION Spec
SYMMETRY ProcessSymmetry
INVARIANTS
  SameSettingsSameKeys
