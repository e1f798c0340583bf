\* Starts in every mode, overlapping or not, with kills, cut-off writes, failing reads,
\* wrong passphrases and changes of mode.
CONSTANTS
  Process = {s1, s2}
  Mode = {"keystore", "tpm", "passphrase"}
  Passphrase = {right, wrong}
  MaxDrawn = 4
  Disturbance = {"overlap", "misread"}
  Absent = Absent
  Torn = Torn
  NoPassphrase = NoPassphrase
  NoDatabase = NoDatabase
SPECIFICATION FairSpec
INVARIANTS
  TypeOK
  DatabaseOpenable
  KeysStable
  ServesOnlyKeyHolders
  SealedStayOpenable
PROPERTIES
  StoredOnce
  OwnerNeverRefused
  OwnerIsServed
