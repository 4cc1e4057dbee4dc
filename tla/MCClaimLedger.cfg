SPECIFICATION Spec
CONSTANTS
  Files = {f1}
  Hooks = {h1, h2}
  NoFile = NoFile
  MaxRecords = 3
  MaxEdits = 1
SYMMETRY Symmetry
INVARIANTS
  SupersederSound
  HiddenFailureIsStale
  IdsAreNeverReused
PROPERTIES
  OpenClaimsAreSettled
  SupersessionIsFinal
