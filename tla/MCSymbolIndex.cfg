SPECIFICATION ReindexSpec
CONSTANTS
  Files = {f1, f2}
  Contents = {c1, c2, huge, locked}
  Broken = {c2}
  Big = {huge}
  Unreadable = {locked}
  Gone = Gone
  Blocked = Blocked
  NoFile = NoFile
  NoSyms = NoSyms
  Workers = {w1}
  Hooks = {h1}
  EnvFailures = TRUE
  MaxEdits = 1
  MaxFaults = 1
INVARIANTS
  HashMatchesSymbols
  FreshAfterIndexAll
PROPERTIES
  SweepSparesTheLiving
  IndexAllEnds
  Converges
