SPECIFICATION Spec
CONSTANTS
  Files = {f1}
  Contents = {c1, c2}
  Broken = {c2}
  Big = {}
  Unreadable = {}
  Gone = Gone
  Blocked = Blocked
  NoFile = NoFile
  NoSyms = NoSyms
  Workers = {w1}
  Hooks = {h1}
  EnvFailures = FALSE
  MaxEdits = 1
  MaxFaults = 0
SYMMETRY Symmetry
INVARIANTS
  VanishedRowsArePruned
