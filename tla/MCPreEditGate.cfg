\* Two hooks on one file, tokens, trust markers and one I/O failure or trust command.
SPECIFICATION Spec
CONSTANTS
  h1 = h1
  h2 = h2
  Hooks <- MCHooks
  Edits <- MCEdits
  Enabled <- MCEnabled
  MarkersAtStart <- MCMarkers
  MaxGrants = 2
  MaxEvents = 1
INVARIANTS
  ObjectionsNeedBypass
  NoLateBypass
  TrivialBypassIsLogged
SYMMETRY Symmetry
