\* Against docs/self-logging.md:69-72: asking for trust does not make a
\* require-tier edit wait for its rationale.
SPECIFICATION Spec
CONSTANTS
  h1 = h1
  h2 = h2
  Hooks <- OneHook
  Edits <- RationaleEdits
  Enabled <- MCEnabled
  MarkersAtStart <- NoMarkers
  MaxGrants = 1
  MaxEvents = 2
INVARIANTS
  RequireTierBlocks
