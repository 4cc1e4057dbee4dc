\* Against cmd/leonard/override.go:46: two edits get past a filter with one token.
SPECIFICATION Spec
CONSTANTS
  h1 = h1
  h2 = h2
  Hooks <- MCHooks
  Edits <- FilterEdits
  Enabled <- MCEnabled
  MarkersAtStart <- MCMarkers
  MaxGrants = 1
  MaxEvents = 0
INVARIANTS
  TokenIsSingleUse
