SPECIFICATION MCSpec
CONSTANTS
  h1 = h1
  h2 = h2
  Hooks <- MCHooks
  Sessions = {a}
  Edits <- MCEdits
  Enabled <- MCEnabled
  HasGoMod = TRUE
  Commands = {c1, c2}
  NoCommand = NoCommand
  Malformed = Malformed
  MaxEvents = 3
  MaxFaults = 1
INVARIANTS
  OnlyApprovedRuns
  FailureIsTold
  AuditEntriesStay
  FlaggedClaimsAreReported
PROPERTIES
  HooksEnd
CHECK_DEADLOCK FALSE
