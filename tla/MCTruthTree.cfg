SPECIFICATION WatchedSpec
CONSTANTS
  s1 = s1
  NFiles = 2
  Syncs <- OneSync
  NPlugins = 2
  MaxWrites = 3
  MaxStarts = 1
INVARIANTS
  ContentMeansCurrent
  EditsSurvive
PROPERTIES
  CatchesUp
  CloseEnds
CHECK_DEADLOCK FALSE
