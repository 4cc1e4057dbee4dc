\* Three processes, one of an older program, on a file of any age.
SPECIFICATION FairSpec
CONSTANTS
  o1 = o1
  o2 = o2
  o3 = o3
  Opens <- MCOpens
  Newest = 9
  Target <- MCTarget
  Repeatable <- MCRepeatable
  Start <- MCStart
INVARIANTS
  VersionTellsSchema
  ReadyIsServed
PROPERTIES
  OpensEnd
