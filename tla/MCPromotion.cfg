SPECIFICATION BothSpec
CONSTANTS
  Files = {scope, project}
  Managed = {scope}
  ProjectFile = project
  Missing = Missing
  MaxCrashes = 2
  None = None
  c1 = c1
  c2 = c2
  d1 = d1
  d2 = d2
INVARIANTS
  NeverMixed
  EditsKept
  ArchiveComplete
PROPERTIES
  Completes
  ConnectionProgress
