SPECIFICATION FairSpec
CONSTANTS
  s1 = s1
  s2 = s2
  u1 = u1
  w1 = w1
  Setups = {s1, s2}
  Mode <- MCMode
  Place <- MCPlace
  Upgrades = {u1}
  From <- MCFrom
  Workspaces = {w1}
  Templates = {readme, example}
  None = None
  MaxMishaps = 2
  MaxEdits = 2
INVARIANTS
  BoundIsWhole
  OnlyLateBeside
PROPERTIES
  NeverADifferentSetup
  OnlyHastySavesReplaced
  DeclaredMeansDone
  SetupResumes
CHECK_DEADLOCK FALSE
