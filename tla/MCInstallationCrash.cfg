SPECIFICATION FairSpec
CONSTANTS
  s1 = s1
  s2 = s2
  u1 = u1
  w1 = w1
  Setups = {s1, s2}
  Mode <- MCMode
  Place <- MCPlace
  Upgrades = {u1}
  From <- MCFrom
  Workspaces = {w1}
  Templates = {readme, example}
  None = None
  MaxMishaps = 1
  MaxEdits = 0
PROPERTY SetupRecovers
CHECK_DEADLOCK FALSE
