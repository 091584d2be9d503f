SPECIFICATION FairSpec
CONSTANTS
  p1 = p1
  p2 = p2
  p3 = p3
  workspace = workspace
  moved = moved
  Proc = {p1, p2, p3}
  NoOne = NoOne
  NoRow = NoRow
  Subjects = {workspace, moved}
  Subject <- MCSubject
INVARIANTS
  OneHolder
PROPERTIES
  ImplementsLease
  NoWaiterStuck
