SPECIFICATION Spec
CONSTANTS
  Nil = Nil
  x1 = x1
  x2 = x2
  q1 = q1
  q2 = q2
  q3 = q3
  q4 = q4
  one = one
  two = two
  v1 = v1
  v2 = v2
  event = event
  Proc = {x1, x2}
  NoOne = Nil
  None = Nil
  Digests = {one, two}
  Requests = {v1, v2}
  MaxDeaths = 1
  Callers = {x1, x2}
  Events = {event}
  RequestIds = {q1, q2, q3, q4}
  Delivery <- MCDelivery
  Proposals = {proposal}
  Decisions = {yes}
  Materials = {one, two}
  Nothing = Nil
  Limit = 4
  Processes = {x1, x2}
  Candidates = {candidate}
  Packages = {one, two}
  Directory <- MCDirectory
  Versions = {v1, v2}
  Missing = Nil
  MaxCallerDeaths = 1
  Managers = {1, 2}
  Uninstallers = {1}
  App = {"app"}
  Managed = {"bundle", "market", "config"}
  Notes = "notes"
  MaxManagerDeaths = 1
  Adapters = {x1, x2}
  Preparations = {q2, q3, q4}
  Free = Nil
  Downloads = 2
  Workflows = {1, 2}
  Commits = {"c1", "c2"}
  NoTag = "none"
CHECK_DEADLOCK FALSE
SYMMETRY Symmetry
INVARIANT NoPartialCached
