SPECIFICATION Spec
CONSTANTS
  Nil = Nil
  s1 = s1
  s2 = s2
  b1 = b1
  r1 = r1
  basic = basic
  rules = rules
  code = code
  Settings = {s1, s2}
  Intents <- MCIntents
  Batches = {"first", "second"}
  QueueLimit = 2
  MaxStarts = 1
  MaxDeaths = 1
  Askers = {1, 2}
  Outputs = {"output"}
  MaxCollectionDeaths = 1
  None = Nil
  MaxLosses = 2
  InputLimit = 1
  MaxLines = 5
CHECK_DEADLOCK FALSE
INVARIANTS
  AlertsKept
  ResultFaithful
  CleanBeforeReceipt
PROPERTIES
  ChatServed
  Progress
