SPECIFICATION Spec
CONSTANTS
  b1 = b1
  b2 = b2
  r1 = r1
  Requests = {b1, b2, r1}
  Op <- MCBackups
  ReadOnly = {"body"}
  None = None
  MaxVersion = 2
  MaxFailures = 2
INVARIANTS
  SnapshotExisted
  BackupStaysWhole
PROPERTIES
  VerifiedForGood
CHECK_DEADLOCK FALSE
