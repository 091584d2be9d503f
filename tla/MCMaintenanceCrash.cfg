SPECIFICATION FairSpec
CONSTANTS
  b1 = b1
  b2 = b2
  r1 = r1
  Requests = {b1}
  Op <- MCOneBackup
  ReadOnly = {"body"}
  None = None
  MaxVersion = 1
  MaxFailures = 1
PROPERTIES
  CrashRecoveryResumes
CHECK_DEADLOCK FALSE
