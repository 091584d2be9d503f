SPECIFICATION Spec
CONSTANTS
  Clients = {c1, c2, c3}
  Daemons = {d1, d2, d3}
  None = None
SYMMETRY Symmetry
INVARIANTS
  WriterIsRecorded
  NoCloseUnderRequest
  StopIsFinal
  OnlyLateDuringMaintenance
PROPERTIES
  RemovalIsSafe
