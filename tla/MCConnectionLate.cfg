SPECIFICATION Spec
CONSTANTS
  Clients = {c1, c2}
  Daemons = {d1}
  None = None
INVARIANT MaintenanceExcludesActivation
