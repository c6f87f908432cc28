SPECIFICATION Spec
CONSTANTS
  Doc = {n1, u1}
  Note = {n1}
  None = None
  Autosave = TRUE
  Faults = {}
  EarlyTabs = FALSE
  MaxText = 3
  MaxStops = 1
  MaxQueue = 2
  MaxSaves = 1
INVARIANTS
  RecoveredIsNewer
CHECK_DEADLOCK FALSE
