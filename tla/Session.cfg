SPECIFICATION FairSpec
CONSTANTS
  Doc = {n1, u1}
  Note = {n1}
  None = None
  Autosave = TRUE
  Faults = {"load", "open", "write", "relaunch"}
  EarlyTabs = FALSE
  MaxText = 3
  MaxStops = 1
  MaxQueue = 1
  MaxSaves = 1
INVARIANTS TypeOK DirtyIsJournalled RecoveryKept SessionIsCurrent
PROPERTIES JournalCatchesUp
CHECK_DEADLOCK FALSE
