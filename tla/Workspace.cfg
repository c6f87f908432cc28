SPECIFICATION Spec
CONSTANTS
  Path = {n1, n2}
  Proc = {p1, p2}
  None = None
  Fails = TRUE
  MaxTabs = 2
  MaxText = 2
  MaxOps = 2
INVARIANTS
  TypeOK
  TypedIsKept
  CleanTabIsOnDisk
SYMMETRY Symmetry
CHECK_DEADLOCK FALSE
