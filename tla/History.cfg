SPECIFICATION Spec
CONSTANTS
  Path = {p1, p2}
  Content = {c1, c2}
  None = None
  Instant = {0, 8}
  Hour = 2
  Day = 4
  Week = 8
  Month = 16
  MaxCommands = 3
  MaxOutside = 1
  MaxFaults = 1
  MaxBack = 0
SYMMETRY Symmetry
INVARIANTS TypeOK ListedIsReadable BothSidesRecorded
PROPERTY VersionsSurvive
CHECK_DEADLOCK FALSE
