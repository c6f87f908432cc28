SPECIFICATION Spec
CONSTANTS
  Path <- MCPath
  File = {f1, f2}
  Id = {i1, i2}
  Folder = Folder
  None = None
  ManifestName = "b"
  MaxOutside = 1
  MaxFaults = 1
SYMMETRY Symmetry
INVARIANTS TypeOK OneLocation TrashIsListed HistoryFollows
PROPERTY RestoredToOrigin
CHECK_DEADLOCK FALSE
