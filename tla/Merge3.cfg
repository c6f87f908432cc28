SPECIFICATION Spec
CONSTANTS
  a = a
  b = b
  Word = {a, b}
  Base <- MCBase
  New <- MCNew
  MaxHunks = 2
INVARIANTS TypeOK NeverBehindCursor BothSidesApplied NoLineFused ConflictIsGenuine
CHECK_DEADLOCK FALSE
