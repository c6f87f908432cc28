SPECIFICATION Spec
CONSTANTS
  Region = {form, words}
  Form = form
  Val = {0, 1, 2}
  Spelling = {0, 1}
  Canonical = 0
  NoText = NoText
  Proc = {p1}
  Kinds = {"watch", "save", "auto", "keep", "theirs"}
  Format = "markdown"
  CanSwitch = FALSE
  Faults = {"read", "write", "park"}
  MaxEdits = 1
  MaxSaves = 1
  MaxExternal = 2
INVARIANTS
  VanishedTabIsDirty
  UntouchedTabIsClean
PROPERTIES
  UnseenSurvivesWrite
CHECK_DEADLOCK FALSE
