SPECIFICATION Spec
CONSTANTS
  Region = {form, words}
  Form = form
  Val = {0, 1, 2}
  Spelling = {0, 1}
  Canonical = 0
  NoText = NoText
  Proc = {p1}
  Kinds = {"watch", "save", "auto", "keep", "theirs"}
  Format = "markdown"
  CanSwitch = TRUE
  Faults = {"event"}
  MaxEdits = 2
  MaxSaves = 1
  MaxExternal = 1
INVARIANTS
  TypeOK
  CleanTabIsSaved
PROPERTIES
  EditsSurviveVerdict
CHECK_DEADLOCK FALSE
