SPECIFICATION Spec
CONSTANTS
  Region = {form, words}
  Form = form
  Val = {0, 1, 2}
  Spelling = {0, 1}
  Canonical = 0
  NoText = NoText
  Proc = {p1, p2}
  Kinds = {"watch", "save", "auto", "keep"}
  Format = "markdown"
  CanSwitch = FALSE
  Faults = {}
  MaxEdits = 1
  MaxSaves = 1
  MaxExternal = 1
INVARIANTS
  CleanTabIsSaved
PROPERTIES
  EditsSurviveVerdict
  UnseenSurvivesWrite
SYMMETRY Handlers
CHECK_DEADLOCK FALSE
