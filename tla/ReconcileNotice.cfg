SPECIFICATION FairSpec
CONSTANTS
  Region = {form, words}
  Form = form
  Val = {0, 1, 2}
  Spelling = {0, 1}
  Canonical = 0
  NoText = NoText
  Proc = {p1}
  Kinds = {"watch", "auto", "keep", "theirs"}
  Format = "markdown"
  CanSwitch = FALSE
  Faults = {"read"}
  MaxEdits = 1
  MaxSaves = 0
  MaxExternal = 2
PROPERTIES
  OutsideChangeIsNoticed
CHECK_DEADLOCK FALSE
