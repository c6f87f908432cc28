SPECIFICATION Spec
CONSTANTS
  File = {f1, f2, f3}
  None = None
  Stem = {"untitled", "dot", "con"}
  Hidden = {"dot"}
  Refused = {"con"}
  MaxTries = 2
  Folds = TRUE
  Typed <- MCTyped
  MaxSteps = 4
SYMMETRY Symmetry
INVARIANTS TypeOK NothingReplaced CreatedIsShown SuggestionIsFree
CHECK_DEADLOCK FALSE
