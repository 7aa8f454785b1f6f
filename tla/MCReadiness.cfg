\* Two runs over two Stories: a failing operation, a kill or a change by somebody else.
SPECIFICATION Spec
CONSTANTS
  first = first
  second = second
  Runs = {r1, r2}
  StoryOrder <- MCStoryOrder
  Versions = {v1, v2}
  None = none
  Bodies = {b1, b2}
  MaxFaults = 1
  MaxEdits = 1
  MaxTogether = 1
  CanCrash = TRUE
SYMMETRY Symmetry
INVARIANTS
  TypeOK
  PartialRewriteIsNamed
  EditsSurvive
  SuccessMeansFresh
CHECK_DEADLOCK FALSE
