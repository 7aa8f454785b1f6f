\* A temporary file is left by the staging or the rename that failed.
SPECIFICATION Spec
CONSTANTS
  first = first
  second = second
  Runs = {r1}
  StoryOrder <- MCOneStory
  Versions = {v1, v2}
  None = none
  Bodies = {b1, b2}
  MaxFaults = 1
  MaxEdits = 0
  MaxTogether = 1
  CanCrash = FALSE
INVARIANT FailureLeavesNoTemp
CHECK_DEADLOCK FALSE
