\* One fault of either kind and one edit by somebody else at any moment, and a signal.
SPECIFICATION Spec
CONSTANTS
  SameAssets <- MCSameAssets
  FaultKinds = {"before", "after"}
  MaxFaults = 1
  MaxEdits = 1
INVARIANTS
  ResultHoldsOnReplan
  PartialIsRefused
  MigrationIsWhole
  EarlyEditsSurvive
CHECK_DEADLOCK FALSE
