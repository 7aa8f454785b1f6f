SPECIFICATION Spec
CONSTANTS
  a = a
  b = b
  bad = bad
  f1 = f1
  f2 = f2
  Tabs = {t1}
  Rendered = {f1}
  t1 = t1
  Ids = {1, 2, 8, 9, 10, 11}
  NoId = 0
  Bodies = {a, b}
  BadBody = bad
  Fingerprints = {f1, f2}
  MAX_REVISIONS = 3
  SheetCapacity = 2
  Planted <- NothingPlanted
  GivenSheets <- NoSheets
  GivenIds = {8, 9, 10, 11}
  NewId <- MCNewId
  MaxNew = 1
  MaxSheets = 2
  MaxFaults = 0
  Blocked = {}
INVARIANTS
  ExportedIsReadOnly
CHECK_DEADLOCK FALSE
