SPECIFICATION Spec
CONSTANTS
  a = a
  b = b
  bad = bad
  f1 = f1
  f2 = f2
  Tabs = {t1}
  Rendered = {f1}
  t1 = t1
  Ids = {1, 2, 8, 9, 10, 11}
  NoId = 0
  Bodies = {a, b}
  BadBody = bad
  Fingerprints = {f1, f2}
  MAX_REVISIONS = 3
  SheetCapacity = 2
  Planted <- MCPlanted
  GivenSheets <- MCGivenSheets
  GivenIds = {8, 9, 10, 11}
  NewId <- MCNewId
  MaxNew = 2
  MaxSheets = 1
  MaxFaults = 1
  Blocked = {t1}
INVARIANTS
  ChainIsSound
  MarkedMeansHandedOff
  UnsavedIsShown
  HandedOffComesBack
CHECK_DEADLOCK FALSE
