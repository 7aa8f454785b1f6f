SPECIFICATION FairSpec
CONSTANTS
  i1 = i1
  i2 = i2
  i3 = i3
  r1 = r1
  r2 = r2
  c1 = c1
  c2 = c2
  a = a
  b = b
  c = c
  f1 = f1
  f2 = f2
  f3 = f3
  x1 = x1
  x2 = x2
  x3 = x3
  x4 = x4
  text = text
  NoId = NoId
  NoRecord = NoRecord
  Ids = {a, b, c}
  Bodies = {text}
  Fingerprints = {f1, f2}
  Complete = {f1, f2}
  Prefixes = {x1, x2, x3, x4}
  PrefixOf <- MCPrefixOf
  Procs = {i1, r1, r2}
  Command <- MCCommand
  Sheets <- OneSheet
  Responses <- NumberResponses
  MaxAttempts = 2
  FaultKinds = {"list", "unsafe", "open", "write", "link", "lstat", "unlink"}
  MaxFaults = 1
  MaxEdits = 0
  CanCrash = TRUE
  SerialImports = TRUE
INVARIANTS
  ResponsesNumbered
PROPERTIES
  CommandsEnd
CHECK_DEADLOCK FALSE
