\* Two people confirm sources that abbreviate alike, while somebody imports and edits.
SPECIFICATION Spec
CONSTANTS
  i1 = i1
  i2 = i2
  i3 = i3
  r1 = r1
  r2 = r2
  c1 = c1
  c2 = c2
  a = a
  b = b
  c = c
  f1 = f1
  f2 = f2
  f3 = f3
  x1 = x1
  x2 = x2
  x3 = x3
  x4 = x4
  text = text
  NoId = NoId
  NoRecord = NoRecord
  Ids = {a, b, c}
  Bodies = {text}
  Fingerprints = {f1, f2, f3}
  Complete = {f2, f3}
  Prefixes = {x1, x2, x3, x4}
  PrefixOf <- MCPrefixOf
  Procs = {i1, c1, c2}
  Command <- MCCommand
  Sheets <- OneSheet
  Responses <- NoResponses
  MaxAttempts = 1
  FaultKinds = {"list", "unsafe", "open", "write", "link", "unlink"}
  MaxFaults = 1
  MaxEdits = 1
  CanCrash = TRUE
  SerialImports = FALSE
SYMMETRY Confirmers
INVARIANT ResultsAreTrue
CHECK_DEADLOCK FALSE
