SPECIFICATION Spec
CONSTANTS
  g1 = g1
  g2 = g2
  o1 = o1
  ready = ready
  twin = twin
  rough = rough
  x1 = x1
  x2 = x2
  a = a
  b = b
  text = text
  bytes = bytes
  nodes = nodes
  batch1 = batch1
  batch2 = batch2
  NoId = NoId
  None = None
  Ids = {a, b}
  Bodies = {text}
  Fingerprints = {ready, twin}
  Prefixes = {x1}
  StoryCodes = {"STORY_NOT_READY"}
  Procs = {g1, g2, o1}
  Jobs <- MCJobs
  PrefixOf <- MCPrefixOf
  Diagnostics <- MCDiagnostics
  StoryIssues <- MCStoryIssues
  WithSidecars = {ready, twin}
  ManifestOf <- MCManifestOf
  NodesOf <- MCNodesOf
  Sheets <- MCSheets
  Responses <- MCResponses
  Confirmations <- MCConfirmations
  Semantics <- MCSemantics
  Observations <- MCObservations
  MaxAttempts = 2
  MaxReports = 3
  FaultKinds = {"index", "git", "list", "read", "semantic path", "record", "records path", "directory", "directory path", "artifact", "artifact path"}
  MaxFaults = 1
  MaxEdits = 2
  Starts = {ready}
  Heads = {ready}
SYMMETRY MCSymmetry
INVARIANTS
  CoverageIsReported
  PlansBelongTogether
  ReportsAreNews
CHECK_DEADLOCK FALSE
