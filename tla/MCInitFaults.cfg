\* Two faults of any kind, a signal and a crash; nobody else edits the target.
SPECIFICATION Spec
CONSTANTS
  specs = specs
  template = template
  agents = agents
  story = story
  marker = marker
  legacy = legacy
  FreshDirectories <- MCFreshDirectories
  UpgradeDirectories <- MCUpgradeDirectories
  Stories <- specs
  FreshPayloads <- MCFreshPayloads
  UpgradePayloads <- MCUpgradePayloads
  Marker <- marker
  LegacyMarker <- legacy
  Contents = {"old", "new"}
  NewContent = "new"
  LegacyContents = {"old"}
  Root = root
  Parent <- MCParent
  FaultKinds = {"before", "after"}
  MaxFaults = 2
  MaxEdits = 0
  CanCrash = TRUE
INVARIANTS
  TypeOK
  MarkerVouches
  NoOriginalLost
  RestoredMeansRestored
  UnrestoredIsNamed
  LeftoversAreNamed
PROPERTIES
  KeepsPromise
CHECK_DEADLOCK FALSE
