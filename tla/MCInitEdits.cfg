\* One edit by somebody else at any moment, two failing operations and a signal.
SPECIFICATION Spec
CONSTANTS
  specs = specs
  template = template
  agents = agents
  story = story
  marker = marker
  legacy = legacy
  FreshDirectories <- MCOneDirectory
  UpgradeDirectories <- MCOneDirectory
  Stories <- specs
  FreshPayloads <- MCOnePayload
  UpgradePayloads <- MCOnePayload
  Marker <- marker
  LegacyMarker <- legacy
  Contents = {"old", "new"}
  NewContent = "new"
  LegacyContents = {"old"}
  Root = root
  Parent <- MCOneParent
  FaultKinds = {"before", "after"}
  MaxFaults = 2
  MaxEdits = 1
  CanCrash = FALSE
INVARIANTS
  EarlyEditsSurvive
  ObservationAccepted
  LeftoversAreNamed
CHECK_DEADLOCK FALSE
