SPECIFICATION Spec
CONSTANTS
  NegativeRetry = 1
  DefaultRouteFeature = TRUE
  OscillationEnabled = TRUE
  ConfigModes = {"Auto"}
  RouteReports = {"OK"}
  SwssReports = {"Active", "Standby"}
  XcvrdReports = {"Standby"}
  LinkReports = {"Up", "Down"}
  PeerLinkReports = {}
  Heartbeats = {"Active", "Standby", "Unknown"}
  PeerCommands = {}
  MaxPosted = 2
  MaxCopies = 1
INVARIANTS
  CompositeCoherent
  DriverWaitIsWatched
  DisagreementIsWatched
  LabelAccurate
PROPERTIES
  MismatchIsReconciled
