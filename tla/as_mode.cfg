SPECIFICATION Spec
CONSTANTS
  NegativeRetry = 1
  DefaultRouteFeature = TRUE
  OscillationEnabled = TRUE
  ConfigModes = {"Auto", "Active"}
  RouteReports = {"OK"}
  SwssReports = {"Active", "Standby"}
  XcvrdReports = {}
  LinkReports = {"Up"}
  PeerLinkReports = {}
  Heartbeats = {"Active", "Standby", "Unknown"}
  PeerCommands = {}
  MaxPosted = 2
  MaxCopies = 1
PROPERTIES
  NewestModeWins
