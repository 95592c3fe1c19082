SPECIFICATION Spec
CONSTANTS
  NegativeRetry = 1
  DefaultRouteFeature = TRUE
  OscillationEnabled = TRUE
  ConfigModes = {"Auto"}
  RouteReports = {"OK", "NA"}
  SwssReports = {"Active", "Standby"}
  XcvrdReports = {"Standby"}
  LinkReports = {"Up"}
  PeerLinkReports = {}
  Heartbeats = {"Active", "Standby", "Unknown"}
  PeerCommands = {"SwitchActive"}
  MaxPosted = 2
  MaxCopies = 1
INVARIANTS
  NoSwitchToActiveWithoutRoute
