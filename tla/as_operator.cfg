SPECIFICATION Spec
CONSTANTS
  NegativeRetry = 1
  DefaultRouteFeature = TRUE
  OscillationEnabled = TRUE
  ConfigModes = {"Auto", "Manual", "Standby"}
  RouteReports = {"OK", "NA"}
  SwssReports = {"Active", "Standby"}
  XcvrdReports = {}
  LinkReports = {"Up"}
  PeerLinkReports = {"Down"}
  Heartbeats = {"Unknown"}
  PeerCommands = {"SwitchActive", "ResetSuspendTimer"}
  MaxPosted = 2
  MaxCopies = 1
INVARIANTS
  TypeOK
  ShutdownMatchesRoute
PROPERTIES
  OperatorHoldsDirection
  PendingIsExecuted
