SPECIFICATION FairLoopSpec
CONSTANTS
  DefaultRouteFeature = TRUE
  MuxStateChangeRetryCount = 1
  LinkStateChangeRetryCount = 1
  ConfigModes = {"Auto","Standby"}
  RouteReports = {"OK","NA"}
  SwssReports = {"Active","Standby","Unknown"}
  ProbeReports = {"Active","Standby","Unknown"}
  PeerReports = {"Standby"}
  LinkReports = {"Up","Down"}
  Heartbeats = {"Active","Unknown"}
  PeerHeartbeats = {"PeerActive","PeerUnknown"}
  OtherEvents = {"ProbeMuxFailure","MuxProbeRequest"}
  MaxPosted = 9
  MaxCopies = 3
  FirstMuxStates = {"Standby"}
  FirstWorlds <- MCWorlds
  Changes = {"SwitchFails","ProbeFails","ConnectionLost","Takeover","Slow","server","peer","link","route","mode"}
  MaxFaults = 2
  Backlog = 0
INVARIANTS
  TypeOK
  CompositeCoherent
  WaitEnds
  LabelAccurate
  ShutdownMatchesRoute
  OperatorHoldsDirection
PROPERTIES
  Recovers
  Yields
  ObeysOperator
