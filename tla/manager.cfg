SPECIFICATION FairSpec
CHECK_DEADLOCK FALSE
CONSTANTS
  Ports = {"s1", "a1"}
  Strangers = {}
  Cable <- MCCable
  Prober <- MCProber
  Keys <- MCKeys
  Values <- MCValues
  FirstTables <- MCFirst
  Starts <- MCStarts
  DefaultRouteFeature = TRUE
  Requests <- MCRequests
  MaxQueue = 2
  MaxChanges <- MCMaxChanges
INVARIANTS
  BuiltAsConfigured
  PortsAndDatabasesAgree
PROPERTIES
  AutoAfterWarmRestart
  SignalEndsProcess
