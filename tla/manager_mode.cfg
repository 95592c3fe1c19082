SPECIFICATION Spec
CHECK_DEADLOCK FALSE
CONSTANTS
  Ports = {"a1"}
  Strangers = {}
  Cable <- MCCable
  Prober <- MCProber
  Keys <- MCModeKeys
  Values <- MCModeValues
  FirstTables <- MCModeFirst
  Starts <- MCStarts
  DefaultRouteFeature = TRUE
  Requests = {}
  MaxQueue = 2
  MaxChanges <- MCMaxChanges
INVARIANT ModeIsCurrent
