SPECIFICATION Spec
CONSTANTS
  PositiveRetry = 1
  NegativeRetry = 2
  g1 = g1
  g2 = g2
  FirstWorlds <- MCWorlds
  Guids = {g1, g2}
  NoGuid = NoGuid
  PeerKinds = {"Hardware"}
  EarlyCommands = FALSE
  Requests = {}
  MaxPosted = 1
  MaxDone = 1
  MaxChanges = 1
PROPERTY CancelledTimerIsSilent
CHECK_DEADLOCK FALSE
