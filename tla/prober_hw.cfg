SPECIFICATION FairSpec
CHECK_DEADLOCK FALSE
CONSTANTS
  PositiveRetry = 1
  NegativeRetry = 2
  g1 = g1
  g2 = g2
  FirstWorlds <- MCWorlds
  Guids = {g1, g2}
  NoGuid = NoGuid
  PeerKinds = {"Hardware","Software"}
  EarlyCommands = FALSE
  Requests = {"suspend","resume","shutdown","restart","frame"}
  MaxPosted = 1
  MaxDone = 1
  MaxChanges = 2
INVARIANTS
  TypeOK
  PeerSessionMatches
PROPERTIES
  OnlyNewAddressBreaksSilence
  VerdictFollowsServer
  SilentPeerIsNoticed
