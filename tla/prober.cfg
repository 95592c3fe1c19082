SPECIFICATION Spec
CONSTANTS
  Content <- MCContent
  PositiveRetry = 2
  NegativeRetry = 3
  SeqModulus = 3
  MaxPosted = 2
  MaxDone = 2
  MaxOwn = 1
INVARIANTS
  HeartbeatsIntact
  SequenceMeansHeard
PROPERTIES
  KeepsVerdict
  SilenceIsDetected
  StopIsEffective
  SuspensionEnds
