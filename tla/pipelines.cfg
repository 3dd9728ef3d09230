CONSTANTS
  NumObs <- MCNumObs
  QueueDepth <- MCQueueDepth
  Accepted <- MCAccepted
  Limits <- MCLimits
  kMaxEpochs <- MCkMaxEpochs
  NumPairs <- MCNumPairs
  RtkQueueDepth <- MCRtkDepth
  Kept <- MCKept
  Solvable <- MCSolvable
  RtkLimits <- MCRtkLimits
SPECIFICATION PipelinesSpec
INVARIANTS
  TypeOK
  ShortRunIsExplained
  RtkShortRunIsExplained
PROPERTIES
  ImplementsEpochStream
  RtkImplementsStream
  EveryRunEnds
  ClosedTaskIsErased
