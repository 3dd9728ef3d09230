CONSTANTS
  oneSat = oneSat
  Inputs <- MCInputs
  HeadLen <- MCHeadLen
  MaxFrame <- MCMaxFrame
SPECIFICATION LogsSpec
INVARIANTS
  OneEpochPerStamp
CHECK_DEADLOCK FALSE
