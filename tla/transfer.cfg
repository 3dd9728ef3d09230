CONSTANTS
  Sizes <- MCSizes
  retries <- MCRetries
  MaxPart <- MCMaxPart
SPECIFICATION XferFairSpec
INVARIANTS
  LocalAddsUp
PROPERTIES
  FileArrives
