CONSTANTS
  Modes <- MCAllModes
  IdleLimit = 1
  StaleLimit = 1
  StallWarn = 2
  WarnPause = 1
  StallReopen = 3
  MaxRuns = 2
  MaxFed = 3
SPECIFICATION LiveSpec
INVARIANTS
  LinkIsTold
PROPERTIES
  LinkMovesOn
  ViewKeepsUp
CHECK_DEADLOCK FALSE
