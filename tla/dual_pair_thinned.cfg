CONSTANTS
  BaseFiles <- MCThinnedFiles
  RoverFiles <- MCThinnedFiles
  Intervals <- MCThinning
  Week <- MCWeek
  kWindow <- MCWindow
  kMinSamples <- MCMinSamples
  kMaxSaneGap <- MCMaxSaneGap
SPECIFICATION DualSpec
INVARIANTS
  ThinnedPairsAreExact
