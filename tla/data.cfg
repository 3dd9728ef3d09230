CONSTANTS
  oneSat = oneSat
  Inputs <- MCInputs
  HeadLen <- MCHeadLen
  MaxFrame <- MCMaxFrame
  BaseFiles <- MCBaseFiles
  RoverFiles <- MCRoverFiles
  Intervals <- MCNone
  Week <- MCWeek
  kWindow <- MCWindow
  kMinSamples <- MCMinSamples
  kMaxSaneGap <- MCMaxSaneGap
  PppSats = {1, 2, 3}
  PppConfigs <- MCPppConfigs
  PppEpochs <- MCPppEpochs
  PppInitSats = 3
  PppMwMin = 2
  PppWarmup = 1
  PppLongAgo = 120
  RnxFiles <- MCRnxFiles
  IdsPerLine = 2
  TypesPerRow = 2
  RnxSystems = {"G01", "G02", "G05", "R02", "E01", "C01"}
  NavFiles <- MCNavFiles
  NavWeek = 8
  EphSats = {"G01", "C01", "R01", "E01"}
  EphConfigs <- MCEphConfigs
  EphMaxAge = 2
  EphQueueDepth = 2
  CrxVersions = {1, 3}
  CrxEpochs <- MCCrxEpochs
  CrxBase = 10
  CrxArc = 3
  CrxLast = 4
  PtSats <- MCPtSats
  PtSys <- MCPtSys
  PtEpochs <- MCPtEpochs
  PtIsb = TRUE
  MinCheckIter = 1
  PtMaxIter = 3
  PtLast = 3
  RtkSats <- MCRtkSats
  RtkSys <- MCRtkSys
  RtkGeo <- MCRtkGeo
  RtkConfigs <- MCRtkConfigs
  RtkEpochs <- MCRtkEpochs
  RtkMwMin = 1
  RtkGfMin = 3
  RtkEphMax = 1
  LamInputs <- MCLamInputs
  LamUnit = 40
  LamLoops = 25
  LamRatio = 3
  LamBox <- MCLamBox
SPECIFICATION DataSpec
INVARIANTS
  LogIsDelivered
  EpochsAreSound
  PairingIsRight
  PppSlipsReachFilter
  PppGateNeverStarves
  RinexAsWritten
  NavAsWritten
  EphServedThen
  CrxAsOriginal
  PtFailureLeavesNoTrace
  RtkArcsUnbroken
  LamNearestTwo
CHECK_DEADLOCK FALSE
