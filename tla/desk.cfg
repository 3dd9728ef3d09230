CONSTANTS
  QcInputs <- MCQcInputs
  QcRate = 2
  MinVotes = 2
  SettleLag = 2
  PlotSats <- MCPlotSats
  PlotKinds <- MCPlotKinds
  PlotMaxEpochs = 3
  PlotMaxEdits = 1
  PlotEarlyEdits = FALSE
  InsLists <- MCInsLists
  InsMaxRuns = 3
  CalLogs <- MCCalLogs
  CalMinLen = 3
  AliWin = 2
  AliMaxPts = 2
  AliValues = {0, 1}
  AliRate = 3
  AliSamples = 10
  LibObs = {o1}
  LibProds = {p1}
  LibMaxLoads = 2
  LibMaxFaults = 1
  LibFlushLoses = {FALSE}
  orbit1 = orbit1
  orbit2 = orbit2
  broadcast = broadcast
  grid = grid
  cutFile = cutFile
  ProdItems <- MCProdItems
  ProdTypeOf <- MCProdTypes
  ProdScoreOf <- MCProdScores
  ProdNameOf <- MCProdNames
  ProdCut = cutFile
  ProdObsBringsNav = {broadcast}
  ProdMaxFiles = 4
  RefTasks = {"spp", "ppp"}
  RefServed <- MCRefServed
  RefMaxFetches = 2
  RefMaxEdits = 1
  RefMaxBreaks = 1
  CivBaseMjd = 40587
  CivTodays <- MCCivTodays
  CivTypedYears = {1900, 2000, 2019, 2100}
  CivTypedMonths = {0, 2, 13}
  CivTypedDays = {0, 28, 31}
  CivSpans = {1, 2}
  CivMaxClicks = 3
  TimNows <- MCTimNows
  TimSteps <- MCTimSteps
  TimMaxEdits = 3
SPECIFICATION DeskSpec
INVARIANTS
  QcReportAgrees
  QcJudgesAll
  PlotIsConsistent
  CalTurnsFound
  AliPointsRegular
  LibIsSound
  ProdChoiceIsRight
  DateRowsHold
  ScaleRowsAgree
PROPERTIES
  RefIsKept
  
CHECK_DEADLOCK FALSE
