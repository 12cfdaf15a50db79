SPECIFICATION EnginesSpec
CONSTANTS
  Machines <- MCMachines
  HardMin = 8
  Trusted = 20
  Headroom = 6
  SilenceSearch = 9
  ForwardReach = 3
  CutFrame = 2
  GoodRun = 2
  MinRun = 1
  Units = 2
  MaxDepth = 2
  SplitMin = 1
  MinPrefix = 1
  Recordings <- MCRecordings
  Lead = 2
  MaxDrop = 2
  Names <- MCNames
  Aligned <- MCNames
  MaxCached = 2
  Downloaded <- MCDownloaded
  CycleWords = 2
  CycleRepeats = 3
  AnchorWords = 2
  AnchorHits = 2
  CueWords = 3
  CueTime = 60
  CueMin = 2
  Tokens = {a, b}
  LoopWindow = 4
  MaxPeriod = 2
  MinCycles = 2
  CheckEvery = 2
  MaxKicks = 2
  MaxTokens = 14
  Tasks <- MCTasks
  MaxCells = 450
  SalvageCells = 420
  MaxSplitDepth = 3
  MaxDenseSplitDepth = 1
  MaxPieces = 3
  Backoff = 1
  MinWindow = 2
  Reach = 4
  PauseExtend = 2
  UnitPause = 5
  Media <- MCMedia
  Requests <- MCRequests
  Jobs <- MCJobs
  MaxItems = 5
  MaxTries = 3
  EmissionWindow = 40
  Receptive = 6
  Layers <- MCLayers
  CoverFrame = 2
  CoverReach = 3
INVARIANTS
  
  
  
  PoolHolds
  LoopsAreShort
  
  
  
  CutIsWhatWasAsked
  ResultIsWhole
CHECK_DEADLOCK FALSE
