SPECIFICATION ServiceSpec
CONSTANTS
  Sockets = {w1, w2}
  EventChannels = {c}
  MarketChannel = m
  MaxEvents = 1
  Indicators <- MCIndicators
  Series = {1, 2}
  NoSeries = 0
  MaxSize = 2
  Ttl = 1
  NoTtl = NoTtl
  MaxTime = 3
  MaxCalls = 4
  Symbols = {"B", "X:B"}
  Endings <- MCEndings
  Types = {"quote"}
  Ttls = {0, 1}
  DefaultTtl = 2
  Files <- MCFiles
  Missing = Missing
  Broken = Broken
  Limits = {0, 2}
  MaxVersions = 1
  StrategyFiles <- MCStrategyFiles
  StrategyIds = {1}
  PortsIn <- MCPortsIn
  PortsOut <- MCPortsOut
  Categories <- MCCategories
  WellFormed = {"1.0", "1.1"}
  NoField = "none"
  Listings <- MCListings
  Frames <- MCFrames
  Windows <- MCWindows
  Scores = {1, 2}
  NaN = 0
  SavesModels = TRUE
  MaxModels = 2
  MaxSaved = 2
  MaxTrainings = 2
SYMMETRY Symmetry
INVARIANTS BroadcastsDeliver ConnectionsAreKept CacheAnswers DataAnswers StrategiesTracked ModelsAreTold
CHECK_DEADLOCK FALSE
