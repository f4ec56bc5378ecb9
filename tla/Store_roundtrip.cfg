SPECIFICATION StoreSpec
CONSTANTS
  StrategyFiles <- SourceFiles
  StrategyIds = {1}
  PortsIn <- SourcePortsIn
  PortsOut <- SourcePortsOut
  Categories <- SourceCategories
  WellFormed = {"1.0"}
  NoField = "none"
INVARIANT SerializedIsRebuilt
CHECK_DEADLOCK FALSE
