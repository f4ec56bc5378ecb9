SPECIFICATION StrategySpec
CONSTANTS
  s1 = s1
  s2 = s2
  h1 = h1
  h2 = h2
  OnBarClose = OnBarClose
  Strategies = {s1, s2}
  Handlers = {OnBarClose, h1, h2}
  EventTypes = {"BAR_CLOSE", "SIGNAL_GENERATED", "STRATEGY_STARTED", "STRATEGY_STOPPED"}
  UsedTypes = {"BAR_CLOSE", "SIGNAL_GENERATED"}
  MaxPlaces = 2
  MaxDepth = 4
  MaxActions = 1
  MaxSlots = 3
  MaxCount = 1
  None = None
  Absent = Absent
  n1 = n1
  n2 = n2
  n3 = n3
  Ids = {n1, n2, n3}
  KindsOf <- SourceLogicAction
  UsedInputs = {"price", "value_a", "input_0", "trigger"}
  MaxPrice = 1
  Calculate <- MovingAverage
  Period = 2
  Threshold = 0
  MinInputs = 2
  MaxConnections = 2
  MaxAge = 1
SYMMETRY Symmetry
INVARIANTS
  NobodyMisses EachOncePerBar CountsMatchSignals
  ConnectionsAreEdges ValidIsTrue InputsAreFresh ActionsHaveCause
