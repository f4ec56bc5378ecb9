SPECIFICATION MCSpec
CONSTANTS
  Tasks = {t1, t2}
  Adapters <- AllAdapters
  Orders <- MCOrders
  MaxConnects = 2
  MaxOrders = 1
  MaxStreams = 2
INVARIANTS ReportsAreTrue NobodyIsUnaware ConnectionIsUsable
PROPERTY StreamReconnects
CHECK_DEADLOCK FALSE
