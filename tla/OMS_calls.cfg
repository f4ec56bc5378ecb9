SPECIFICATION Spec
CONSTANTS
  NoOrder = NoOrder
  o1 = o1
  o2 = o2
  t1 = t1
  t2 = t2
  Orders = {o1, o2}
  Tasks = {t1, t2}
  Stamps = {0}
  CancelIsSync = FALSE
  LosesAnswers = TRUE
  MaxReports = 1
  MaxCancels = 1
CHECK_DEADLOCK FALSE
SYMMETRY Symmetry
INVARIANTS PlacedAtMostOnce FillsAreReal IndexFindsOrder NoOrphanedOrder StatsMatchHistory
PROPERTY ImplementsTracking
