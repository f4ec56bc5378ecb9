SPECIFICATION EngineSpec
CONSTANTS
  NoOrder = NoOrder
  Free = Free
  o1 = o1
  o2 = o2
  h1 = h1
  h2 = h2
  p1 = p1
  Orders = {o1, o2}
  Tasks = {h1, h2, p1}
  Handlers = {h1, h2}
  Operators = {p1}
  Pollers = {}
  Stamps = {0}
  CancelIsSync = TRUE
  LosesAnswers = FALSE
  MaxReports = 1
  MaxCancels = 3
  Modes = {"PAPER", "LIVE"}
  Threshold = 2
  BreakerEnabled = TRUE
  MaxPositions = 1
  MaxActions = 1
CHECK_DEADLOCK FALSE
SYMMETRY Symmetry
INVARIANTS CountersAgree BreakerTrips NoOrderForgotten
