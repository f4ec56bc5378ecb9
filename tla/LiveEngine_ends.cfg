SPECIFICATION EndsSpec
CONSTANTS
  NoOrder = NoOrder
  Free = Free
  o1 = o1
  h1 = h1
  p1 = p1
  c1 = c1
  Orders = {o1}
  Tasks = {h1, p1, c1}
  Handlers = {h1}
  Operators = {p1}
  Pollers = {c1}
  Stamps = {0}
  CancelIsSync = TRUE
  LosesAnswers = TRUE
  MaxReports = 50
  MaxCancels = 2
  Modes = {"PAPER"}
  Threshold = 2
  BreakerEnabled = TRUE
  MaxPositions = 1
  MaxActions = 1
CHECK_DEADLOCK FALSE
INVARIANT CancelIsFinal
PROPERTIES CoroutinesEnd ImplementsOMS FillsAreLearnt
