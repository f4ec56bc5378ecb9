SPECIFICATION WatchedSpec
CONSTANTS
  None = None
  Absent = Absent
  n1 = n1
  n2 = n2
  Ids = {n1, n2}
  KindsOf <- SourceCondition
  UsedInputs = {"price", "value_a", "input_0", "trigger"}
  MaxPrice = 2
  Calculate <- LastPrice
  Period = 1
  Threshold = 1
  MinInputs = 2
  MaxConnections = 1
  MaxAge = 1
INVARIANT CrossingsAreSeen
