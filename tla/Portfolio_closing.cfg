SPECIFICATION RecordedSpec
CONSTANTS
  Instruments = {"i1", "i2"}
  Lots = {1, 2}
  FillPrices = {2, 3}
  Fees = {1}
  InitialCapital = 10
  MaxTrades = 2
INVARIANT ClosingsArePaid
CHECK_DEADLOCK FALSE
