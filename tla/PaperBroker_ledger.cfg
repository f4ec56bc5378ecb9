SPECIFICATION PaperSpec
CONSTANTS
  NoSymbol = NoSymbol
  s1 = s1
  s2 = s2
  t1 = t1
  t2 = t2
  Symbols = {s1, s2}
  Tasks = {t1, t2}
  Quantities = {1, 2}
  Prices = {4}
  Capital = 9
  Slippage = 0
  RateNum = 1
  RateDen = 4
  MaxOrders = 2
CHECK_DEADLOCK FALSE
SYMMETRY Symmetry
INVARIANTS CashIsCovered LedgerBalances
