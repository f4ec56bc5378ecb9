SPECIFICATION ResearchSpec
CONSTANTS
  a = a
  b = b
  r1 = r1
  r2 = r2
  i1 = i1
  i2 = i2
  NoTask = NoTask
  Symbols = {a, b}
  Tasks = {r1, r2}
  Histories <- MCHistories
  TicksPerDay = 2
  Capitals = {8}
  Sizes = {1}
  SizeDen = 2
  Slip = 1
  SlipDen = 3
  Rate = 1
  RateDen = 4
  Scale = 4
  MaxSetups = 2
  MaxRuns = 2
  MaxActions = 1
  Instruments = {i1, i2}
  Lots = {1, 2}
  FillPrices = {2, 3}
  Fees = {1}
  InitialCapital = 10
  MaxTrades = 3
  Genes = {1, 2}
  Values = {1, 2}
  Fails = Fails
  Fitnesses <- MCFitnesses
  Iterations = 2
  Population = 2
  Generations = 2
  Periods = 2
  TrainDays = 3
  TestDays = 1
  DataDays = 9
  MaxSearches = 2
  IndicatorPeriods <- MCPeriods
  Multiplier = 1
  Overbought = 70
  Oversold = 30
  Prices = {1, 2, 4}
  MaxBars = 6
  s1 = s1
  s2 = s2
  WatchParams <- MCWatchParams
  StopPrices = {2, 4, 8}
  EntryPrices = {0, 4}
  RiskInputs <- MCRiskInputs
  DefaultValue = 1000
  Drawdowns = {0, 4, 5, 6, 8, 20}
  Readings = {20, 30, 40, 70, 90}
  WatchBars <- MCWatchBars
  Assets = {s1, s2}
  TargetSets <- MCTargetSets
  Holdings <- MCHoldings
  Volatilities <- MCVolatilities
  Marginals = {1, 4}
  RebalanceRules <- MCRebalanceRules
  MaxDeviation = 10
  EffectiveBudget = 5
SYMMETRY Symmetry
CHECK_DEADLOCK FALSE
INVARIANTS EngineBooksBalance EngineRunIsOfItsSetup PortfolioBalances OptimizerFindsBest NodesAgree
  PositionsAreGuarded WeightsAreKept
PROPERTIES SignalsStay
