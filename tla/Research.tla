------------------------------ MODULE Research ------------------------------
(***************************************************************************)
(* The parts a strategy is tried out with: backtest engine, portfolio,     *)
(* optimizer, indicator nodes, the nodes that guard positions, and the     *)
(* rebalancing of a portfolio.                                             *)
(*                                                                         *)
(* They do not call each other in this program (the callers put them       *)
(* together, and the optimizer takes the backtest as a function), so a     *)
(* behaviour is one of a single part, chosen at the start; the variables   *)
(* of the others stay as they are.  The engine and the portfolio both call *)
(* their money cash and their trades trades, and share these variables.    *)
(***************************************************************************)
EXTENDS Backtest, Optimizer, IndicatorNode

CONSTANTS Instruments, Lots, FillPrices, Fees, InitialCapital, MaxTrades
CONSTANTS WatchParams, StopPrices, EntryPrices, RiskInputs, DefaultValue, Drawdowns, Readings,
          WatchBars
CONSTANTS Assets, TargetSets, Holdings, Volatilities, Marginals, RebalanceRules, MaxDeviation,
          EffectiveBudget
VARIABLES part, held, commissions, slippages, closedAt, quoted
VARIABLES watch, trail, asked, told
VARIABLES rule, wanted, targets, allocations, checked, advised, ordered

Books == INSTANCE Portfolio
Guards == INSTANCE RiskNodes
Weights == INSTANCE Rebalancing

ASSUME PortfolioAssumption ==
  /\ IsFiniteSet(Instruments)
  /\ Lots \subseteq Nat \ {0} /\ FillPrices \subseteq Nat \ {0} /\ Fees \subseteq Nat
  /\ InitialCapital \in Nat /\ MaxTrades \in Nat

\* Weights are whole percents, of finitely many symbols; limits and budgets are not negative.
ASSUME RebalancingAssumption ==
  /\ \A weights \in TargetSets : /\ DOMAIN weights \subseteq Assets /\ IsFiniteSet(DOMAIN weights)
                                 /\ weights \in [DOMAIN weights -> Nat]
  /\ \A weights \in Holdings : weights \in [DOMAIN weights -> Int]
  /\ \A risks \in Volatilities : risks \in [DOMAIN risks -> Nat]
  /\ Marginals \subseteq Nat
  /\ \A r \in RebalanceRules :
       r.enabled \in BOOLEAN /\ r.threshold \in Nat /\ r.tolerance \in Nat /\ r.turnover \in Nat
  /\ MaxDeviation \in Nat /\ EffectiveBudget \in Nat

\* Prices are positive; percents, limits, sizes and ATRs are not negative; a threshold
\* may lie anywhere.
ASSUME GuardAssumption ==
  /\ \A w \in WatchParams :
       /\ w.kind = "TrailingStopNode" => w.trail \in Nat /\ w.activation \in Nat
       /\ w.kind = "RiskNode" =>
            w.limit \in Nat /\ w.loss \in Nat /\ w.cap \in Nat /\ w.adjust \in BOOLEAN
       /\ w.kind = "DrawdownProtectionNode" =>
            w.max \in Nat /\ w.action \in {"reduce_size", "stop_trading", "hedge"}
       /\ w.kind = "ThresholdNode" => w.levels \in Seq(Int)
  /\ StopPrices \subseteq Nat \ {0} /\ EntryPrices \subseteq Nat
  /\ \A in \in RiskInputs :
       in.signal \in BOOLEAN /\ in.size \in Nat /\ in.pnl \in Int /\ in.atr \in Nat /\ in.value \in Int
  /\ DefaultValue \in Nat \ {0} /\ Drawdowns \subseteq Int /\ Readings \subseteq Int

engineOnly == <<status, error, config, equity, positions, daily, peak, drawdown, now,
                feed, index, bars, run, hold, started, use, oversold, marked>>
bookOnly == <<held, commissions, slippages, closedAt, quoted>>
guardOnly == <<watch, trail, asked, told>>
weightOnly == <<rule, wanted, targets, allocations, checked, advised, ordered>>
riskOnly == <<guardOnly, weightOnly>>
money == <<cash, trades>>

moneyOff == cash = {} /\ trades = {}
engineOff ==
  /\ status = {} /\ error = {} /\ config = {} /\ equity = {} /\ positions = {} /\ daily = {}
  /\ peak = {} /\ drawdown = {} /\ now = {} /\ feed = {} /\ index = {} /\ bars = {}
  /\ run = {} /\ hold = {} /\ started = {} /\ use = {} /\ oversold = {} /\ marked = {}
bookOff == held = {} /\ commissions = {} /\ slippages = {} /\ closedAt = {} /\ quoted = {}
optimizerOff == fit = {} /\ results = {} /\ search = {} /\ outcome = {} /\ searches = {}
guardOff == watch = {} /\ trail = {} /\ asked = {} /\ told = {}
weightOff ==
  /\ rule = {} /\ wanted = {} /\ targets = {} /\ allocations = {}
  /\ checked = {} /\ advised = {} /\ ordered = {}
riskOff == guardOff /\ weightOff
nodeOff == indicator = "none" /\ history = {} /\ outputs = {} /\ seen = {}

EnginePart ==
  /\ BacktestNext
  /\ UNCHANGED <<part, bookOnly, optimizerVars, nodeVars, riskOnly>>
PortfolioPart ==
  /\ Books!PortfolioNext
  /\ UNCHANGED <<part, engineOnly, optimizerVars, nodeVars, riskOnly>>
OptimizerPart ==
  /\ OptimizerNext
  /\ UNCHANGED <<part, money, engineOnly, bookOnly, nodeVars, riskOnly>>
NodePart ==
  /\ NodeNext
  /\ UNCHANGED <<part, money, engineOnly, bookOnly, optimizerVars, riskOnly>>
GuardPart ==
  /\ Guards!WatchNext
  /\ UNCHANGED <<part, money, engineOnly, bookOnly, optimizerVars, nodeVars, weightOnly>>
WeightPart ==
  /\ Weights!RebalanceNext
  /\ UNCHANGED <<part, money, engineOnly, bookOnly, optimizerVars, nodeVars, guardOnly>>

testingOff == moneyOff /\ engineOff /\ bookOff /\ optimizerOff /\ nodeOff

ResearchInit ==
  \/ part = "engine" /\ BacktestInit /\ bookOff /\ optimizerOff /\ nodeOff /\ riskOff
  \/ part = "portfolio" /\ Books!PortfolioInit /\ engineOff /\ optimizerOff /\ nodeOff /\ riskOff
  \/ part = "optimizer" /\ OptimizerInit /\ moneyOff /\ engineOff /\ bookOff /\ nodeOff /\ riskOff
  \/ part = "node" /\ NodeInit /\ moneyOff /\ engineOff /\ bookOff /\ optimizerOff /\ riskOff
  \/ part = "guard" /\ Guards!WatchInit /\ testingOff /\ weightOff
  \/ part = "weights" /\ Weights!RebalanceInit /\ testingOff /\ guardOff

ResearchNext ==
  \/ part = "engine" /\ EnginePart
  \/ part = "portfolio" /\ PortfolioPart
  \/ part = "optimizer" /\ OptimizerPart
  \/ part = "node" /\ NodePart
  \/ part = "guard" /\ GuardPart
  \/ part = "weights" /\ WeightPart

ResearchSpec ==
  ResearchInit /\
    [][ResearchNext]_<<part, money, engineOnly, bookOnly, optimizerVars, nodeVars, riskOnly>>

-----------------------------------------------------------------------------
\* BooksBalance of Backtest, of the backtest engine: its cash, positions and equity
\* are what its trades account for, whatever overlapped (_process_action).
EngineBooksBalance == part = "engine" => BooksBalance

\* RunIsOfItsSetup of Backtest: a setup that one run alone has used gives that run's
\* books and no other's (setup, run).
EngineRunIsOfItsSetup == part = "engine" => RunIsOfItsSetup

\* PortfolioBalances of Portfolio: cash, fees and every position are what the trades
\* account for (execute_order, close_position).
PortfolioBalances == part = "portfolio" => Books!PortfolioBalances

\* SearchFindsBest of Optimizer: a search returns the best of what it tried
\* (grid_search, random_search, walk_forward_optimization, optimize).
OptimizerFindsBest == part = "optimizer" => SearchFindsBest

\* NodeAgrees of IndicatorNode: a node that keeps the last prices agrees with an
\* indicator that sees them all (IndicatorNode.execute).
NodesAgree == part = "node" => NodeAgrees

\* NoRepaint of IndicatorNode: a bar changes no signal of an earlier one
\* (the _generate_signals methods).
SignalsStay == NoRepaint

\* RiskNodesGuard of RiskNodes: whatever a node has seen since its reset, it guards the
\* position as its parameters say (TrailingStopNode, RiskNode, DrawdownProtectionNode,
\* ThresholdNode).
PositionsAreGuarded == part = "guard" => Guards!RiskNodesGuard

\* RebalancingIsSound of Rebalancing: rebalancing moves towards the targets, within its
\* limits, whichever of the two is asked (RiskBudget, RebalanceNode).
WeightsAreKept == part = "weights" => Weights!RebalancingIsSound
=============================================================================
