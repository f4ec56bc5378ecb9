# TLA+ models of the intelligent strategy trading system

This directory is kept beside the code of the trading system. It holds TLA+
models of its parts, configurations that model-check them with TLC on small
instances, and proofs of their most important properties that TLAPS checks for
every value of the constants. Paths are relative to the repository.

Contents: [the system](#the-system) ·
[inventory](#inventory) · [plan](#plan) · [the models](#the-models) ·
[runs and bounds](#runs-and-bounds) · [fairness](#fairness) ·
[proofs](#proofs) · [what is not modelled](#what-is-not-modelled)

## The system

A strategy is a graph of nodes (`src/ist/strategy`). The executor runs it on
every bar and emits `SIGNAL_GENERATED` events on an in-memory event bus
(`src/ist/core/events.py`). In live operation the live trading engine
(`src/ist/execution/live.py`) turns the actions of a signal into orders, which
the order management system, OMS for short, (`src/ist/execution/oms.py`) sends
through a broker adapter (Alpaca, Interactive Brokers, OANDA or the paper
broker) and follows. In a backtest (`src/ist/backtest`) the same executor is fed
with historical bars. The HTTP API and the WebSocket hub (`src/ist/api`) show all
of this to clients. Beside the Python program stand a latency monitor in Go
(`monitor`), a tick aggregator in Rust (`rust`) and a dashboard in TypeScript
(`dashboard`).

                 bars                 SIGNAL_GENERATED            create, submit, cancel, poll
    data ------> StrategyExecutor --> EventBus --> LiveTradingEngine --> OMS --> BrokerAdapter --> broker
                     |                   |              |                          PaperBroker
                     v                   v              +-- account, quotes, connect --^
                StrategyGraph       WebSocketHub --> clients
                     ^
    BacktestEngine --+  (execute_all on every bar; cash and positions of its own)

All of the Python code runs on one asyncio event loop, and nothing takes a lock.
The code between two awaits is atomic, and what can go wrong goes wrong at the
awaits: a coroutine resumes in a world that others have changed, with an answer
that may be out of date. Synchronous parts (the graph, the executor, the bus) have
no interleavings of that kind, but they call each other back: a handler may change
the very collection that is being walked.

## Inventory

What each part keeps, does and risks, and what makes it correct. `PROJECT.json`
lists every component with its status, and every hazard at the line where it bites.

| part | state | operations | what is hard | correct when |
|---|---|---|---|---|
| OMS (`execution/oms.py`) | managed orders with their state, events, broker id, last result, completion time; index from broker ids; statistics | `create_order`, `submit_order`, `cancel_order`, `update_order_status`, queries | answers that arrive late or out of order; two calls on one order; refusals without an id; repeated polls | an order is placed once, stays reachable, fills are real, statistics match the events, a caller that polls learns of every fill |
| Broker adapters (`execution/adapter.py`, `alpaca_broker.py`, `ib_broker.py`, `oanda_broker.py`) | connection, client, stream task | connect, disconnect, place, cancel, status, open orders, account, quote, trade stream | lost answers reported as refusals; a cancel that is only a request; clients replaced while requests wait; a stream that fails, sleeps, is cancelled | statuses are reported truthfully, no order trades that nobody knows of, a connected adapter has an open client, the stream comes back |
| Live engine (`execution/live.py`) | running, mode, circuit breaker, error count, counters | `start`, `stop`, `_on_signal`, `reset_circuit_breaker`, `switch_mode` | several signals at once; the breaker checked before awaits and used after them; stop against handlers; adapters that raise in the middle | counters agree with the OMS, failures trip the breaker, no order is forgotten, everything ends |
| Paper broker (`execution/paper.py`) | cash, equity, positions, orders, counter | `place_order`, `get_positions`, `get_account_info`, `reset` | cash checked and spent around an await; the positions surveyed while they change; reset under placements | cash is never spent twice, the history accounts for cash and positions |
| Strategy graph and nodes (`strategy/graph.py`, `strategy/nodes`) | nodes, connections twice, validity mark, order of execution; values and memories of the nodes | edits, `validate`, `execute` | validated and then edited; values of the bar before; nodes replaced under their connections; a node that fails | the order is current whenever it is used, no stale value reaches an action, memories last as long as they must |
| Strategy executor (`strategy/executor.py`) | strategies, their counts and activity | add, remove, start, stop, `execute_strategy`, `execute_all`, `_on_bar_close` | handlers of its own events that add and remove strategies | every active strategy is executed once per bar, counts match the signals |
| Event bus (`core/events.py`) | handlers per event type | `subscribe`, `unsubscribe`, `emit` | subscriptions during delivery, nested events, handlers that raise or are coroutines | a handler subscribed throughout gets each event once |
| Backtest engine and portfolio (`backtest/engine.py`, `portfolio.py`) | timeline, cash, equity, positions, trades, status | `setup`, `run`, `stop`, `execute_order`, `close_position` | sizes from an equity of the bar before; sells beyond the position; runs that follow one another | cash and positions balance with the trades |
| Indicators and their nodes (`strategy/indicators`, `nodes/indicator_nodes.py`) | the last prices of a node | calculate, signals, execute, reset | warm-up, a capped history, signals shifted over a series | a node agrees with an indicator that sees all; no signal changes afterwards |
| Risk and action nodes (`nodes/risk_nodes.py`, `nodes/action_nodes.py`) | a trailing stop, target weights | execute, reset | activation, sides that change, missing or zero inputs | the stop never retreats; limits never favour the riskier position |
| Indicator and data caches (`strategy/indicators/cache.py`, `data/cache.py`, `data/local.py`) | entries with times, loaded files | `get`, `set`, eviction, invalidation, `get_bars` | full caches, expiry at the boundary, files replaced under the provider | never another key's value, never an expired one, bars complete and in order |
| WebSocket hub (`api/websocket_manager.py`, `api/routers/websocket.py`) | connections and their channels | connect, subscribe, broadcast | clients that come and go during a broadcast | messages go to subscribers only, dead connections are dropped |
| Latency monitor, tick aggregator, dashboard (`monitor`, `rust`, `dashboard`) | samples; bars and their statistics; trades | record, aggregate, reconnect | windows at their limits | results agree with their definitions |
| Serializer and strategies API (`strategy/serializer.py`, `api/client.py`, `api/routers/strategies.py`) | stored strategies | validate, build, serialize, create, get, flowchart, delete | four places check a strategy, each in its own way, and drop parts of it | the checks agree where they overlap, nothing is lost unnoticed |
| Optimization (`strategy/optimization.py`) | results of the searches | grid, random, walk-forward, genetic search | backtests that fail, fitness 0, ties | a search returns the best it tried |
| Risk budget (`risk/budget.py`) | targets, allocations | set, update, check, trades | separate calls in any order, weights that do not sum to 1 | trades move towards the targets and within the turnover |
| Machine-learning factors (`risk/ml_factors.py`, `api/routers/ml_factors.py`) | registered models, results, files | train, walk forward, predict, delete, save, load | one factor fitted anew in every fold; columns missing in training or later | what is said of a model is true of that model |
| Analytics, risk models, reports, the other API routers, vector store, scripts | statistics, formatting, requests | | floating-point computation, input and output | left aside, see below |

## Plan

| step | modules | abstract specification | runs | proofs | status |
|---|---|---|---|---|---|
| 1 | `OMS`, `OrderTracking` | `OrderTracking`: sent once, filled once, reported after | `OMS_calls`, `LiveEngine_ends` | every invariant, the refinement | done |
| 2 | `LiveEngine`, `LiveEngineProofs` (composes `OMS`) | the OMS itself | `LiveEngine_race`, `LiveEngine_ends` | implements `OMS`, counters, breaker, none forgotten | done |
| 3 | `PaperBroker`, `PaperBrokerProofs` | the trade history as a ledger | `PaperBroker_ledger` | types, cash, ledger | done |
| 4 | `StrategyGraph`, `ConditionHistory`, `StrategyGraphProofs` | none: the graph's own consistency | `Strategy`, `Strategy_crossing` | all its invariants | done |
| 5 | `EventBus`, `StrategyExecutor`, `StrategyExecutorProofs` (nested deliveries, lists that change under a loop) | none: no subscriber missed, each strategy once per bar | `Strategy` | every invariant | done |
| 6 | `BrokerAdapters`, `BrokerAdaptersProofs` (three adapters, connections and streams) | the broker's own book | `Adapters` | every invariant | done |
| 7 | `Backtest`, `Portfolio`, `ClosedPositions`, `Optimizer`, `Indicators`, `IndicatorNode`, `RiskNodes`, `Rebalancing`, put together in `Research`; `ResearchProofs` | the trades as a ledger; the definitions of the indicators | `Research`, `Portfolio_closing` | every invariant | done |
| 8 | `WebSocketHub`, `IndicatorCache`, `MarketData`, `StrategyStore`, `FactorModels`, put together in `Service`; `ServiceProofs` | subscribers only; what the calculation would give | `Service`, `FactorModels_best`, `Store_roundtrip` | every invariant | done |

The order puts first what loses money when it is wrong: orders, then what
creates them, then what they are booked on, then what decides on them.

The latency monitor, the tick aggregator and the dashboard are programs of their own
that the Python system does not call; they were dropped from the plan.

## The models

### OMS.tla and OrderTracking.tla

A managed order is spread over the functions `state`, `history`, `brokerOrderId`,
`result` and `completed`; `index` is `_broker_to_internal` and `stats` is `_stats`.
`call` says what each coroutine waits for, and `book` is the broker's own view.
A call of the OMS is three steps: the coroutine runs to its await (`SubmitCall`,
`CancelCall`, `PollCall`), the broker handles the request and answers
(`Broker...`), and the coroutine resumes (`SubmitReturn`, `SubmitRaise`,
`CancelReturn`, `PollReturn`). Between any two of them other coroutines and the
market (`Advance`) may move. An `OrderResult` is its id, its status and a stamp for
everything else; the code compares whole results, so two with different stamps are
news.

The adapters are assumed to report a status of the order they were asked about.
What the code says of them is kept: they raise only before they talk to the broker,
a failed request comes back as a refusal with an empty id, a cancel is an order's
end (`CancelIsSync`) or only a request, and an answer may get lost
(`LosesAnswers`). What the three adapters report beyond that (a first
partial fill of Interactive Brokers as FILLED, for one) is in `BrokerAdapters`.

`OrderTracking` is what a caller may rely on: an order is sent at most once, and a
fill is reported only after it happened and never taken back.
`ImplementsTracking` states it of `OMS` by a refinement mapping.

What the code does that a reader may not expect: an order whose placement answer
was lost is out of reach for good (`NoOrphanedOrder` says that no other is, and that its
caller was told REJECTED); cancellations learnt by polling are not in `total_cancelled`; a late
answer sets an order back to an older state until it is polled again; and every
poll of a filled order counts a fill when the adapter stamps its answers.

### LiveEngine.tla

`LiveEngine` EXTENDS `OMS` and drives its actions. `loop` is the coroutine that
holds the event loop: a coroutine that has not reached an await keeps it, so that
`create_order` and the first stretch of `submit_order` cannot be separated, as in
the code. `at` is the await a coroutine is suspended at, `left` the actions its
signal still has, `open` the orders it has yet to cancel. Handlers run `_on_signal`,
operators `start`, `stop`, `reset_circuit_breaker` and `switch_mode`, pollers
`update_order_status`.

Handlers are coroutines that somebody awaits, as the tests do
(`tests/unit/test_live.py`); `EventBus.emit` calls a handler and drops the
coroutine it returns. Every order is for a symbol of its own. The limits on
positions and on the daily loss never bind, since nothing writes `_positions` or
`daily_pnl`; `RiskAllows` is what remains of them. Each order is cancelled by two
loops at most per coroutine, and without pollers nothing asks the broker what became of
an order.

What the code does that a reader may not expect: a handler that waits for its quote
places its order after the breaker has tripped, or after `stop`, since both are
looked at before the await only; the loops that cancel open orders leave orders
in state PENDING; and with two operators a `start` that waits in `connect` while the
other one stops and disconnects leaves the engine running without a connection.

### PaperBroker.tla

Money is in whole units, quantities and prices are small numbers, slippage is an
amount and the commission a fraction `RateNum / RateDen` rounded as the model's
comment says. A placement is `PlaceCall`, the quote, and `PlaceRejected` or
`PlaceFilled`; a survey of the positions (`get_positions`, `_update_equity`)
awaits a quote per position, and other coroutines trade in between
(`SurveyCall`, `SurveyQuoted`, `SurveyRaises`). `slots` stands for the insertion order
of the dictionary, without the compaction Python makes now and then. Providers are assumed to suspend at each quote. `reset` may
overtake everything; `overtaken` remembers whether a placement was under way, for
then ids are given twice and the ledger no longer balances. A partial close moves
the entry price of what is left, away from every price that was paid.

### StrategyGraph.tla and ConditionHistory.tla

`kind` is `_nodes`, `connections` the list, `edges` the networkx graph, `is_valid`
and `order` the result of `validate`. `AddNode`, `AddConnection`, `RemoveNode`,
`Validate` and `Execute` are the methods; an execution is one step per node
(`ExecuteDataSource`, `ExecuteIndicator`, `ExecuteCondition`, `ExecuteGate`,
`ExecuteAction`), each with `NodeDone`, the part of the loop around `node.execute`.
The code has no await here, and the model lets nothing come in between; the steps
are there to say what a node sees. The topological sort is external: any order in
which the edges go forward. Prices are small numbers with True as 1 and False as
0, as Python compares them; an indicator is any function `Calculate` of the last
`Period` prices. The cap on an indicator's history is left out, since a history is
cleared before it can reach it.

`ConditionHistory` adds a variable that remembers what each condition compared on
the last two bars, to state what a crossing is.

What the code does that a reader may not expect: a source that fails leaves None,
which an action takes for having no trigger, so it acts (the second case of
`ActionsHaveCause`); indicators of a period above 1 always fall back on the price
and crossings never trigger, because every execution resets every node (run
`Strategy_crossing`); any graph with a `RebalanceNode` or a `TrailingStopNode` raises
in the middle of its execution, since these have no output `action_taken`; and
connections without named ports go from `value` to `data`, which fit no two nodes,
so that the example graph of the repository's README is invalid.

### EventBus.tla and StrategyExecutor.tla

Everything here is synchronous, and yet steps interleave: `emit` calls handlers,
which may call the bus and the executor again before they return. `stack` is the
Python call stack of emissions, handlers and loops over the strategies, and only
code on its top runs (`Outside` is true when that is code of other parts). A list
of handlers is a set of subscriptions with places. `subscribe` changes the list
in place, so an emission under way sees it (`live`); `unsubscribe` puts a new list
into its place, and emissions keep the old one. The two dictionaries of the
executor always have the same keys in the same order (`place`); a loop over one of
them is `Begin`, `ExecuteNext` per strategy and `LoopEnds`, or `LoopRaises` when the
number of keys has changed. The compaction of dictionaries that Python makes
after more insertions than the bound allows is left out.

`StrategyExecutor` EXTENDS `EventBus`; the graph's execution is one step that
raises or yields actions, since no callback runs inside it. `owed`, `done` and
`signalled` are what the model remembers to state its properties.

What the code does that a reader may not expect: a handler of a signal that adds
or removes a strategy makes the loop raise when it goes on, even if it was at its
last strategy, so the remaining ones miss the bar, silently in `_on_bar_close`, since
`emit` catches it; a handler that subscribes itself again is called in the same emission.

### BrokerAdapters.tla

One adapter of a kind chosen at the start. For Alpaca and OANDA a request is a call,
the broker's answer and a return; Interactive Brokers answers from the memory of
`ib_insync`, so only connecting and quotes await. `client` counts the clients that
were made, `closed` are those somebody closed, `streams` the tasks of Alpaca's trade
stream. `book` is the broker's own list of orders with the statuses it uses
natively; `told`, `untrue` and `altered` are what the model remembers: the ids
callers have, what was reported and was not so, and the orders that were not sent
as they were given.

`ReportsAreTrue` is stated up to lists of exceptions, which are worth reading: they
are what a caller of these adapters has to know (`KnownUntrue`, `Unsupported`). A
partial fill of Interactive Brokers is reported as FILLED and an order of it that
is over is not found; done for the day, triggered, inactive and pending cancel count
as final; a placement whose answer is lost is reported as REJECTED, and a query that
fails is answered with nothing; stop-limit orders and times in force are not sent
as given everywhere. `ConnectionIsUsable` holds while calls that change the connection
do not overlap and no close raises (`raced`, `unclean`); when they do, two streams
can run and a closed client can be in use.

### Backtest.tla

`Setup`, `Stop` and `RunCall` may come at any time while a run awaits a history
(`HistoryArrives`, `HistoryRaises`). The last history hands the loop to its run
(`hold`), which goes over the bars without an await: `NextBar`, one `ProcessAction`
per action, `BarEnds`, `Completes` or `BarRaises`. Signals' handlers and the
progress callback are foreign code and may call `Setup` and `Stop` in between.
Quantities count in `1 / Scale`, and divisions round down.

A sell larger than the position deletes it and keeps all of the proceeds: from then
on positions are not what the trades add up to, and `oversold` remembers it. A run
that was stopped or whose setup was replaced goes on and is marked completed;
`RunIsOfItsSetup` is about setups that one run alone has used.

### Portfolio.tla and ClosedPositions.tla

Orders at given prices, price updates and closings. A position keeps its cost instead
of its average. What the code does that a reader may not expect: `close_position`
reads the quantity after it was set to 0, so that the cash gets nothing and no trade
is written; a reversal books the profit of the closed side with its sign turned
round; `update_price` turns the sign of a short position round twice, so that its
loss is reported as profit.

`PortfolioBalances` claims none of this to be right: the cash is claimed until
`close_position` is first called, unrealized profit for long positions only, and what a
position has realized not at all. `ClosedPositions` remembers what the closed positions were
worth and states what "Update cash" in `close_position` intends, `ClosingsArePaid`; run
`Portfolio_closing` refutes it.

### Optimizer.tla

A backtest of a parameter set has a fitness or fails, chosen once for every set
(`fit`), so a run covers every landscape. A search is a record in `search`, one step
per backtest. What the code does that a reader may not expect: a failed individual
has fitness -999, which wins when the optimizer minimises; the tournament takes the
larger fitness in either direction; a fitness of 0 counts as not evaluated; the
walk forward tests on the function it trained on.

### Indicators.tla and IndicatorNode.tla

`Indicators` holds the averages, RSI, MACD, momentum and Bollinger bands over
integer prices, with values as fractions, and the signals each derives.
`IndicatorNode` keeps the last prices, as many as twice its longest period, and
`NodeAgrees` compares it with an indicator that sees all of them. `NoRepaint` says
that a bar changes no earlier signal.

What the code does that a reader may not expect: a node that is not ready answers the
price, MACD answers zeros, and ATR, which needs highs and lows that the node never
has, always the price; a stochastic node is always oversold, as its registry does
not know it; the slope is that of the price; RSI sells once after its warm-up, when
it falls from the 100 of the bars before; a crossing that passes through
equality is missed; and bands of two deviations cannot be left with a period below 6.

### RiskNodes.tla and Rebalancing.tla

`RiskNodes` is one trailing stop, risk, drawdown or threshold node that is executed
and reset. `told` and `asked` hold its answers and inputs since the reset, so that
the properties can compare two bars: a stop that trails the best price, limits that
are monotone in the risk. What the code does that a reader may not expect: in a graph, which
resets on every bar, a trailing stop never exits; a second position inherits the
extreme of the first; a trail of 100 % leaves no stop; profits raise the risk
score like losses; a negative portfolio value skips the cap on volatility and enlarges
sizes, and without a value the ATR is compared with 1; `reduction_factor` is not used;
levels out of order are counted though they are not reached. A limit of 0 makes the code divide by zero.

`Rebalancing` puts `RiskBudget` and `RebalanceNode` side by side, who have the same
targets and weights when they are asked. Allocations of former targets keep
asking for a rebalancing that no trade can cure (`allocations`); the trades of the
budget are scaled to the turnover, the node has no such cap; and a node that was not
triggered keeps its old orders.

### WebSocketHub.tla

An action is what happens between two awaits of an endpoint (`endpoint[w]`) or a
broadcast. A broadcast takes the subscribers when it starts and awaits one send
after the other; `steady` and `ever` remember who was subscribed all the time and
at any time since its event. A client that unsubscribed in between may still get a
message, and a message that cannot be serialised removes every subscriber it reaches.
An endpoint that ends in an error other than a disconnect leaves its connection
registered until a broadcast fails on it.

### IndicatorCache.tla and MarketData.tla

`IndicatorCache` is the cache behind the decorator and the mixin, and the single
entry of `CachedIndicator`. Keys are made of the name and the main series alone, so an
indicator that reads more is answered with another input's result; `CacheAnswersTruly`
excepts these (`all`). `MarketData` is the quote cache, where a time to live of zero
counts as none given, and the provider of local files, which keeps what it has read until
`disconnect` while the file is replaced (`FileChanges`, external). Files may have several
bars of one time, in any order. `Selections` says what a sorted or filtered sequence has
at a position by counting, in the form that the proofs need; `FactorModels` takes
available columns with it too.

### StrategyStore.tla

A configuration goes from a file through the client and the API into the store and a
flowchart, and through the serializer into a graph and back. `ChecksAgree` relates
the four places that check it, `StoreKeepsShape` says what is left of it after it was
posted. What the code does that a reader may not expect: the API drops the ports of
connections, so that a stored graph is valid only when it goes from `value` to `data`;
`serialize_graph` writes no version; an empty type, end or version passes the validation.

`SerializedIsRebuilt` is what the docstring of `serialize_graph` says of its result, that it
"can be used to reconstruct the graph". Run `Store_roundtrip` refutes it: the name of
a category is written where the type of a node is read.

### FactorModels.tla

The models of `ml_factors.py`: what an estimator was given, in which order, and what
it was scored on. A request of the API is one step, since its handlers never await.
`RegistryIsTruthful` relates models, results, files and answers.
Run `FactorModels_best` shows that a walk forward registers the model of the last fold with
the id and the result of the best. Also: importances shift to other columns when listed
columns were missing in training, and a frame that has such a column makes `predict`
raise; two walk forwards of one name and day may overwrite each other; a saved factor
has an id of its own; a score that is not a number wins when it is the first fold's; and
`get_n_splits` announces one fold where no window fits. The feature and target
objects that `docs/api.md` shows for the walk-forward request are not those its schema reads.

### Research.tla and Service.tla

Parts that do not call each other in this program share a run: `part` says which one a
behaviour is of, and the variables of the others stay empty. `Research` has what a
strategy is tried out with, `Service` what serves clients. Their properties are those of
the parts, under `part = ...`. The modules of the parts have their specifications too
(`BacktestSpec`, `HubSpec`, ...), for a run of one of them alone.

## Runs and bounds

| run | instance | shows |
|---|---|---|
| `OMS_calls` | 2 orders, 2 coroutines, cancels are requests, lost answers | safety of the OMS and its refinement of `OrderTracking`: `PlacedAtMostOnce` `FillsAreReal` `IndexFindsOrder` `NoOrphanedOrder` `StatsMatchHistory` `ImplementsTracking` |
| `LiveEngine_race` | 2 orders, 2 handlers, 1 operator, both modes | `CountersAgree` `BreakerTrips` `NoOrderForgotten` |
| `LiveEngine_ends` | 1 order, synchronous cancels, lost answers, fairness; the engine with 1 handler, 1 operator, 1 poller, or the OMS alone with 2 coroutines | `CoroutinesEnd`; `ImplementsOMS`: the engine uses its OMS as specified; `CancelIsFinal`; `FillsAreLearnt`: every fill is learnt for good |
| `Adapters` | each adapter, 2 coroutines; either 1 order of 4 forms, or 2 clients and 2 streams; fairness | `ReportsAreTrue` `NobodyIsUnaware` `ConnectionIsUsable` `StreamReconnects` |
| `PaperBroker_ledger` | 2 symbols, 2 coroutines, 2 orders, capital for one | `CashIsCovered` `LedgerBalances` |
| `Strategy` | executor: 2 strategies, the executor's handler and 2 others, 2 places per list, 4 calls deep; graph: 3 nodes (a source; an indicator, condition or gate; an action or rebalance node), 2 connections, 2 prices and None | `NobodyMisses` `EachOncePerBar` `CountsMatchSignals` `ConnectionsAreEdges` `ValidIsTrue` `InputsAreFresh` `ActionsHaveCause` |
| `Strategy_crossing` | a source and a condition, prices 1 and 2, threshold 1 | a counterexample to `CrossingsAreSeen` |
| `Research` | engine: 2 coroutines, 2 setups, 2 runs, 1 action per bar; portfolio: 2 symbols, 3 trades; optimizer: 4 parameter sets, 2 searches; nodes: 3 prices, 6 bars; guards and weights as in `MCResearch` | `EngineBooksBalance` `EngineRunIsOfItsSetup` `PortfolioBalances` `OptimizerFindsBest` `NodesAgree` `PositionsAreGuarded` `WeightsAreKept` `SignalsStay` |
| `Service` | hub: 2 sockets, 1 event; cache: 2 entries, 4 calls, 3 ticks; data: 2 symbols, 1 new version of a file; store: 1 strategy of any of the configurations of `MCService`; models: 2 models, 2 files, 2 trainings, up to 3 folds | `BroadcastsDeliver` `ConnectionsAreKept` `CacheAnswers` `DataAnswers` `StrategiesTracked` `ModelsAreTold` |
| `FactorModels_best` | 1 request of up to 3 folds | a counterexample to `BestModelIsRegistered` |
| `Portfolio_closing` | 2 symbols, 2 trades, 2 prices | a counterexample to `ClosingsArePaid` |
| `Store_roundtrip` | a source and an indicator, connected or not | a counterexample to `SerializedIsRebuilt` |

Two coroutines and two orders are enough for every race of the OMS, since a step
touches one order and one call; a third coroutine adds interleavings of the same
pairs. The proofs, where there are any, remove the bound.

The four runs with a counterexample check what a comment, a docstring or the README of the
repository says; `findings` in `PROJECT.json` quotes it. With the obvious repair of the line the finding names,
`ClosingsArePaid` and `SerializedIsRebuilt` hold of the same instances.

A behaviour of `LiveEngine_ends` is the engine's, or that of its OMS used alone by callers on
the tasks of the handler and the poller (`alone` in `MCLiveEnds`); one of `Strategy` is the
executor's or the graph's (`part` in `MCStrategy`). A behaviour of `Adapters` either trades, on its first client, or connects again and
streams (`MCNext`): orders do not look at streams, and what a request does on a
client that was closed under it is an error like any other.

Bounds, all of them in guards:

* orders: `MaxCancels` (cancel calls per order), `MaxReports` (no poll once polls
  made this many of one change), `MaxActions` (actions of a signal, of a bar in
  `Backtest`, of an execution in `StrategyExecutor`), `MaxOrders` (paper orders,
  placements through an adapter), `MaxPositions` (a limit of the engine's, which never binds),
  `MaxConnects` and `MaxStreams` (clients and stream tasks). One order shows every
  answer an adapter gives; two clients and two streams show a replacement.
* graph and executor: `MaxConnections` and `MaxAge` (connections of a graph, and how
  far their list grows), `KindsOf` and `UsedInputs` (which nodes and ports are used),
  `MaxPrice`, `MaxPlaces` (handlers of an event), `MaxDepth` (nested calls),
  `MaxSlots` and `MaxCount` (places and counts of the executor), `UsedTypes` (which events
  others subscribe to). A depth of four holds a bar, its loop, a signal and the
  handler that changes what the loop goes over.
* research: `MaxSetups` and `MaxRuns` (of the engine; two overlap), `MaxTrades` (three
  open, turn round and reduce a position), `MaxSearches` (two, so that one finds the
  results of another), `Iterations`, `Population` and `Generations`, `MaxBars` (six are
  more than any node keeps, 4), `WatchBars` (executions since the last reset; the
  trailing stop needs four, for three prices that rise and one that falls).
* service: `MaxEvents` (one event is two broadcasts, of two channels), `MaxTime` (past
  every time to live), `MaxCalls` (fill, overwrite and ask), `MaxVersions`,
  `StrategyIds`, `MaxModels`, `MaxSaved`, `MaxTrainings` (two of each, so that
  one may stand in for the other).

`BreakerEnabled` is TRUE in the runs: without it errors grow without bound. Runs
set `CHECK_DEADLOCK FALSE` where everything has been done when the bounds are used up;
`Strategy` and `Strategy_crossing` check for deadlock. A stack that has reached
`MaxDepth` may have no move left, so `MCStrategy` lets the executor rest there (`AtMaxDepth`).

## Fairness

`MCLiveEnds.CallersFairness`, of the OMS alone: a coroutine whose await is over is resumed and the broker answers
every request (weak fairness, the event loop and the adapters' time-outs). The
caller keeps polling each order it placed and some polls are answered with the
truth, both with strong fairness, since other calls make them impossible in
between; nothing in the OMS polls by itself, so this is what its caller must do.

`LiveEngine.EngineFairness`: asyncio resumes ready coroutines first in, first out,
so one that can go on again and again does (strong fairness on each coroutine);
brokers answer (weak fairness). No fairness is assumed of signals, operators, pollers
or the market.

`BrokerAdapters.AdapterFairness`: the task of a stream goes on when it can, wakes up
after its sleep, and learns that it was cancelled (weak fairness); and the server cannot
refuse every attempt for ever (strong fairness on `StreamOpens`), without which no
client could promise to come back. Nothing is assumed of callers.

The other runs are checked for safety only.

## Proofs

Each proof module holds an inductive invariant, one lemma per action (or per
kind of step), and the theorems.

* `LiveEngineProofs`, first of the OMS alone: `TypeCorrect`, `SubmitsOnce`,
  `FillsHappened`, `IndexIsCorrect`, `NoneOrphaned`, `CancelledIsOver`, `StatsAgree`
  and `OMSImplementsTracking`. The types alone are inductive. For the others the
  invariant says what a call in flight knows: an answer to a placement names the order
  just booked, a status answer reports a broker order of the same managed order, and a
  fill in a result that is on its way is already in the book. For `NoneOrphaned` it adds
  that the answer on its way names the order, or refuses it if the answer was lost
  (`WithinReach`). `StatsAgree` supposes that the orders are finitely many, as it counts them.
* `LiveEngineProofs`, then of the engine: `EngineImplementsOMS` maps every step of the
  engine to a step or a stutter of the OMS, so that `EngineSubmitsOnce` follows from
  `SubmitsOnce`. `CountersNeverDrift`, `BreakerAlwaysTrips` and `NoneForgotten` come from
  `EngineInv`, which adds that a validated order is held by the coroutine that is
  about to submit it, and that this coroutine holds the loop.
* `PaperBrokerProofs`: `PaperTypeCorrect` and `CashNeverOwed`, from the types
  (quantities are never zero, surveys hold a position or none) and the bounds of
  the commission; `LedgerAlwaysBalances`, from the sums over the history, of which a
  step changes one summand.
* `StrategyGraphProofs`: the graph's invariants of run `Strategy`, the types, and `OnlyCollectingRaises`,
  for graphs of any size. `GraphInv` adds that a graph is executed only while it is valid, that a
  node that completed has set its outputs, and that the nodes before the present
  one are no longer idle. The last two are why an action is not taken for want of a
  value: its source has executed, and either set its output or failed.
* `StrategyExecutorProofs`: `CountsAreOfSignals`, `NobodyIsMissed`, `EachIsExecutedOnce`,
  for any depth of the stack. The first does not speak of the stack: whoever calls
  whom, only the methods touch the counts. The others are invariants of every frame of
  the stack: an emission has every handler it owes still ahead in the list it walks; a loop
  has the strategies it owes active and ahead of it, and those it executed behind it; and no
  two strategies share a place.
* `BrokerAdaptersProofs`: `FinalReportsHold`, `NoOrderIsLost`, `ConnectedMeansUsable`, of
  the full `AdapterSpec`; the run restricts behaviours by `MCNext`, the proof does not.
  `TradeInv` says what a pending call knows of the broker's book: an order that was
  booked is being placed, was told, or was reported REJECTED, and a status that was
  answered was true then. For the connection, one coroutine changes it at a time unless `raced` says
  otherwise, and an open client is either in use or in the hands of the one who made it.
* `ResearchProofs`: one invariant per part, each of which only has to survive the steps of
  its part. `EngineKeepsItsBooks` and `RunsAreOfTheirSetup` need that a run which holds the loop
  has all it needs, and that what it has recorded so far is what it has gone over so far.
  `PortfolioAlwaysBalances` names, for every position, the trade that opened it or turned it
  round; a step keeps that trade or becomes it. `RebalancingKeepsItsLimits` and
  `PositionsStayGuarded` are mostly about rounding: a quotient of whole numbers
  keeps the order and the sign. `SearchesFindTheBest` says what a search knows of the first
  parameter sets it tried, and that the first of a generation is the best seen so far.
  `SignalsNeverChange` is an action property: two series of which one is a bar longer give
  the same averages, ratios, bands and crossings on the bars they share. What an average is
  made of is first shown by the smallest bar at which it could fail to be defined,
  then that two agree by the smallest at which they could differ.
  `NodesAlwaysAgree` adds to the prices of a node that what it keeps is the last `Cap` of all
  it was given and that its outputs are calculated on them (`NodeKeeps`), which `NodeAgrees`
  alone would not preserve. Fractions are compared as numbers of parts of a common
  denominator. The averages of an EMA over all bars and over the last ones start no further
  apart than the highest price is from the lowest, and every bar they share takes
  the distance times (p - 1) / (p + 1); the line of MACD adds two such errors. The sum of a window
  is moved along the series, and the smoothed losses of RSI are zero exactly while no price
  has fallen.
* `ServiceProofs`: `BroadcastsReach`, `HubKnowsItsSockets`, `CachesAnswerTruly`,
  `StrategiesStayWhatTheyAre`, `DataIsServedTruly` and `ModelsAreAsTold`, in the same manner,
  for any number of sockets, events, entries, ticks, strategies, bars, rows and folds. The
  last two rest on lemmas about sorting, selecting and the best of a list of scores, by
  counting and by smallest counterexamples. `DataInv` adds that what was read is in order and
  not newer than its file; `FactorInv` that a model and the result of its id come from
  the same columns, and that what a factor uses are those of its columns that some data had.
* `FiniteSums` has the lemmas about sums over finite sets and about ranks that the
  ledgers and the counts rest on. Induction over a set is done by its smallest
  counterexample, since the induction theorems of the library cannot be used here.

Assumptions are the ASSUMEs of the modules: sets that do not overlap, bounds that
are numbers, a finite set of node ids and of instruments, a commission rate up to 1,
positive prices and lots, indicator periods of at least one day (two for RSI, momentum and
bands, and a MACD whose first is shorter than its second), limits and weights that are
not negative, histories with
finitely many days, a finite grid of parameters, training windows of at least one
day (with none, a walk forward would test on what it did not train before), bars at times
that are natural numbers, and scores that are numbers, but for the one that compares with
none.

Attempts that failed told something about the models. The sizes of `RiskNodes` were
written as a CASE whose conditions overlap at a boundary, where TLC takes the first and a
proof may take any; they are exclusive now. A walk forward with training windows of no
days breaks `SearchFindsBest`, and the assumption excludes it. The sums of `Portfolio` and the
walk's search of the grid are defined by functions instead of operators with a parameter,
since those cannot be reasoned about here. For the same reason the indicators sum with
`SumFunction` and have powers of their own (`Power`), as the provers know nothing of `^`.

The type invariants (`TypeOK`, `EngineTypeOK`, `PaperTypeOK`, `GraphTypeOK`) are
proved and belong to no run.

Every invariant and action property that a passing run checks is a theorem. Model-checked
only: liveness (`FillsAreLearnt`, `CoroutinesEnd`, `StreamReconnects`), which like ENABLED
is out of the prover's reach, and the four runs that end in counterexamples.

## What is not modelled

* Of the adapters: the numbers in accounts, positions, quotes and candles, symbol and
  contract mapping, and `stream_ticks`: conversions between formats.
* `MultiDataSourceNode` and `DataFilterNode`; indicators that need highs and lows (ATR,
  stochastic, ADX and others).
* Display fields of paper positions; `connect` and `disconnect` of the paper broker,
  which set a flag that nothing here reads; `get_allocation` and `get_stats` of the
  portfolio, summaries of the risk budget, `RiskParityAllocator` and
  `analyze_parameter_importance`, which only compute.
* Delivery of signals to the live engine through the bus: `emit` calls `_on_signal`,
  which is a coroutine function, and drops the coroutine it returns, so a signal that
  is emitted has no effect. The model begins where somebody awaits the handler.
* Floating-point rounding, everywhere: amounts are whole numbers or fractions.
* Backtest analytics, risk factors, simulation and stress tests: numerical code
  without state. Engine and portfolio give their trades no `realized_pnl`, so that the analytics
  that read it count no winners.
* The catalog of node types, request schemas, the routers that only format (editor,
  portfolio, risk, health), and the backtest router, which records requests and answers
  placeholders; reports, charts, the vector store and language-model tools, monitoring,
  configuration, deployment files.
* The latency monitor (Go), the tick aggregator (Rust), the dashboard and the static editor:
  programs of their own.
