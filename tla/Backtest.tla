------------------------------ MODULE Backtest ------------------------------
(***************************************************************************)
(* The backtest engine (src/ist/backtest/engine.py): setups, runs and      *)
(* stops that interleave while histories are awaited, and the books of the *)
(* run that holds the event loop.                                          *)
(*                                                                         *)
(* A run awaits one history per symbol.  After the last one it goes over   *)
(* all bars without an await, and calls foreign code twice per bar: the    *)
(* handlers of the executor's signals and the progress callback.  Money    *)
(* and quantities are integers: quantities count in 1/Scale, divisions     *)
(* round down.  Average entries and unrealized profits, which nothing in   *)
(* the engine reads, are left out.                                         *)
(***************************************************************************)
EXTENDS Integers, Sequences, FiniteSets, SequencesExt, Functions

CONSTANTS
  Symbols, Tasks,
  NoTask,           \* nobody holds the loop
  Histories,        \* what the provider may return: functions from times to closes
  TicksPerDay,      \* time t lies on the day t \div TicksPerDay
  Capitals,         \* initial_capital
  Sizes, SizeDen,   \* size_pct is one of Sizes, over SizeDen
  Slip, SlipDen,    \* slippage_amount is Slip / SlipDen
  Rate, RateDen,    \* commission_rate is Rate / RateDen
  Scale,
  MaxSetups, MaxRuns, MaxActions \* bounds: setups, runs, and actions per bar

ASSUME BacktestAssumption ==
  /\ IsFiniteSet(Symbols) /\ NoTask \notin Tasks
  /\ TicksPerDay \in Nat \ {0} /\ Capitals \subseteq Nat \ {0}
  /\ \A f \in Histories : DOMAIN f \subseteq Nat /\ IsFiniteSet(DOMAIN f)
                         /\ \A t \in DOMAIN f : f[t] \in Nat \ {0}
  /\ Sizes \subseteq Nat \ {0} /\ SizeDen \in Nat \ {0}
  /\ Slip \in Nat /\ SlipDen \in Nat /\ Slip < SlipDen
  /\ Rate \in Nat /\ RateDen \in Nat \ {0} /\ Scale \in Nat \ {0}
  /\ MaxSetups \in Nat /\ MaxRuns \in Nat /\ MaxActions \in Nat

VARIABLES
  status, error,           \* _status; whether _error_message is set
  config,                  \* config and _backtest_id
  cash, equity, positions, \* state: the books
  trades, daily,           \* state.trades, state.daily_returns
  peak, drawdown,          \* state.peak_equity; state.max_drawdown in percent
  now,                     \* state.timestamp
  feed, index,             \* event_loop._bar_data, _current_index
  bars,                    \* the bars of the present time, local to run
  run,                     \* what each coroutine waits for
  hold,                    \* the coroutine that goes over the bars, where it is
  started,                 \* how many runs there were
  use,                     \* what became of the present setup
  oversold, marked         \* an action exceeded its position; equity is up to date

books == <<cash, equity, positions, trades, daily, peak, drawdown, now>>
backtestVars == <<status, error, config, books, feed, index, bars, run, hold, started,
                  use, oversold, marked>>

Sides == {"buy", "sell"}
Nothing == [k \in {} |-> k] \* an empty dictionary
NoConfig == [id |-> 0, symbols |-> <<>>, capital |-> 0]
Idle == [at |-> "idle"]
Free == [task |-> NoTask, at |-> "none", actions |-> 0]

\* The times in ascending order, and how many they are
TimeAt(i) == CHOOSE t \in DOMAIN feed : Cardinality({u \in DOMAIN feed : u < t}) = i - 1
BarCount == Cardinality(DOMAIN feed)
Date(t) == t \div TicksPerDay
Held(s) == IF s \in DOMAIN positions THEN positions[s] ELSE 0
\* Foreign code runs: nobody holds the loop, or its holder has called it.
Outside == hold.at \in {"none", "signals", "progress"}

-----------------------------------------------------------------------------
(* setup, stop and run up to the last history.                             *)

Setup ==
  /\ Outside /\ config.id < MaxSetups
  /\ \E symbols \in {SetToSeq(S) : S \in (SUBSET Symbols) \ {{}}}, capital \in Capitals :
       /\ config' = [id |-> config.id + 1, symbols |-> symbols, capital |-> capital]
       /\ cash' = capital /\ equity' = capital /\ peak' = capital
  /\ positions' = Nothing /\ trades' = <<>> /\ daily' = <<>>
  /\ drawdown' = 0 /\ now' = 0
  /\ status' = "configured"
  /\ use' = IF \A t \in Tasks : run[t] = Idle THEN "unused" ELSE "mixed"
  /\ oversold' = FALSE /\ marked' = FALSE
  /\ UNCHANGED <<error, feed, index, bars, run, hold, started>>

\* It only writes the status; a run that is under way goes on.
Stop ==
  /\ Outside
  /\ status' = "stopped"
  /\ UNCHANGED <<error, config, books, feed, index, bars, run, hold, started, use,
                 oversold, marked>>

RunCall(t) ==
  /\ run[t] = Idle /\ hold = Free
  /\ config # NoConfig
  /\ started < MaxRuns
  /\ started' = started + 1
  /\ status' = "running"
  /\ run' = [run EXCEPT ![t] = [at |-> "loading", left |-> config.symbols, got |-> Nothing]]
  /\ use' = IF use = "unused" THEN "one" ELSE "mixed"
  /\ UNCHANGED <<error, config, books, feed, index, bars, hold, oversold, marked>>

\* all_bars with the bars of one more symbol
WithHistory(all, s, history) ==
  [t \in DOMAIN all \cup DOMAIN history |->
     LET before == IF t \in DOMAIN all THEN all[t] ELSE Nothing IN
     [x \in DOMAIN before \cup (IF t \in DOMAIN history THEN {s} ELSE {}) |->
        IF x = s THEN history[t] ELSE before[x]]]

\* Mutant: the loop goes on where the run before it has ended.
HistoryArrives_NoReset(t) ==
  /\ run[t].at = "loading" /\ hold = Free
  /\ \E history \in Histories :
       LET got == WithHistory(run[t].got, Head(run[t].left), history)
           left == Tail(run[t].left)
       IN
       /\ run' = [run EXCEPT ![t] = [at |-> "loading", left |-> left, got |-> got]]
       /\ IF left = <<>>
            THEN /\ feed' = got
                 /\ hold' = [task |-> t, at |-> "next", actions |-> 0]
            ELSE UNCHANGED <<feed, hold>>
  /\ UNCHANGED <<status, error, config, books, index, bars, started, use, oversold, marked>>

HistoryArrives(t) ==
  /\ run[t].at = "loading" /\ hold = Free
  /\ \E history \in Histories :
       LET got == WithHistory(run[t].got, Head(run[t].left), history)
           left == Tail(run[t].left)
       IN
       /\ run' = [run EXCEPT ![t] = [at |-> "loading", left |-> left, got |-> got]]
       /\ IF left = <<>>
            THEN /\ feed' = got /\ index' = 0
                 /\ hold' = [task |-> t, at |-> "next", actions |-> 0]
            ELSE UNCHANGED <<feed, index, hold>>
  /\ UNCHANGED <<status, error, config, books, bars, started, use, oversold, marked>>

-----------------------------------------------------------------------------
(* The loop over the bars.                                                 *)

NextBar ==
  /\ hold.at \in {"next", "progress"}
  /\ index < BarCount
  /\ index' = index + 1
  /\ now' = TimeAt(index')
  /\ bars' = feed[now']
  /\ hold' = [hold EXCEPT !.at = "signals", !.actions = 0]
  /\ marked' = FALSE
  /\ UNCHANGED <<status, error, config, cash, equity, positions, trades, daily, peak, drawdown,
                 feed, run, started, use, oversold>>

FillPrice(side, close) == close * (IF side = "buy" THEN SlipDen + Slip ELSE SlipDen - Slip)
Quantity(value, side, close) == (value * Scale * SlipDen) \div FillPrice(side, close)

\* Mutant: the cash moves for a symbol without a bar as well.
ProcessAction_NoBar ==
  /\ hold.at \in {"signals", "actions"} /\ hold.actions < MaxActions
  /\ \E s \in Symbols, side \in Sides, size \in Sizes :
       LET value == (equity * size) \div SizeDen
           commission == (value * Rate) \div RateDen
       IN
       /\ cash' = IF side = "buy" THEN cash - (value + commission) ELSE cash + (value - commission)
       /\ IF s \notin DOMAIN bars
            THEN UNCHANGED <<positions, trades, oversold>>
            ELSE LET quantity == Quantity(value, side, bars[s])
                     q == Held(s) + (IF side = "buy" THEN quantity ELSE -quantity)
                 IN
                 /\ positions' = IF side = "sell" /\ q <= 0
                                   THEN Restrict(positions, DOMAIN positions \ {s})
                                   ELSE [x \in DOMAIN positions \cup {s} |-> IF x = s THEN q ELSE positions[x]]
                 /\ oversold' = (oversold \/ q < 0)
                 /\ trades' = Append(trades, [symbol |-> s, side |-> side, quantity |-> quantity,
                                              value |-> value, commission |-> commission])
  /\ marked' = FALSE
  /\ hold' = [hold EXCEPT !.at = "actions", !.actions = @ + 1]
  /\ UNCHANGED <<status, error, config, equity, daily, peak, drawdown, now, feed, index, bars,
                 run, started, use>>

\* An action on a symbol without a bar is dropped.  A sell is not limited by the
\* position: one that takes all of it, or more, closes it.
ProcessAction ==
  /\ hold.at \in {"signals", "actions"} /\ hold.actions < MaxActions
  /\ \E s \in DOMAIN bars, side \in Sides, size \in Sizes :
       LET value == (equity * size) \div SizeDen
           quantity == Quantity(value, side, bars[s])
           commission == (value * Rate) \div RateDen
           q == Held(s) + (IF side = "buy" THEN quantity ELSE -quantity)
       IN
       /\ cash' = IF side = "buy" THEN cash - (value + commission) ELSE cash + (value - commission)
       /\ positions' = IF side = "sell" /\ q <= 0
                         THEN Restrict(positions, DOMAIN positions \ {s})
                         ELSE [x \in DOMAIN positions \cup {s} |-> IF x = s THEN q ELSE positions[x]]
       /\ oversold' = (oversold \/ q < 0)
       /\ trades' = Append(trades, [symbol |-> s, side |-> side, quantity |-> quantity,
                                    value |-> value, commission |-> commission])
  /\ marked' = FALSE
  /\ hold' = [hold EXCEPT !.at = "actions", !.actions = @ + 1]
  /\ UNCHANGED <<status, error, config, equity, daily, peak, drawdown, now, feed, index, bars,
                 run, started, use>>

\* What a quantity is worth at a price
Worth(q, price) == (q * price) \div Scale

\* _update_portfolio_value and _track_daily_return.  A position without a bar
\* counts for nothing.
BarEnds ==
  /\ hold.at \in {"signals", "actions"}
  /\ equity' = cash + SumFunction([s \in DOMAIN positions \cap DOMAIN bars |->
                                  Worth(positions[s], bars[s])])
  /\ peak' = IF equity' > peak THEN equity' ELSE peak
  /\ drawdown' = LET current == ((peak' - equity') * 100) \div peak' IN
                 IF current > drawdown THEN current ELSE drawdown
  /\ daily' = IF daily # <<>> /\ Last(daily).date = Date(now) THEN daily
              ELSE Append(daily, [date |-> Date(now), equity |-> equity'])
  /\ hold' = [hold EXCEPT !.at = "progress"]
  /\ marked' = TRUE
  /\ UNCHANGED <<status, error, config, cash, positions, trades, now, feed, index, bars, run,
                 started, use, oversold>>

Ends(outcome) ==
  /\ status' = outcome
  /\ error' = (error \/ outcome = "failed")
  /\ run' = [run EXCEPT ![hold.task] = Idle]
  /\ hold' = Free
  /\ UNCHANGED <<config, books, feed, index, bars, started, use, oversold, marked>>

\* The returns of the results divide by each day's equity but the last.
Completes ==
  /\ hold.at \in {"next", "progress"}
  /\ index >= BarCount
  /\ Ends(IF \E i \in 1..Len(daily) - 1 : daily[i].equity = 0 THEN "failed" ELSE "completed")

\* The executor or the progress callback raises.
BarRaises ==
  /\ hold.at \in {"signals", "progress"}
  /\ Ends("failed")

\* The provider raises.
HistoryRaises(t) ==
  /\ run[t].at = "loading" /\ hold = Free
  /\ status' = "failed" /\ error' = TRUE
  /\ run' = [run EXCEPT ![t] = Idle]
  /\ UNCHANGED <<config, books, feed, index, bars, hold, started, use, oversold, marked>>

-----------------------------------------------------------------------------

BacktestInit ==
  /\ status = "idle" /\ error = FALSE /\ config = NoConfig
  /\ cash = 0 /\ equity = 0 /\ positions = Nothing
  /\ trades = <<>> /\ daily = <<>> /\ peak = 0 /\ drawdown = 0 /\ now = 0
  /\ feed = Nothing /\ index = 0 /\ bars = Nothing
  /\ run = [t \in Tasks |-> Idle] /\ hold = Free /\ started = 0
  /\ use = "unused" /\ oversold = FALSE /\ marked = FALSE

BacktestNext ==
  \/ Setup \/ Stop
  \/ NextBar \/ ProcessAction \/ BarEnds \/ Completes \/ BarRaises
  \/ \E t \in Tasks : RunCall(t) \/ HistoryArrives(t) \/ HistoryRaises(t)

BacktestSpec == BacktestInit /\ [][BacktestNext]_backtestVars

-----------------------------------------------------------------------------
(* Properties                                                              *)

Flow(trade) ==
  (IF trade.side = "buy" THEN -trade.value ELSE trade.value) - trade.commission
SignedQuantity(trade) == IF trade.side = "buy" THEN trade.quantity ELSE -trade.quantity
TradesOf(s) == {i \in DOMAIN trades : trades[i].symbol = s}
Traded(s) == SumFunctionOnSet([i \in DOMAIN trades |-> SignedQuantity(trades[i])], TradesOf(s))
Invested == config.capital + SumFunction([i \in DOMAIN trades |-> Flow(trades[i])])

\* The cash is the capital and what every recorded trade moved, whatever was
\* set up or stopped in between.  Unless a sell took more than there was, the
\* positions are what the trades add up to, and after a bar the equity is what
\* they are worth at its closes, where each of them has one
\* (_process_action, _update_portfolio_value).
BooksBalance ==
  /\ cash = Invested
  /\ oversold \/ \A s \in Symbols : Held(s) = Traded(s) /\ Held(s) >= 0
  /\ (marked /\ ~oversold /\ DOMAIN positions \subseteq DOMAIN bars) =>
       equity = Invested + SumFunction([s \in DOMAIN bars |-> Worth(Traded(s), bars[s])])
  /\ peak >= equity \/ ~marked

\* When one run alone has used a setup, its books are that setup's: it trades the
\* symbols of its configuration, its equity curve has one value for each day, in
\* order, and it has completed only when it has gone over every bar it was given.
\* A second run on one setup, or a setup under a run, mixes them (run, setup).
RunIsOfItsSetup ==
  use = "one" =>
    /\ \A i \in DOMAIN trades : trades[i].symbol \in ToSet(config.symbols)
    /\ \A i \in DOMAIN daily : \A j \in 1..i - 1 : daily[j].date < daily[i].date
    /\ \A i \in DOMAIN daily : daily[i].equity <= peak
    /\ (status = "completed" /\ hold = Free) =>
         /\ index = BarCount
         /\ {daily[i].date : i \in DOMAIN daily} = {Date(t) : t \in DOMAIN feed}
    /\ (\A t \in Tasks : run[t] = Idle) => status \in {"completed", "failed", "stopped"}
=============================================================================
