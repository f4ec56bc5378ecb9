---------------------------- MODULE IndicatorNode ----------------------------
(***************************************************************************)
(* A node of the strategy graph that keeps the prices it was given and     *)
(* has an indicator calculate on them                                      *)
(* (src/ist/strategy/nodes/indicator_nodes.py).                            *)
(*                                                                         *)
(* One execution is one bar.  The node is given one kind of indicator for  *)
(* good; "STOCH" and "Momentum" are names its registry does not know.      *)
(***************************************************************************)
EXTENDS Indicators

CONSTANTS
  Prices,
  MaxBars          \* bound: bars since the last reset

ASSUME IndicatorAssumption ==
  /\ DOMAIN IndicatorPeriods = Kinds \cup {"STOCH"}
  /\ \A kind \in DOMAIN IndicatorPeriods : IndicatorPeriods[kind] \in [1..3 -> Nat \ {0}]
  /\ IndicatorPeriods["MACD"][1] < IndicatorPeriods["MACD"][2]
  /\ \A kind \in {"RSI", "Momentum", "BollingerBands"} : Period(kind) >= 2
  /\ Multiplier \in Nat \ {0} /\ Oversold < Overbought
  /\ Prices \subseteq Nat \ {0} /\ MaxBars \in Nat

VARIABLES
  indicator,       \* self.indicator
  history,         \* _history
  outputs,         \* the values of the output ports
  seen             \* every price since the last reset, however many

nodeVars == <<indicator, history, outputs, seen>>

Registry == {"SMA", "EMA", "RSI", "MACD", "ATR", "BollingerBands"}

\* Twice the longest of the three periods, whether the indicator uses them or not
Cap == 2 * Max({IndicatorPeriods[indicator][j] : j \in 1..3})

\* Mutant: the history is as long as the longest period.
Kept_OnePeriod(prices) ==
  SubSeq(prices, Max({1, Len(prices) - Cap \div 2 + 1}), Len(prices))
Kept(prices) == SubSeq(prices, Max({1, Len(prices) - Cap + 1}), Len(prices))

\* validate_input refuses a short history, and ATR any series without highs and lows.
Ready(prices) == indicator # "ATR" /\ Len(prices) >= Required(indicator)

\* The last value of the calculation; the price when the indicator raises, zero when
\* the node has none.
Calculated(prices) ==
  CASE indicator \notin Registry -> Whole(0)
    [] indicator \in Registry /\ ~Ready(prices) -> Whole(Last(prices))
    [] indicator \in {"SMA", "BollingerBands"} /\ Ready(prices) ->
         Last(SMA(prices, Period(indicator)))
    [] indicator = "EMA" /\ Ready(prices) -> Last(EMA(Wholes(prices), Period(indicator)))
    [] indicator = "RSI" /\ Ready(prices) -> Last(RSI(prices, Period(indicator)))

\* The fallback of MACD has none of its ports, which then are zero.
CalculatedMACD(prices) ==
  IF ~Ready(prices) THEN [macd |-> Whole(0), signal |-> Whole(0), histogram |-> Whole(0)]
  ELSE LET ps == IndicatorPeriods["MACD"]
           line == MACDLine(prices, ps[1], ps[2])
           signal == Last(EMA(line, ps[3]))
       IN [macd |-> Last(line), signal |-> signal, histogram |-> Minus(Last(line), signal)]

\* The slope is that of the price, in percent of the price before.
Slope(prices) ==
  IF Len(prices) < 2 THEN Whole(0)
  ELSE LET before == prices[Len(prices) - 1]
       IN [n |-> 100 * (Last(prices) - before), d |-> before]

Outputs(prices) ==
  IF indicator = "MACD" THEN CalculatedMACD(prices)
  ELSE LET value == Calculated(prices) IN
       IF indicator \in {"RSI", "STOCH"}
         THEN [value |-> value,
               overbought |-> Below(Whole(70), value), oversold |-> Below(value, Whole(30))]
         ELSE [value |-> value, slope |-> Slope(prices)]

-----------------------------------------------------------------------------
Bar(price) ==
  /\ Len(seen) < MaxBars
  /\ history' = Kept(Append(history, price))
  /\ outputs' = Outputs(history')
  /\ seen' = Append(seen, price)
  /\ UNCHANGED indicator

NodeReset ==
  /\ history' = <<>> /\ seen' = <<>> /\ outputs' = {}
  /\ UNCHANGED indicator

NodeInit ==
  /\ indicator \in DOMAIN IndicatorPeriods
  /\ history = <<>> /\ seen = <<>> /\ outputs = {}

NodeNext == NodeReset \/ \E price \in Prices : Bar(price)

NodeSpec == NodeInit /\ [][NodeNext]_nodeVars

-----------------------------------------------------------------------------
Spread == Max(ToSet(seen)) - Min(ToSet(seen))
Distance(a, b) == LET d == Minus(a, b) IN [d EXCEPT !.n = IF @ < 0 THEN -@ ELSE @]

\* How far an EMA over the kept prices can be from one over all of them: the oldest
\* price kept stands for the average of those that were dropped.
Forgotten(p) ==
  IF Len(seen) <= Cap THEN Whole(0)
  ELSE [n |-> Power(p - 1, Cap - 1) * Spread, d |-> Power(p + 1, Cap - 1)]

\* Once there are bars enough, the node agrees with an indicator that sees every bar
\* since the reset, although it keeps only the last ones: exactly when it averages a
\* window, and an EMA or MACD within what the dropped prices can weigh.  RSI is between
\* 0 and 100, is 100 exactly when no kept price is below the one before it, and is
\* exact while nothing was dropped (IndicatorNode.execute, its cap on the history).
NodeAgrees ==
  LET k == Len(seen)
      p == Period(indicator)
      ps == IndicatorPeriods[indicator]
  IN
  (indicator \in Registry \ {"ATR"} /\ k >= Required(indicator)) =>
    CASE indicator \in {"SMA", "BollingerBands"} ->
           outputs.value.n * p = outputs.value.d * SumFunctionOnSet(seen, k - p + 1..k)
      [] indicator = "EMA" ->
           ~Below(Forgotten(p), Distance(outputs.value, EMA(Wholes(seen), p)[k]))
      [] indicator = "MACD" ->
           /\ Same(outputs.histogram, Minus(outputs.macd, outputs.signal))
           /\ ~Below(Plus(Forgotten(ps[1]), Forgotten(ps[2])),
                     Distance(outputs.macd, MACDLine(seen, ps[1], ps[2])[k]))
      [] indicator = "RSI" ->
           /\ ~Below(outputs.value, Whole(0)) /\ ~Below(Whole(100), outputs.value)
           /\ Same(outputs.value, Whole(100)) <=>
                \A i \in Max({2, k - Cap + 2})..k : seen[i - 1] <= seen[i]
           /\ k <= Cap => Same(outputs.value, RSI(seen, p)[k])

\* A bar adds a signal and changes none of those before it: nothing that a backtest over
\* a whole series would trade on was unknown at its bar (the _generate_signals methods).
NoRepaint ==
  [][(indicator \in Kinds /\ Required(indicator) <= Len(seen) /\ seen' # <<>>)
       => IsPrefix(Signals(indicator, seen), Signals(indicator, seen'))]_nodeVars
=============================================================================
