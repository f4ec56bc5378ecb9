----------------------------- MODULE Indicators -----------------------------
(***************************************************************************)
(* The technical indicators (src/ist/strategy/indicators): what each of    *)
(* them makes of a series of closes, and the signals it derives.           *)
(*                                                                         *)
(* A series is a sequence; the values are fractions [n, d] with d above 0, *)
(* so that nothing is rounded.  Prices are positive integers.              *)
(***************************************************************************)
EXTENDS Integers, Sequences, FiniteSetsExt, SequencesExt

CONSTANTS
  IndicatorPeriods,                \* per indicator: period, period2, period3
  Multiplier,             \* of the Bollinger bands
  Overbought, Oversold    \* thresholds of RSI

-----------------------------------------------------------------------------
(* Fractions                                                               *)

Whole(k) == [n |-> k, d |-> 1]
\* A common denominator: the larger one where it will do
Common(a, b) == IF a.d % b.d = 0 THEN a.d ELSE IF b.d % a.d = 0 THEN b.d ELSE a.d * b.d
Over(a, d) == a.n * (d \div a.d)
Plus(a, b) == LET d == Common(a, b) IN [n |-> Over(a, d) + Over(b, d), d |-> d]
Scaled(a, k) == [a EXCEPT !.n = k * @]
Minus(a, b) == Plus(a, Scaled(b, -1))
Below(a, b) == LET d == Common(a, b) IN Over(a, d) < Over(b, d)
Same(a, b) == ~Below(a, b) /\ ~Below(b, a)

Power(b, k) == LET power[i \in 0..k] == IF i = 0 THEN 1 ELSE b * power[i - 1] IN power[k]

-----------------------------------------------------------------------------
(* The values                                                              *)

Period(kind) == IndicatorPeriods[kind][1]
Wholes(close) == [i \in DOMAIN close |-> Whole(close[i])]
Squares(s) == [i \in DOMAIN s |-> s[i] * s[i]]

\* rolling(window, min_periods=1): a window that grows at first
Rolling(close, p, i) == SubSeq(close, Max({1, i - p + 1}), i)
Mean(window) == [n |-> SumFunction(window), d |-> Len(window)]
SMA(close, p) == [i \in DOMAIN close |-> Mean(Rolling(close, p, i))]

\* ewm(alpha=2/(p+1), adjust=False).mean() of a series of fractions
EMA(series, p) ==
  LET e[i \in DOMAIN series] ==
        IF i = 1 THEN series[1]
        ELSE LET sum == Plus(Scaled(series[i], 2), Scaled(e[i - 1], p - 1))
             IN [sum EXCEPT !.d = @ * (p + 1)]
  IN e

MACDLine(close, fast, slow) ==
  LET f == EMA(Wholes(close), fast)
      s == EMA(Wholes(close), slow)
  IN [i \in DOMAIN close |-> Minus(f[i], s[i])]

\* Wilder's smoothing of the gains and of the losses; only their ratio matters, so
\* neither is divided by the sum of the weights.  The sums are scaled by p^i.
Smoothed(changes, p) ==
  LET s[i \in 0..Len(changes)] ==
        IF i = 0 THEN 0 ELSE Power(p, i) * changes[i] + (p - 1) * s[i - 1]
  IN s

\* A value that is not defined, for want of bars or because no price has changed,
\* is filled with 100.
RSI(close, p) ==
  LET Change(sign) ==
        [i \in 1..Len(close) - 1 |-> Max({0, sign * (close[i + 1] - close[i])})]
      gains == Smoothed(Change(1), p)
      losses == Smoothed(Change(-1), p)
  IN [i \in DOMAIN close |->
        LET g == gains[i - 1]  l == losses[i - 1]
        IN IF i <= p \/ g + l = 0 THEN Whole(100) ELSE [n |-> 100 * g, d |-> g + l]]

\* use_percentage: the first p values are not defined.
MomentumSide(close, p, i) ==
  IF i <= p \/ close[i] = close[i - p] THEN 0 ELSE IF close[i] > close[i - p] THEN 1 ELSE -1

\* Where a price lies among the bands: at or above the upper one, at or below the
\* lower one, between them, or nowhere when the bands meet.  The deviation is that of
\* a sample, compared by its square.
Band(close, p, i) ==
  LET w == Rolling(close, p, i)
      k == Len(w)
      off == k * close[i] - SumFunction(w)
      spread == k * SumFunction(Squares(w)) - SumFunction(w) * SumFunction(w)
      outside == off * off * (k - 1) >= Multiplier * Multiplier * k * spread
  IN IF spread = 0 THEN "none"
     ELSE IF outside /\ off > 0 THEN "upper"
     ELSE IF outside /\ off < 0 THEN "lower" ELSE "within"

-----------------------------------------------------------------------------
(* The signals: 1 buy, -1 sell, 0 hold                                     *)

\* Mutant: shift(-1) in place of shift(1).
Crossing_Ahead(sides) ==
  [i \in DOMAIN sides |->
     IF i < Len(sides) /\ sides[i] * sides[i + 1] = -1 THEN sides[i] ELSE 0]

\* A side crossed since the bar before: from below to above, or the other way.
Crossing(sides) ==
  [i \in DOMAIN sides |-> IF i > 1 /\ sides[i] * sides[i - 1] = -1 THEN sides[i] ELSE 0]

SideOf(a, b) == IF Below(b, a) THEN 1 ELSE IF Below(a, b) THEN -1 ELSE 0
SidesOf(a, b) == [i \in DOMAIN a |-> SideOf(a[i], b[i])]

SMASignals(close, p) == Crossing(SidesOf(Wholes(close), SMA(close, p)))
EMASignals(close, p) == Crossing(SidesOf(Wholes(close), EMA(Wholes(close), p)))
MACDSignals(close, ps) ==
  LET line == MACDLine(close, ps[1], ps[2]) IN Crossing(SidesOf(line, EMA(line, ps[3])))
MomentumSignals(close, p) == Crossing([i \in DOMAIN close |-> MomentumSide(close, p, i)])

\* Leaving a zone; the value of the first p bars is 100 and lies in the upper one.
RSISignals(close, p) ==
  LET rsi == RSI(close, p)
      High(i) == ~Below(rsi[i], Whole(Overbought))
      Low(i) == ~Below(Whole(Oversold), rsi[i])
  IN [i \in DOMAIN close |->
        IF i = 1 THEN 0
        ELSE IF High(i - 1) /\ ~High(i) THEN -1 ELSE IF Low(i - 1) /\ ~Low(i) THEN 1 ELSE 0]

\* Reaching a band from the other side of it; nothing follows a bar without bands.
BandSignals(close, p) ==
  [i \in DOMAIN close |->
     IF i = 1 THEN 0
     ELSE LET before == Band(close, p, i - 1)  now == Band(close, p, i)
          IN IF now = "lower" /\ before \in {"within", "upper"} THEN 1
             ELSE IF now = "upper" /\ before \in {"within", "lower"} THEN -1 ELSE 0]

-----------------------------------------------------------------------------
Kinds == {"SMA", "EMA", "MACD", "RSI", "Momentum", "BollingerBands", "ATR"}

\* validate_input: the bars an indicator needs.
Required(kind) ==
  CASE kind = "MACD" -> IndicatorPeriods[kind][2]
    [] kind \in {"RSI", "ATR"} -> Period(kind) + 1
    [] OTHER -> Period(kind)

Signals(kind, close) ==
  CASE kind = "SMA" -> SMASignals(close, Period(kind))
    [] kind = "EMA" -> EMASignals(close, Period(kind))
    [] kind = "MACD" -> MACDSignals(close, IndicatorPeriods[kind])
    [] kind = "RSI" -> RSISignals(close, Period(kind))
    [] kind = "Momentum" -> MomentumSignals(close, Period(kind))
    [] kind = "BollingerBands" -> BandSignals(close, Period(kind))
    [] kind = "ATR" -> <<>>
=============================================================================
