----------------------------- MODULE MCResearch -----------------------------
EXTENDS Research
CONSTANTS a, b, r1, r2, i1, i2, s1, s2
MCHistories == {(2 :> 2) @@ (3 :> 4), (4 :> 2)}
MCFitnesses == {-1, 0}
MCPeriods == [kind \in Kinds \cup {"STOCH"} |->
  CASE kind = "MACD" -> <<1, 2, 2>>
    [] kind = "BollingerBands" -> <<3, 1, 1>>
    [] OTHER -> <<2, 1, 1>>]
MCWatchParams ==
  [kind : {"TrailingStopNode"}, trail : {50, 100}, activation : {0, 50}]
  \cup [kind : {"RiskNode"}, limit : {0, 10}, loss : {0, 2}, cap : {0, 50}, adjust : BOOLEAN]
  \cup [kind : {"DrawdownProtectionNode"}, max : {4}, action : {"reduce_size", "stop_trading", "hedge"}]
  \cup [kind : {"ThresholdNode"}, levels : {<<>>, <<30>>, <<30, 50, 70>>, <<50, 30>>}]
MCRiskInputs == [signal : BOOLEAN, size : {0, 10, 11}, pnl : {-3, 1}, atr : {0, 1, 60}, value : {-100, 0, 100}]
MCWatchBars == "TrailingStopNode" :> 4 @@ "RiskNode" :> 2 @@ "DrawdownProtectionNode" :> 2 @@ "ThresholdNode" :> 2
MCTargetSets == {s1 :> 100, s1 :> 60 @@ s2 :> 40, s1 :> 60 @@ s2 :> 20, s1 :> 100 @@ s2 :> 0}
MCHoldings == {s1 :> 60 @@ s2 :> 40, s2 :> 100, s1 :> 58 @@ s2 :> 45}
MCVolatilities == {s1 :> 4 @@ s2 :> 1, s2 :> 3}
MCRebalanceRules ==
  [enabled : BOOLEAN, threshold : {3}, tolerance : {1}, turnover : {20}]
  \cup [enabled : {TRUE}, threshold : {50}, tolerance : {5}, turnover : {50}]
Symmetry == Permutations({r1, r2}) \cup Permutations({i1, i2})
=============================================================================
