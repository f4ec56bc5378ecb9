-------------------------- MODULE MCStrategyStore --------------------------
(* Instances of StrategyStore for TLC: an indicator of the prices of a     *)
(* source, with and without the connection between them.                   *)
EXTENDS StrategyStore, TLC

SourceAndIndicator ==
  <<[id |-> "p", type |-> "DataSourceNode"], [id |-> "q", type |-> "IndicatorNode"]>>
CloseToPrice == [from |-> "p", to |-> "q", out |-> "close", in |-> "price"]

SourceFiles ==
  [version : {"1.0"}, nodes : {<<>>, <<SourceAndIndicator[1]>>, SourceAndIndicator}, links : {<<>>}]
  \cup [version : {"1.0"}, nodes : {SourceAndIndicator}, links : {<<CloseToPrice>>}]

SourcePortsIn == "DataSourceNode" :> {} @@ "IndicatorNode" :> {"price"}
SourcePortsOut == "DataSourceNode" :> {"close"} @@ "IndicatorNode" :> {"value"}
SourceCategories == "DataSourceNode" :> "DATA_SOURCE" @@ "IndicatorNode" :> "INDICATOR"
=============================================================================
