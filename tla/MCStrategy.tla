---------------------------- MODULE MCStrategy -----------------------------
(* Instances of StrategyExecutor and StrategyGraph for TLC.  The two share *)
(* nothing: a behaviour is that of the executor or that of one graph.      *)
EXTENDS StrategyExecutor, StrategyGraph

CONSTANTS s1, s2, h1, h2, n1, n2, n3

VARIABLE part
strategyVars == <<allVars, graphVars, part>>

\* One node of each place in a strategy.
SourceLogicAction ==
  n1 :> {"DataSourceNode"} @@ n2 :> {"IndicatorNode", "ConditionNode", "AND"}
  @@ n3 :> {"ActionNode", "RebalanceNode"}

\* A moving average of two prices.
MovingAverage == [h \in [1..Period -> Values] |-> (h[1] + h[2]) \div 2]

StrategyInit == ExecutorInit /\ GraphInit /\ part \in {"executor", "graph"}

\* Calls nested up to the bound have nowhere to go: that is the bound's end, and
\* no deadlock of the executor.
AtMaxDepth == Len(stack) = MaxDepth /\ UNCHANGED allVars

StrategyNext ==
  \/ part = "executor" /\ (ExecutorNext \/ AtMaxDepth) /\ UNCHANGED <<graphVars, part>>
  \/ part = "graph" /\ GraphNext /\ UNCHANGED <<allVars, part>>

StrategySpec == StrategyInit /\ [][StrategyNext]_strategyVars

Symmetry == Permutations({s1, s2}) \cup Permutations({h1, h2})
=============================================================================
