------------------------- MODULE MCConditionHistory -------------------------
(* An instance of ConditionHistory for TLC.                                *)
EXTENDS ConditionHistory, TLC

CONSTANTS n1, n2

SourceCondition == n1 :> {"DataSourceNode"} @@ n2 :> {"ConditionNode"}
LastPrice == [h \in [1..Period -> Values] |-> h[1]]
=============================================================================
