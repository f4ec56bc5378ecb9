-------------------------- MODULE ConditionHistory --------------------------
(***************************************************************************)
(* Conditions over several executions of a graph that is not edited in     *)
(* between.  The variable compared records, beside the graph, the values   *)
(* that each condition compared when it was last and last but one          *)
(* executed.                                                               *)
(***************************************************************************)
EXTENDS StrategyGraph

VARIABLE compared

Compares(n) ==
  at > 0 /\ n = order[at] /\ kind[n] = "ConditionNode" /\ status'[n] = "COMPLETED"

WatchedNext ==
  \/ Edit /\ compared' = [n \in Ids |-> <<>>]
  \/ Run /\ compared' = [n \in Ids |->
       IF Compares(n)
         THEN (IF compared[n] = <<>> THEN <<>> ELSE <<compared[n][Len(compared[n])]>>)
                \o <<memory'[n]>>
         ELSE compared[n]]

WatchedSpec ==
  GraphInit /\ compared = [n \in Ids |-> <<>>] /\ [][WatchedNext]_<<graphVars, compared>>

\* "Check if value_a crossed above value_b": a condition whose value was not above
\* on the bar before and is above on this one has triggered.
CrossingsAreSeen ==
  \A n \in Ids : Len(compared[n]) = 2 /\ status[n] = "COMPLETED" =>
    LET before == compared[n][1]
        now == compared[n][2]
    IN before[1] <= before[2] /\ now[1] > now[2] => outputs[n]["triggered"] = 1
=============================================================================
