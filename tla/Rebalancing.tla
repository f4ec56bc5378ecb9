----------------------------- MODULE Rebalancing -----------------------------
(***************************************************************************)
(* The two things that bring a portfolio back to its weights: RiskBudget   *)
(* (src/ist/risk/budget.py) and RebalanceNode                              *)
(* (src/ist/strategy/nodes/action_nodes.py).                               *)
(*                                                                         *)
(* Weights, deviations and risks are whole percents; what the code divides *)
(* is kept as a fraction.  A portfolio is the function of its weights.     *)
(***************************************************************************)
EXTENDS Integers, FiniteSetsExt, Functions

CONSTANTS
  Assets,
  TargetSets,       \* the target weights that callers set, and those of nodes
  Holdings,         \* the current weights that callers ask about
  Volatilities,     \* the risk estimates that callers give
  Marginals,        \* the risks that correlations may give to a symbol
  RebalanceRules,   \* [enabled, threshold, tolerance, turnover]
  MaxDeviation,     \* of the node
  EffectiveBudget   \* total_risk_budget * diversification_factor

VARIABLES
  rule,         \* rebalancing
  wanted,       \* target_weights of the node
  targets,      \* _target_weights of RiskBudget
  allocations,  \* _allocations
  checked,      \* what check_rebalance_needed answered, with what it was asked, and
  advised,      \* calculate_rebalance_trades, since RiskBudget last changed
  ordered       \* the outputs of the node, likewise, since it was built

rebalanceVars == <<rule, wanted, targets, allocations, checked, advised, ordered>>
Forget == checked' = {} /\ advised' = {}

Weight(weights, s) == IF s \in DOMAIN weights THEN weights[s] ELSE 0
Gap(m, n) == Max({m - n, n - m})
Deviation(held, goal, s) == Gap(Weight(held, s), Weight(goal, s))
Total(weights) == SumFunction(weights)

-----------------------------------------------------------------------------
(* RiskBudget                                                              *)

\* By weight, with a penalty for each percent above 25.
RiskBudgetOf(weights, s) ==
  [num |-> EffectiveBudget * weights[s] * (IF weights[s] > 25 THEN 175 + weights[s] ELSE 200),
   den |-> 200 * Total(weights)]

\* _calculate_risk_budgets: the allocations of other symbols stay.
Calculated(weights) ==
  [s \in DOMAIN weights \cup DOMAIN allocations |->
     IF s \in DOMAIN weights
       THEN [weight |-> weights[s], budget |-> RiskBudgetOf(weights, s), risk |-> 0, over |-> FALSE]
       ELSE allocations[s]]

\* Weights that do not sum to about 1 raise and change nothing.
set_target_weights(weights) ==
  /\ Total(weights) \in 99..101
  /\ targets' = weights
  /\ allocations' = Calculated(weights)
  /\ Forget
  /\ UNCHANGED <<rule, wanted, ordered>>

\* The utilization, of which only whether it is above 1 is read; that of an empty
\* budget is 0.
Estimated(alloc, risk) ==
  [alloc EXCEPT !.risk = risk,
                !.over = alloc.budget.num > 0 /\ risk * alloc.budget.den > alloc.budget.num]

\* Without correlations; an estimate for a symbol without an allocation is ignored.
update_risk_estimates(risks) ==
  /\ allocations' = [s \in DOMAIN allocations |->
       Estimated(allocations[s], IF s \in DOMAIN risks THEN risks[s] ELSE allocations[s].risk)]
  /\ Forget
  /\ UNCHANGED <<rule, wanted, targets, ordered>>

\* With correlations every allocation gets its part of the risk of the portfolio, some
\* value here.  A matrix that does not fit all allocations, those of symbols without
\* a target included, raises and changes nothing.
update_with_correlations(risks) ==
  /\ allocations' = [s \in DOMAIN allocations |-> Estimated(allocations[s], risks[s])]
  /\ Forget
  /\ UNCHANGED <<rule, wanted, targets, ordered>>

check_rebalance_needed(held) ==
  LET weights == {s \in DOMAIN targets : Deviation(held, targets, s) > rule.threshold}
      risks == {s \in DOMAIN allocations : allocations[s].over}
  IN  /\ checked' = {[held |-> held, weights |-> IF rule.enabled THEN weights ELSE {},
                      risks |-> IF rule.enabled THEN risks ELSE {}]}
      /\ UNCHANGED <<rule, wanted, targets, allocations, advised, ordered>>

\* Mutant: what is sold counts against what is bought.
Turnover_Net(held, traded) ==
  Gap(0, SumFunction([s \in traded |-> targets[s] - Weight(held, s)]))

Turnover(held, traded) == SumFunction([s \in traded |-> Deviation(held, targets, s)])

\* Trades below the tolerance are left out, and the others scaled down together to the
\* turnover that is allowed.
calculate_rebalance_trades(held) ==
  LET traded == {s \in DOMAIN targets : Deviation(held, targets, s) >= rule.tolerance}
      turnover == Turnover(held, traded)
  IN  /\ advised' = {[held |-> held,
                      delta |-> [s \in traded |-> targets[s] - Weight(held, s)],
                      scale |-> IF turnover > rule.turnover
                                  THEN [num |-> rule.turnover, den |-> turnover]
                                  ELSE [num |-> 1, den |-> 1]]}
      /\ UNCHANGED <<rule, wanted, targets, allocations, checked, ordered>>

-----------------------------------------------------------------------------
(* RebalanceNode                                                           *)

\* Every symbol that is held or a target counts.
ExecuteRebalance(held) ==
  LET symbols == DOMAIN held \cup DOMAIN wanted
      needs == \E s \in symbols : Deviation(held, wanted, s) > Min({rule.threshold, MaxDeviation})
      moved == {s \in symbols : needs /\ Deviation(held, wanted, s) > 0}
  IN  /\ ordered' = {[held |-> held, needs |-> needs,
                      delta |-> [s \in moved |-> Weight(wanted, s) - Weight(held, s)]]}
      /\ UNCHANGED <<rule, wanted, targets, allocations, checked, advised>>

\* With the trigger False only needs_rebalance is set: the orders of before stay.
ExecuteUntriggered ==
  /\ ordered' = {[o EXCEPT !.needs = FALSE] : o \in ordered}
  /\ UNCHANGED <<rule, wanted, targets, allocations, checked, advised>>

-----------------------------------------------------------------------------
RebalanceInit ==
  /\ rule \in RebalanceRules /\ wanted \in TargetSets
  /\ targets = <<>> /\ allocations = <<>>
  /\ checked = {} /\ advised = {} /\ ordered = {}

RebalanceNext ==
  \/ \E weights \in TargetSets : set_target_weights(weights)
  \/ \E risks \in Volatilities : update_risk_estimates(risks)
  \/ \E risks \in [Assets -> Marginals] : update_with_correlations(risks)
  \/ \E held \in Holdings :
       \/ check_rebalance_needed(held) \/ calculate_rebalance_trades(held)
       \/ ExecuteRebalance(held)
  \/ ExecuteUntriggered

-----------------------------------------------------------------------------
(* Properties                                                              *)

\* The trades together never turn over more than the rule allows, however many there
\* are, and none carries its symbol past the target.
TradesAreBounded ==
  \A a \in advised :
    /\ a.scale.num * SumFunction([s \in DOMAIN a.delta |-> Gap(a.delta[s], 0)])
         <= rule.turnover * a.scale.den
    /\ a.scale.num <= a.scale.den
    /\ \A s \in DOMAIN a.delta : Weight(a.held, s) + a.delta[s] = targets[s]

\* Whatever targets were set before, each symbol with a target has the allocation of its
\* weight, and what is reported over its budget is: its risk is above a budget that is
\* not empty.
AllocationsFollow ==
  /\ \A s \in DOMAIN targets : allocations[s].weight = targets[s]
  /\ \A s \in DOMAIN allocations :
       allocations[s].over =>
         /\ allocations[s].budget.num > 0
         /\ allocations[s].risk * allocations[s].budget.den > allocations[s].budget.num

\* Asked about the same weights, with the same targets, the node and the budget agree: the node
\* orders whatever the budget finds too far off, in the direction in which the budget
\* trades, and orders with no such finding only for a symbol that has no target or lies
\* between the two limits of the node.
RebalancersAgree ==
  \A c \in checked, o \in ordered : wanted = targets /\ c.held = o.held =>
    /\ c.weights \subseteq DOMAIN o.delta
    /\ rule.enabled /\ c.weights = {} /\ DOMAIN o.delta # {} =>
         \E s \in DOMAIN o.delta : s \notin DOMAIN targets \/ Gap(o.delta[s], 0) > MaxDeviation
    /\ \A a \in advised : a.held = o.held =>
         \A s \in DOMAIN a.delta \cap DOMAIN o.delta : a.delta[s] = o.delta[s]

\* TradesAreBounded, AllocationsFollow and RebalancersAgree: rebalancing moves towards
\* the targets, within its limits, whichever of the two is asked.
RebalancingIsSound == TradesAreBounded /\ AllocationsFollow /\ RebalancersAgree
=============================================================================
