--------------------------- MODULE ResearchProofs ---------------------------
(***************************************************************************)
(* What a strategy is tried out with keeps its promises for any symbols,   *)
(* histories, weights and numbers of coroutines: proofs of the invariants  *)
(* of Research, part by part.  A behaviour is one of a single part, so the *)
(* invariant of a part only has to survive the steps of that part.         *)
(***************************************************************************)
EXTENDS Research, FiniteSums, SequenceTheorems, TLAPS

-----------------------------------------------------------------------------
(* Rebalancing                                                             *)

LEMMA GapIs ==
  ASSUME NEW m \in Int, NEW n \in Int
  PROVE  /\ Weights!Gap(m, n) = IF m >= n THEN m - n ELSE n - m
         /\ Weights!Gap(m, n) \in Nat
  <1>1. Weights!Gap(m, n) = IF m >= n THEN m - n ELSE n - m
    BY DEF Weights!Gap, Weights!Max
  <1> QED BY <1>1

LEMMA MinIs ==
  ASSUME NEW m \in Int, NEW n \in Int
  PROVE  Weights!Min({m, n}) = IF m <= n THEN m ELSE n
  BY DEF Weights!Min

\* Sums are those of FiniteSums, although the module is an instance.
LEMMA SumOfWeights ==
  ASSUME NEW f PROVE Weights!SumFunction(f) = SumFunctionOnSet(f, DOMAIN f)
  BY DEF Weights!SumFunction, Weights!FoldFunction, Weights!SumFunctionOnSet,
     Weights!FoldFunctionOnSet, Weights!MapThenFoldSet, SumFunctionOnSet, FoldFunctionOnSet,
     MapThenFoldSet

\* The symbols that the budget trades and those that the node orders, for what is held.
TradedOf(h) == {s \in DOMAIN targets : Weights!Deviation(h, targets, s) >= rule.tolerance}
TooFarOff(h) == {s \in DOMAIN targets : Weights!Deviation(h, targets, s) > rule.threshold}
NodeNeeds(h) ==
  \E s \in DOMAIN h \cup DOMAIN wanted :
    Weights!Deviation(h, wanted, s) > Weights!Min({rule.threshold, MaxDeviation})
MovedOf(h) == {s \in DOMAIN h \cup DOMAIN wanted : NodeNeeds(h) /\ Weights!Deviation(h, wanted, s) > 0}

\* The budget knows the targets that were set last; an answer is that of the present
\* targets and rule.
RuleInv ==
  /\ rule \in RebalanceRules /\ wanted \in TargetSets
  /\ targets = <<>> \/ targets \in TargetSets
AllocationInv ==
  /\ DOMAIN targets \subseteq DOMAIN allocations
  /\ \A s \in DOMAIN allocations :
       \E w, b, r, o : allocations[s] = [weight |-> w, budget |-> b, risk |-> r, over |-> o]
\* The orders of the node for what is held.
OrdersOf(h) == [s \in MovedOf(h) |-> Weights!Weight(wanted, s) - Weights!Weight(h, s)]
AnswersInv ==
  /\ \A c \in checked : /\ c.held \in Holdings
                        /\ c.weights = IF rule.enabled THEN TooFarOff(c.held) ELSE {}
  /\ \A a \in advised :
       /\ a.held \in Holdings
       /\ a.delta = [s \in TradedOf(a.held) |-> targets[s] - Weights!Weight(a.held, s)]
  /\ \A o \in ordered :
       \E h, n : h \in Holdings /\ o = [held |-> h, needs |-> n, delta |-> OrdersOf(h)]
WeightsInv ==
  RuleInv /\ AllocationInv /\ AnswersInv /\ Weights!TradesAreBounded /\ Weights!AllocationsFollow

LEMMA WeightIsInt ==
  ASSUME NEW h, h \in [DOMAIN h -> Int], NEW s
  PROVE  Weights!Weight(h, s) \in Int
  BY DEF Weights!Weight

LEMMA TargetTypes ==
  ASSUME RuleInv
  PROVE  /\ wanted \in [DOMAIN wanted -> Int]
         /\ targets \in [DOMAIN targets -> Int] /\ IsFiniteSet(DOMAIN targets)
         /\ rule.enabled \in BOOLEAN /\ rule.threshold \in Nat /\ rule.tolerance \in Nat
         /\ rule.turnover \in Nat
  <1>1. wanted \in [DOMAIN wanted -> Int] /\ rule.enabled \in BOOLEAN /\ rule.threshold \in Nat
        /\ rule.tolerance \in Nat /\ rule.turnover \in Nat
    BY RebalancingAssumption DEF RuleInv
  <1>2. CASE targets = <<>>
    BY <1>1, <1>2, FS_EmptySet
  <1>3. CASE targets \in TargetSets
    BY <1>1, <1>3, RebalancingAssumption
  <1> QED BY <1>1, <1>2, <1>3 DEF RuleInv

LEMMA DeviationIs ==
  ASSUME NEW h, h \in [DOMAIN h -> Int], NEW g, g \in [DOMAIN g -> Int], NEW s
  PROVE  /\ Weights!Deviation(h, g, s) \in Nat
         /\ Weights!Deviation(h, g, s)
              = IF Weights!Weight(h, s) >= Weights!Weight(g, s)
                  THEN Weights!Weight(h, s) - Weights!Weight(g, s)
                  ELSE Weights!Weight(g, s) - Weights!Weight(h, s)
         /\ Weights!Deviation(h, g, s) = Weights!Gap(Weights!Weight(g, s) - Weights!Weight(h, s), 0)
  <1>1. Weights!Weight(h, s) \in Int /\ Weights!Weight(g, s) \in Int
    BY WeightIsInt
  <1>2. PICK m, n : m = Weights!Weight(h, s) /\ n = Weights!Weight(g, s)
    OBVIOUS
  <1>3. /\ Weights!Gap(m, n) = (IF m >= n THEN m - n ELSE n - m) /\ Weights!Gap(m, n) \in Nat
        /\ Weights!Gap(n - m, 0) = IF n - m >= 0 THEN (n - m) - 0 ELSE 0 - (n - m)
    <2>1. m \in Int /\ n \in Int /\ n - m \in Int /\ 0 \in Int
      BY <1>1, <1>2
    <2> QED BY <2>1, GapIs
  <1>4. Weights!Deviation(h, g, s) = Weights!Gap(m, n)
    BY <1>2 DEF Weights!Deviation
  <1>5. m \in Int /\ n \in Int
    BY <1>1, <1>2
  <1> QED BY <1>2, <1>3, <1>4, <1>5

LEMMA WeightsStart == Weights!RebalanceInit => WeightsInv
  <1> SUFFICES ASSUME Weights!RebalanceInit PROVE WeightsInv
    OBVIOUS
  <1>1. rule \in RebalanceRules /\ wanted \in TargetSets /\ targets = <<>> /\ allocations = <<>>
        /\ checked = {} /\ advised = {} /\ ordered = {}
    BY DEF Weights!RebalanceInit
  <1> QED BY <1>1 DEF WeightsInv, RuleInv, AllocationInv, AnswersInv, Weights!TradesAreBounded,
       Weights!AllocationsFollow

\* What the budget advises turns over no more than the rule allows.
LEMMA AdviceIsBounded ==
  ASSUME RuleInv, NEW h \in Holdings, Weights!calculate_rebalance_trades(h)
  PROVE  Weights!TradesAreBounded'
  <1>1. h \in [DOMAIN h -> Int]
    BY RebalancingAssumption
  <1>2. targets \in [DOMAIN targets -> Int] /\ IsFiniteSet(DOMAIN targets) /\ rule.turnover \in Nat
    BY TargetTypes
  <1> DEFINE T == TradedOf(h)
             f == [s \in T |-> Weights!Deviation(h, targets, s)]
             d == [s \in T |-> targets[s] - Weights!Weight(h, s)]
             g == [s \in T |-> Weights!Gap(d[s], 0)]
  <1>3. IsFiniteSet(T) /\ \A s \in T : s \in DOMAIN targets
    BY <1>2, FS_Subset DEF TradedOf
  <1>4. \A s \in T : f[s] = g[s] /\ f[s] \in Nat
    <2> SUFFICES ASSUME NEW s \in T PROVE f[s] = g[s] /\ f[s] \in Nat
      OBVIOUS
    <2>1. Weights!Weight(targets, s) = targets[s]
      BY <1>3 DEF Weights!Weight
    <2>2. Weights!Deviation(h, targets, s) \in Nat
          /\ Weights!Deviation(h, targets, s) = Weights!Gap(targets[s] - Weights!Weight(h, s), 0)
      BY <1>1, <1>2, <2>1, DeviationIs
    <2> QED BY <2>2
  <1>5. f = g
    BY <1>4
  <1> DEFINE n == Weights!SumFunction(f)
  <1>6. n \in Int
    <2>1. \A s \in T : f[s] \in Int
      BY <1>4
    <2>2. n = SumFunctionOnSet(f, T)
      BY SumOfWeights
    <2> HIDE DEF f, T, n
    <2> QED BY <1>3, <2>1, <2>2, SumInt
  <1>7. PICK sc : sc = IF n > rule.turnover THEN [num |-> rule.turnover, den |-> n] ELSE [num |-> 1, den |-> 1]
    OBVIOUS
  <1>8. advised' = {[held |-> h, delta |-> d, scale |-> sc]} /\ UNCHANGED <<rule, targets>>
    <2>1. Weights!Turnover(h, T) = n
      BY DEF Weights!Turnover
    <2>2. T = {s \in DOMAIN targets : Weights!Deviation(h, targets, s) >= rule.tolerance}
      BY DEF TradedOf
    <2> HIDE DEF T, n
    <2>3. /\ advised' = {[held |-> h, delta |-> [s \in T |-> targets[s] - Weights!Weight(h, s)],
                          scale |-> IF n > rule.turnover THEN [num |-> rule.turnover, den |-> n]
                                    ELSE [num |-> 1, den |-> 1]]}
          /\ UNCHANGED <<rule, targets>>
      BY <2>1, <2>2 DEF Weights!calculate_rebalance_trades
    <2> QED BY <1>7, <2>3
  <1>9. sc.num * n <= rule.turnover * sc.den /\ sc.num <= sc.den
    <2>1. CASE n > rule.turnover
      <3>1. sc.num = rule.turnover /\ sc.den = n
        BY <1>7, <2>1
      <3> HIDE DEF n
      <3> QED BY <1>2, <1>6, <2>1, <3>1
    <2>2. CASE ~(n > rule.turnover)
      <3>1. sc.num = 1 /\ sc.den = 1
        BY <1>7, <2>2
      <3> HIDE DEF n
      <3> QED BY <1>2, <1>6, <2>2, <3>1
    <2> QED BY <2>1, <2>2
  <1>10. \A s \in DOMAIN d : Weights!Weight(h, s) + d[s] = targets[s]
    <2> SUFFICES ASSUME NEW s \in T PROVE Weights!Weight(h, s) + (targets[s] - Weights!Weight(h, s)) = targets[s]
      OBVIOUS
    <2>1. Weights!Weight(h, s) \in Int /\ targets[s] \in Int
      BY <1>1, <1>2, <1>3, WeightIsInt
    <2> QED BY <2>1
  <1>11. [s \in DOMAIN d |-> Weights!Gap(d[s], 0)] = f
    BY <1>5
  <1>12. PICK dd : dd = d
    OBVIOUS
  <1>13. advised' = {[held |-> h, delta |-> dd, scale |-> sc]}
    BY <1>8, <1>12
  <1>14. /\ sc.num * Weights!SumFunction([s \in DOMAIN dd |-> Weights!Gap(dd[s], 0)]) <= rule.turnover * sc.den
         /\ \A s \in DOMAIN dd : Weights!Weight(h, s) + dd[s] = targets[s]
    BY <1>9, <1>10, <1>11, <1>12
  <1> HIDE DEF d, f, g, n
  <1>15. SUFFICES ASSUME NEW a \in advised'
         PROVE  /\ a.scale.num * Weights!SumFunction([s \in DOMAIN a.delta |-> Weights!Gap(a.delta[s], 0)])
                     <= rule.turnover * a.scale.den
                /\ a.scale.num <= a.scale.den
                /\ \A s \in DOMAIN a.delta : Weights!Weight(a.held, s) + a.delta[s] = targets[s]
    BY <1>8 DEF Weights!TradesAreBounded
  <1>16. a.held = h /\ a.delta = dd /\ a.scale = sc
    BY <1>13
  <1> QED BY <1>9, <1>14, <1>16

\* The allocations of new targets.
LEMMA TargetsAreSet ==
  ASSUME WeightsInv, NEW w \in TargetSets, Weights!set_target_weights(w)
  PROVE  WeightsInv'
  <1>1. /\ targets' = w /\ allocations' = Weights!Calculated(w)
        /\ checked' = {} /\ advised' = {} /\ UNCHANGED <<rule, wanted, ordered>>
    BY DEF Weights!set_target_weights, Weights!Forget
  <1>2. RuleInv'
    BY <1>1 DEF WeightsInv, RuleInv
  <1>3. /\ DOMAIN allocations' = DOMAIN w \cup DOMAIN allocations
        /\ \A s \in DOMAIN w : allocations'[s] =
             [weight |-> w[s], budget |-> Weights!RiskBudgetOf(w, s), risk |-> 0, over |-> FALSE]
        /\ \A s \in DOMAIN allocations \ DOMAIN w : allocations'[s] = allocations[s]
    BY <1>1 DEF Weights!Calculated
  <1>4. AllocationInv'
    <2>1. DOMAIN targets' \subseteq DOMAIN allocations'
      BY <1>1, <1>3
    <2>2. ASSUME NEW s \in DOMAIN allocations'
          PROVE  \E x, b, r, o : allocations'[s] = [weight |-> x, budget |-> b, risk |-> r, over |-> o]
      <3>1. CASE s \in DOMAIN w
        BY <1>3, <3>1
      <3>2. CASE s \notin DOMAIN w
        <4>1. s \in DOMAIN allocations /\ allocations'[s] = allocations[s]
          BY <1>3, <2>2, <3>2
        <4> QED BY <4>1, Zenon DEF WeightsInv, AllocationInv
      <3> QED BY <3>1, <3>2
    <2> QED BY <2>1, <2>2 DEF AllocationInv
  <1>5. Weights!AllocationsFollow'
    <2>1. ASSUME NEW s \in DOMAIN targets' PROVE allocations'[s].weight = targets'[s]
      BY <1>1, <1>3
    <2>2. ASSUME NEW s \in DOMAIN allocations', allocations'[s].over
          PROVE  /\ allocations'[s].budget.num > 0
                 /\ allocations'[s].risk * allocations'[s].budget.den > allocations'[s].budget.num
      <3>1. s \notin DOMAIN w
        BY <1>3, <2>2
      <3>2. allocations'[s] = allocations[s] /\ s \in DOMAIN allocations
        BY <1>3, <3>1
      <3> QED BY <2>2, <3>2 DEF WeightsInv, Weights!AllocationsFollow
    <2> QED BY <2>1, <2>2 DEF Weights!AllocationsFollow
  <1>6. AnswersInv' /\ Weights!TradesAreBounded'
    <2>1. ASSUME NEW h PROVE OrdersOf(h)' = OrdersOf(h)
      BY <1>1 DEF OrdersOf, MovedOf, NodeNeeds
    <2>2. \A o \in ordered' :
            \E h, n : h \in Holdings /\ o = [held |-> h, needs |-> n, delta |-> OrdersOf(h)']
      BY <1>1, <2>1, Zenon DEF WeightsInv, AnswersInv
    <2> QED BY <1>1, <2>2 DEF AnswersInv, Weights!TradesAreBounded
  <1> QED BY <1>2, <1>4, <1>5, <1>6 DEF WeightsInv

\* Estimates change the risk of allocations and whether it is over the budget.
LEMMA RisksAreEstimated ==
  ASSUME WeightsInv, NEW risk,
         allocations' = [s \in DOMAIN allocations |-> Weights!Estimated(allocations[s], risk[s])],
         checked' = {}, advised' = {}, UNCHANGED <<rule, wanted, targets, ordered>>
  PROVE  WeightsInv'
  <1>1. RuleInv'
    BY DEF WeightsInv, RuleInv
  <1>2. ASSUME NEW s \in DOMAIN allocations
        PROVE  /\ \E w, b, r, o :
                    allocations'[s] = [weight |-> w, budget |-> b, risk |-> r, over |-> o]
               /\ allocations'[s].weight = allocations[s].weight
               /\ allocations'[s].over =>
                    /\ allocations'[s].budget.num > 0
                    /\ allocations'[s].risk * allocations'[s].budget.den > allocations'[s].budget.num
    <2>1. PICK w, b, r, o : allocations[s] = [weight |-> w, budget |-> b, risk |-> r, over |-> o]
      BY <1>2 DEF WeightsInv, AllocationInv
    <2>2. PICK p : p = (b.num > 0 /\ risk[s] * b.den > b.num)
      OBVIOUS
    <2>3. PICK z : z = risk[s]
      OBVIOUS
    <2>4. PICK a : a = allocations[s]
      OBVIOUS
    <2>5. a = [weight |-> w, budget |-> b, risk |-> r, over |-> o]
      BY <2>1, <2>4
    <2>6. allocations'[s] = [a EXCEPT !.risk = z, !.over = a.budget.num > 0 /\ z * a.budget.den > a.budget.num]
      BY <1>2, <2>3, <2>4 DEF Weights!Estimated
    <2>7. a.budget = b /\ a.weight = w
      BY <2>5
    <2>8. allocations'[s] = [a EXCEPT !.risk = z, !.over = p]
      BY <2>2, <2>3, <2>6, <2>7
    <2>9. PICK e : e = [a EXCEPT !.risk = z]
      OBVIOUS
    <2>10. e = [weight |-> w, budget |-> b, risk |-> z, over |-> o]
      BY <2>5, <2>9
    <2>11. [a EXCEPT !.risk = z, !.over = p] = [e EXCEPT !.over = p]
      BY <2>9
    <2>12. [e EXCEPT !.over = p] = [weight |-> w, budget |-> b, risk |-> z, over |-> p]
      BY <2>10
    <2>13. allocations'[s] = [weight |-> w, budget |-> b, risk |-> z, over |-> p]
      BY <2>8, <2>11, <2>12
    <2>14. /\ allocations'[s].weight = w /\ allocations'[s].budget = b
           /\ allocations'[s].risk = z /\ allocations'[s].over = p
      BY <2>13
    <2>15. p => b.num > 0 /\ z * b.den > b.num
      BY <2>2, <2>3
    <2> QED BY <2>4, <2>7, <2>13, <2>14, <2>15
  <1>3. DOMAIN allocations' = DOMAIN allocations
    OBVIOUS
  <1>4. AllocationInv'
    <2>1. ASSUME NEW s \in DOMAIN allocations'
          PROVE  \E x, b, r, o : allocations'[s] = [weight |-> x, budget |-> b, risk |-> r, over |-> o]
      BY <1>2, <1>3
    <2> QED BY <1>3, <2>1 DEF AllocationInv, WeightsInv
  <1>5. Weights!AllocationsFollow'
    <2>1. ASSUME NEW s \in DOMAIN targets PROVE allocations'[s].weight = targets[s]
      <3>1. s \in DOMAIN allocations /\ allocations[s].weight = targets[s]
        BY <2>1 DEF WeightsInv, AllocationInv, Weights!AllocationsFollow
      <3> QED BY <1>2, <3>1
    <2>2. ASSUME NEW s \in DOMAIN allocations, allocations'[s].over
          PROVE  /\ allocations'[s].budget.num > 0
                 /\ allocations'[s].risk * allocations'[s].budget.den > allocations'[s].budget.num
      BY <1>2, <2>2
    <2> QED BY <1>3, <2>1, <2>2 DEF Weights!AllocationsFollow
  <1>6. AnswersInv' /\ Weights!TradesAreBounded'
    <2>1. ASSUME NEW h PROVE OrdersOf(h)' = OrdersOf(h)
      BY DEF OrdersOf, MovedOf, NodeNeeds
    <2>2. \A o \in ordered' :
            \E h, n : h \in Holdings /\ o = [held |-> h, needs |-> n, delta |-> OrdersOf(h)']
      BY <2>1, Zenon DEF WeightsInv, AnswersInv
    <2> QED BY <2>2 DEF AnswersInv, Weights!TradesAreBounded
  <1> QED BY <1>1, <1>4, <1>5, <1>6 DEF WeightsInv

\* What an answer is made of does not change with other answers.
LEMMA AnswersStay ==
  ASSUME UNCHANGED <<rule, wanted, targets>>, NEW h
  PROVE  TradedOf(h)' = TradedOf(h) /\ TooFarOff(h)' = TooFarOff(h) /\ OrdersOf(h)' = OrdersOf(h)
  BY DEF TradedOf, TooFarOff, OrdersOf, MovedOf, NodeNeeds

LEMMA WeightsStep ==
  ASSUME WeightsInv, [Weights!RebalanceNext]_(Weights!rebalanceVars)
  PROVE  WeightsInv'
  <1>1. CASE UNCHANGED Weights!rebalanceVars
    <2>1. UNCHANGED <<rule, wanted, targets, allocations, checked, advised, ordered>>
      BY <1>1 DEF Weights!rebalanceVars
    <2> QED BY <2>1, AnswersStay DEF WeightsInv, RuleInv, AllocationInv, AnswersInv,
              Weights!TradesAreBounded, Weights!AllocationsFollow
  <1>2. ASSUME NEW w \in TargetSets, Weights!set_target_weights(w) PROVE WeightsInv'
    BY <1>2, TargetsAreSet
  <1>3. ASSUME NEW r \in Volatilities, Weights!update_risk_estimates(r) PROVE WeightsInv'
    <2> DEFINE risk == [s \in DOMAIN allocations |-> IF s \in DOMAIN r THEN r[s] ELSE allocations[s].risk]
    <2>1. /\ allocations' = [s \in DOMAIN allocations |-> Weights!Estimated(allocations[s], risk[s])]
          /\ checked' = {} /\ advised' = {} /\ UNCHANGED <<rule, wanted, targets, ordered>>
      BY <1>3 DEF Weights!update_risk_estimates, Weights!Forget
    <2>2. PICK q : q = risk
      OBVIOUS
    <2> QED BY <2>1, <2>2, RisksAreEstimated
  <1>4. ASSUME NEW r \in [Assets -> Marginals], Weights!update_with_correlations(r) PROVE WeightsInv'
    BY <1>4, RisksAreEstimated DEF Weights!update_with_correlations, Weights!Forget
  <1>5. ASSUME UNCHANGED <<rule, wanted, targets, allocations>>, AnswersInv', Weights!TradesAreBounded'
        PROVE  WeightsInv'
    BY <1>5 DEF WeightsInv, RuleInv, AllocationInv, Weights!AllocationsFollow
  <1>10. ASSUME UNCHANGED <<rule, wanted, targets>>,
               \/ checked' = checked
               \/ \A c \in checked' : /\ c.held \in Holdings
                                      /\ c.weights = IF rule.enabled THEN TooFarOff(c.held) ELSE {},
               \/ advised' = advised
               \/ \A a \in advised' :
                    /\ a.held \in Holdings
                    /\ a.delta = [s \in TradedOf(a.held) |-> targets[s] - Weights!Weight(a.held, s)],
               \/ ordered' = ordered
               \/ \A o \in ordered' :
                    \E h, n : h \in Holdings /\ o = [held |-> h, needs |-> n, delta |-> OrdersOf(h)]
        PROVE  AnswersInv'
    <2>1. \A h : TradedOf(h)' = TradedOf(h) /\ TooFarOff(h)' = TooFarOff(h) /\ OrdersOf(h)' = OrdersOf(h)
      BY <1>10, AnswersStay
    <2>2. \A c \in checked' : /\ c.held \in Holdings
                              /\ c.weights = IF rule.enabled THEN TooFarOff(c.held) ELSE {}
      BY <1>10 DEF WeightsInv, AnswersInv
    <2>3. \A a \in advised' :
            /\ a.held \in Holdings
            /\ a.delta = [s \in TradedOf(a.held) |-> targets[s] - Weights!Weight(a.held, s)]
      BY <1>10 DEF WeightsInv, AnswersInv
    <2>4. \A o \in ordered' :
            \E h, n : h \in Holdings /\ o = [held |-> h, needs |-> n, delta |-> OrdersOf(h)]
      BY <1>10, Zenon DEF WeightsInv, AnswersInv
    <2>5. \A o \in ordered' :
            \E h, n : h \in Holdings /\ o = [held |-> h, needs |-> n, delta |-> OrdersOf(h)']
      BY <2>1, <2>4, Zenon
    <2>6. \A a \in advised' :
            /\ a.held \in Holdings
            /\ a.delta = [s \in TradedOf(a.held)' |-> targets'[s] - Weights!Weight(a.held, s)]
      BY <1>10, <2>1, <2>3
    <2>7. \A c \in checked' : /\ c.held \in Holdings
                              /\ c.weights = IF rule'.enabled THEN TooFarOff(c.held)' ELSE {}
      BY <1>10, <2>1, <2>2
    <2> QED BY <2>5, <2>6, <2>7 DEF AnswersInv
  <1>6. ASSUME NEW h \in Holdings, Weights!check_rebalance_needed(h) PROVE WeightsInv'
    <2>1. /\ \A c \in checked' : c.held = h /\ c.weights = IF rule.enabled THEN TooFarOff(h) ELSE {}
          /\ UNCHANGED <<rule, wanted, targets, allocations, advised, ordered>>
      BY <1>6 DEF Weights!check_rebalance_needed, TooFarOff
    <2>2. AnswersInv'
      BY <1>10, <2>1
    <2>3. Weights!TradesAreBounded'
      BY <2>1 DEF WeightsInv, Weights!TradesAreBounded
    <2> QED BY <1>5, <2>1, <2>2, <2>3
  <1>7. ASSUME NEW h \in Holdings, Weights!calculate_rebalance_trades(h) PROVE WeightsInv'
    <2>1. /\ \A a \in advised' :
               a.held = h /\ a.delta = [s \in TradedOf(h) |-> targets[s] - Weights!Weight(h, s)]
          /\ UNCHANGED <<rule, wanted, targets, allocations, checked, ordered>>
      BY <1>7 DEF Weights!calculate_rebalance_trades, TradedOf
    <2>2. AnswersInv'
      BY <1>10, <2>1
    <2>3. Weights!TradesAreBounded'
      BY <1>7, AdviceIsBounded DEF WeightsInv
    <2> QED BY <1>5, <2>1, <2>2, <2>3
  <1>8. ASSUME NEW h \in Holdings, Weights!ExecuteRebalance(h) PROVE WeightsInv'
    <2>1. /\ \A o \in ordered' :
               \E n : o = [held |-> h, needs |-> n, delta |-> OrdersOf(h)]
          /\ UNCHANGED <<rule, wanted, targets, allocations, checked, advised>>
      BY <1>8 DEF Weights!ExecuteRebalance, OrdersOf, MovedOf, NodeNeeds
    <2>2. AnswersInv'
      BY <1>10, <2>1
    <2>3. Weights!TradesAreBounded'
      BY <2>1 DEF WeightsInv, Weights!TradesAreBounded
    <2> QED BY <1>5, <2>1, <2>2, <2>3
  <1>9. CASE Weights!ExecuteUntriggered
    <2>1. /\ ordered' = {[o EXCEPT !.needs = FALSE] : o \in ordered}
          /\ UNCHANGED <<rule, wanted, targets, allocations, checked, advised>>
      BY <1>9 DEF Weights!ExecuteUntriggered
    <2>2. ASSUME NEW o \in ordered'
          PROVE  \E h, n : h \in Holdings /\ o = [held |-> h, needs |-> n, delta |-> OrdersOf(h)]
      <3>1. PICK p \in ordered : o = [p EXCEPT !.needs = FALSE]
        BY <2>1, <2>2
      <3>2. PICK h, n : h \in Holdings /\ p = [held |-> h, needs |-> n, delta |-> OrdersOf(h)]
        BY DEF WeightsInv, AnswersInv
      <3>3. PICK d : d = OrdersOf(h)
        OBVIOUS
      <3>4. p = [held |-> h, needs |-> n, delta |-> d]
        BY <3>2, <3>3
      <3>5. o = [held |-> h, needs |-> FALSE, delta |-> d]
        BY <3>1, <3>4
      <3> QED BY <3>2, <3>3, <3>5
    <2>3. AnswersInv'
      BY <1>10, <2>1, <2>2
    <2>4. Weights!TradesAreBounded'
      BY <2>1 DEF WeightsInv, Weights!TradesAreBounded
    <2> QED BY <1>5, <2>1, <2>3, <2>4
  <1> QED BY <1>1, <1>2, <1>3, <1>4, <1>6, <1>7, <1>8, <1>9 DEF Weights!RebalanceNext

\* Budget and node agree, for they look at the same deviations.
LEMMA WeightsPromises == WeightsInv => Weights!RebalancingIsSound
  <1> SUFFICES ASSUME WeightsInv PROVE Weights!RebalancersAgree
    BY DEF WeightsInv, Weights!RebalancingIsSound
  <1> SUFFICES ASSUME NEW c \in checked, NEW o \in ordered, wanted = targets, c.held = o.held
               PROVE  /\ c.weights \subseteq DOMAIN o.delta
                      /\ rule.enabled /\ c.weights = {} /\ DOMAIN o.delta # {} =>
                           \E s \in DOMAIN o.delta :
                             s \notin DOMAIN targets \/ Weights!Gap(o.delta[s], 0) > MaxDeviation
                      /\ \A a \in advised : a.held = o.held =>
                           \A s \in DOMAIN a.delta \cap DOMAIN o.delta : a.delta[s] = o.delta[s]
    BY DEF Weights!RebalancersAgree
  <1>0. PICK h, n : h \in Holdings /\ o = [held |-> h, needs |-> n, delta |-> OrdersOf(h)]
    BY DEF WeightsInv, AnswersInv
  <1>1. h \in Holdings /\ o.held = h /\ o.delta = OrdersOf(h)
    BY <1>0
  <1>2. h \in [DOMAIN h -> Int] /\ MaxDeviation \in Nat
    BY <1>1, RebalancingAssumption
  <1>3. /\ targets \in [DOMAIN targets -> Int] /\ rule.enabled \in BOOLEAN /\ rule.threshold \in Nat
    BY TargetTypes DEF WeightsInv
  <1>4. /\ c.weights = (IF rule.enabled THEN TooFarOff(h) ELSE {})
        /\ o.delta = [s \in MovedOf(h) |-> Weights!Weight(targets, s) - Weights!Weight(h, s)]
    BY <1>1 DEF WeightsInv, AnswersInv, OrdersOf
  <1>5. \A s : /\ Weights!Deviation(h, targets, s) \in Nat
               /\ Weights!Deviation(h, targets, s) =
                    Weights!Gap(Weights!Weight(targets, s) - Weights!Weight(h, s), 0)
    BY <1>2, <1>3, DeviationIs
  <1>6. PICK low : low = Weights!Min({rule.threshold, MaxDeviation})
    OBVIOUS
  <1>7. low = (IF rule.threshold <= MaxDeviation THEN rule.threshold ELSE MaxDeviation)
    BY <1>2, <1>3, <1>6, MinIs
  <1>8. MovedOf(h) = {s \in DOMAIN h \cup DOMAIN targets :
                        /\ \E x \in DOMAIN h \cup DOMAIN targets : Weights!Deviation(h, targets, x) > low
                        /\ Weights!Deviation(h, targets, s) > 0}
    BY <1>6 DEF MovedOf, NodeNeeds
  <1>9. c.weights \subseteq DOMAIN o.delta
    <2> SUFFICES ASSUME NEW s \in c.weights PROVE s \in MovedOf(h)
      BY <1>4
    <2>1. s \in DOMAIN targets /\ Weights!Deviation(h, targets, s) > rule.threshold
      BY <1>4 DEF TooFarOff
    <2>2. Weights!Deviation(h, targets, s) > low /\ Weights!Deviation(h, targets, s) > 0
      BY <1>2, <1>3, <1>5, <1>7, <2>1
    <2> QED BY <1>8, <2>1, <2>2
  <1>10. ASSUME rule.enabled, c.weights = {}, DOMAIN o.delta # {}
         PROVE  \E s \in DOMAIN o.delta :
                  s \notin DOMAIN targets \/ Weights!Gap(o.delta[s], 0) > MaxDeviation
    <2>1. PICK x \in DOMAIN h \cup DOMAIN targets : Weights!Deviation(h, targets, x) > low
      BY <1>4, <1>8, <1>10
    <2>2. x \in MovedOf(h)
      BY <1>2, <1>3, <1>5, <1>7, <1>8, <2>1
    <2>3. o.delta[x] = Weights!Weight(targets, x) - Weights!Weight(h, x) /\ x \in DOMAIN o.delta
      BY <1>4, <2>2
    <2>4. CASE x \in DOMAIN targets
      <3>1. ~(Weights!Deviation(h, targets, x) > rule.threshold)
        BY <1>4, <1>10, <2>4 DEF TooFarOff
      <3>2. Weights!Deviation(h, targets, x) > MaxDeviation
        BY <1>2, <1>3, <1>5, <1>7, <2>1, <3>1
      <3>3. Weights!Gap(o.delta[x], 0) > MaxDeviation
        BY <1>5, <2>3, <3>2
      <3> QED BY <2>3, <3>3
    <2> QED BY <2>3, <2>4
  <1>11. ASSUME NEW a \in advised, a.held = o.held, NEW s \in DOMAIN a.delta \cap DOMAIN o.delta
         PROVE  a.delta[s] = o.delta[s]
    <2>1. a.delta = [x \in TradedOf(h) |-> targets[x] - Weights!Weight(h, x)]
      BY <1>1, <1>11 DEF WeightsInv, AnswersInv
    <2>2. s \in TradedOf(h) /\ s \in MovedOf(h)
      BY <1>4, <1>11, <2>1
    <2>3. s \in DOMAIN targets
      BY <2>2 DEF TradedOf
    <2> QED BY <1>4, <2>1, <2>2, <2>3 DEF Weights!Weight
  <1> QED BY <1>9, <1>10, <1>11

-----------------------------------------------------------------------------
(* The backtest engine                                                     *)

Distinct(q) == \A i, j \in DOMAIN q : q[i] = q[j] => i = j
Trade == [symbol : Symbols, side : Sides, quantity : Int, value : Int, commission : Int]
IsBars(b) == b \in [DOMAIN b -> Nat \ {0}] /\ DOMAIN b \subseteq Symbols
IsFeed(f) ==
  /\ DOMAIN f \subseteq Nat /\ IsFiniteSet(DOMAIN f)
  /\ f = [t \in DOMAIN f |-> f[t]]
  /\ \A t \in DOMAIN f : IsBars(f[t])
\* A coroutine that waits for a history, with what it has got
IsLoading(r) ==
  \E left, got :
    /\ r = [at |-> "loading", left |-> left, got |-> got]
    /\ left \in Seq(Symbols) /\ Distinct(left) /\ IsFeed(got)
    /\ \A t \in DOMAIN got : DOMAIN got[t] \cap ToSet(left) = {}

BookTypes ==
  /\ config \in [id : Nat, symbols : Seq(Symbols), capital : Nat]
  /\ config # NoConfig => config.symbols # <<>>
  /\ Distinct(config.symbols)
  /\ cash \in Int /\ equity \in Int /\ peak \in Int
  /\ positions \in [DOMAIN positions -> Int] /\ DOMAIN positions \subseteq Symbols
  /\ trades \in Seq(Trade)
  /\ daily \in Seq([date : Nat, equity : Int])
RunTypes ==
  /\ index \in Nat /\ IsFeed(feed) /\ IsBars(bars) /\ now \in Nat
  /\ run = [t \in Tasks |-> run[t]]
  /\ \A t \in Tasks : run[t] = Idle \/ IsLoading(run[t])
  /\ hold \in [task : Tasks \cup {NoTask}, at : {"none", "next", "signals", "actions", "progress"},
               actions : Nat]
\* Who holds the loop has all its histories, and who does not waits for one.
HoldInv ==
  /\ hold.at = "none" => hold = Free
  /\ hold.at # "none" => hold.task \in Tasks /\ run[hold.task].at = "loading"
  /\ \A t \in Tasks : run[t].at = "loading" /\ t # hold.task => run[t].left # <<>>
EngineTypes == BookTypes /\ RunTypes /\ HoldInv

LEMMA DivInt ==
  ASSUME NEW a \in Int, NEW b \in Nat, b > 0
  PROVE  a \div b \in Int
  OBVIOUS

LEMMA TimesInt ==
  ASSUME NEW a \in Int, NEW b \in Int
  PROVE  a * b \in Int
  OBVIOUS

LEMMA TimesPositive ==
  ASSUME NEW a \in Nat, NEW b \in Nat, a > 0, b > 0
  PROVE  a * b \in Nat /\ a * b > 0
  OBVIOUS

LEMMA AmountsAreInts ==
  ASSUME NEW e \in Int, NEW size \in Sizes
  PROVE  /\ (e * size) \div SizeDen \in Int
         /\ \A v \in Int : (v * Rate) \div RateDen \in Int
         /\ \A v \in Int, side \in Sides, close \in Nat \ {0} : Quantity(v, side, close) \in Int
  <1>1. size \in Int /\ SizeDen \in Nat /\ SizeDen > 0 /\ Rate \in Int /\ RateDen \in Nat /\ RateDen > 0
        /\ Scale \in Int /\ SlipDen \in Nat /\ Slip \in Nat /\ SlipDen - Slip > 0 /\ SlipDen > 0
    BY BacktestAssumption
  <1>2. (e * size) \div SizeDen \in Int
    BY <1>1, TimesInt, DivInt
  <1>3. ASSUME NEW v \in Int PROVE (v * Rate) \div RateDen \in Int
    BY <1>1, TimesInt, DivInt
  <1>4. ASSUME NEW v \in Int, NEW side \in Sides, NEW close \in Nat \ {0}
        PROVE  Quantity(v, side, close) \in Int
    <2>1. PICK k : k = IF side = "buy" THEN SlipDen + Slip ELSE SlipDen - Slip
      OBVIOUS
    <2>2. k \in Nat /\ k > 0
      BY <1>1, <2>1
    <2>3. FillPrice(side, close) = close * k
      BY <2>1 DEF FillPrice
    <2>4. close * k \in Nat /\ close * k > 0
      BY <2>2, TimesPositive
    <2>5. v * Scale * SlipDen \in Int
      BY <1>1, TimesInt
    <2>6. (v * Scale * SlipDen) \div (close * k) \in Int
      BY <2>4, <2>5, DivInt
    <2> QED BY <2>3, <2>6 DEF Quantity
  <1> QED BY <1>2, <1>3, <1>4

\* The i-th time of the feed.
LEMMA TimeIs ==
  ASSUME IsFeed(feed), NEW i \in 1..BarCount
  PROVE  TimeAt(i) \in DOMAIN feed /\ Rank(DOMAIN feed, TimeAt(i)) = i - 1
  <1>1. BarCount \in Nat /\ i - 1 \in Nat /\ i - 1 < BarCount
    BY FS_CardinalityType DEF IsFeed, BarCount
  <1>2. \E t \in DOMAIN feed : Rank(DOMAIN feed, t) = i - 1
    BY <1>1, RankExists DEF IsFeed, BarCount
  <1>3. \E t \in DOMAIN feed : Cardinality({u \in DOMAIN feed : u < t}) = i - 1
    BY <1>2 DEF Rank
  <1> QED BY <1>3 DEF TimeAt, Rank

\* A history adds its symbol to the bars of its times.
LEMMA FeedGrows ==
  ASSUME NEW all, IsFeed(all), NEW s \in Symbols, NEW hist \in Histories,
         \A t \in DOMAIN all : s \notin DOMAIN all[t]
  PROVE  /\ IsFeed(WithHistory(all, s, hist))
         /\ \A t \in DOMAIN WithHistory(all, s, hist) :
              \A x \in DOMAIN WithHistory(all, s, hist)[t] :
                x = s \/ (t \in DOMAIN all /\ x \in DOMAIN all[t])
  <1>1. PICK h : h = WithHistory(all, s, hist)
    OBVIOUS
  <1>2. DOMAIN h = DOMAIN all \cup DOMAIN hist /\ h = [t \in DOMAIN h |-> h[t]]
    BY <1>1 DEF WithHistory
  <1>3. ASSUME NEW t \in DOMAIN h
        PROVE  IsBars(h[t]) /\ \A x \in DOMAIN h[t] : x = s \/ (t \in DOMAIN all /\ x \in DOMAIN all[t])
    <2>1. PICK before : before = IF t \in DOMAIN all THEN all[t] ELSE Nothing
      OBVIOUS
    <2>2. PICK D : D = DOMAIN before \cup (IF t \in DOMAIN hist THEN {s} ELSE {})
      OBVIOUS
    <2>3. h[t] = [x \in D |-> IF x = s THEN hist[t] ELSE before[x]]
      BY <1>1, <1>2, <1>3, <2>1, <2>2 DEF WithHistory
    <2>4. IsBars(before)
      BY <2>1 DEF IsFeed, IsBars, Nothing
    <2>5. \A x \in D : (x = s /\ (x \in DOMAIN before \/ t \in DOMAIN hist)) \/ x \in DOMAIN before
      BY <2>2
    <2>6. t \in DOMAIN hist => hist[t] \in Nat \ {0}
      BY BacktestAssumption
    <2>7. h[t] \in [D -> Nat \ {0}] /\ D \subseteq Symbols
      <3>1. ASSUME NEW x \in D
            PROVE  (IF x = s THEN hist[t] ELSE before[x]) \in Nat \ {0} /\ x \in Symbols
        <4>1. \A y \in DOMAIN before : before[y] \in Nat \ {0} /\ y \in Symbols
          BY <2>4 DEF IsBars
        <4>2. CASE x = s
          <5>1. t \in DOMAIN hist
            BY <4>2, <3>1, <2>1, <2>2 DEF Nothing
          <5> QED BY <5>1, <4>2, <2>6
        <4> QED BY <4>1, <4>2, <3>1, <2>5
      <3> QED BY <3>1, <2>3
    <2>8. IsBars(h[t])
      BY <2>7 DEF IsBars
    <2>9. \A x \in D : x = s \/ (t \in DOMAIN all /\ x \in DOMAIN all[t])
      BY <2>1, <2>5 DEF Nothing
    <2> QED BY <2>3, <2>8, <2>9
  <1>4. DOMAIN h \subseteq Nat /\ IsFiniteSet(DOMAIN h)
    <2>1. IsFiniteSet(DOMAIN hist) /\ DOMAIN hist \subseteq Nat
      BY BacktestAssumption
    <2>2. IsFiniteSet(DOMAIN all) /\ DOMAIN all \subseteq Nat
      BY DEF IsFeed
    <2>3. IsFiniteSet(DOMAIN all \cup DOMAIN hist)
      BY <2>1, <2>2, FS_Union
    <2> QED BY <1>2, <2>1, <2>2, <2>3
  <1> QED BY <1>1, <1>2, <1>3, <1>4 DEF IsFeed

\* The symbols of a setup, one after the other.
LEMMA SymbolsAreListed ==
  ASSUME NEW S \in SUBSET Symbols, S # {}
  PROVE  SetToSeq(S) \in Seq(Symbols) /\ Distinct(SetToSeq(S)) /\ SetToSeq(S) # <<>>
  <1>1. IsFiniteSet(S) /\ IsFiniteSet(Symbols)
    BY BacktestAssumption, FS_Subset
  <1>2. PICK n \in Nat : n = Cardinality(S)
    BY <1>1, FS_CardinalityType
  <1>3. n # 0
    BY <1>1, <1>2, FS_EmptySet
  <1>4. IsFiniteSet(1..n) /\ Cardinality(1..n) = n
    <2>1. \A a, b \in Int : Cardinality(a..b) = IF a > b THEN 0 ELSE b - a + 1
      BY FS_Interval
    <2>2. IsFiniteSet(1..n)
      BY FS_Interval, <1>2
    <2> QED BY <1>3, <2>1, <2>2
  <1>5. ExistsBijection(1..n, S)
    BY <1>1, <1>2, <1>4, FS_SameCardinalityBij
  <1>6. \E f \in [1..n -> S] : IsInjective(f)
    BY <1>5 DEF ExistsBijection, Bijection, Injection, IsInjective
  <1>7. PICK q : q = SetToSeq(S)
    OBVIOUS
  <1>8. q \in [1..n -> S] /\ IsInjective(q)
    BY <1>2, <1>6, <1>7 DEF SetToSeq
  <1>9. q \in Seq(S) /\ Len(q) = n
    BY <1>8
  <1>10. q \in Seq(Symbols)
    BY <1>9
  <1>11. Distinct(q)
    BY <1>8 DEF IsInjective, Distinct
  <1>12. q # <<>>
    BY <1>3, <1>9
  <1> QED BY <1>7, <1>10, <1>11, <1>12

-----------------------------------------------------------------------------
(* Types                                                                   *)

LEMMA SetupTypes ==
  ASSUME EngineTypes, Setup
  PROVE  EngineTypes'
  <1>1. PICK S \in (SUBSET Symbols) \ {{}}, capital \in Capitals :
          /\ config' = [id |-> config.id + 1, symbols |-> SetToSeq(S), capital |-> capital]
          /\ cash' = capital /\ equity' = capital /\ peak' = capital
    BY DEF Setup
  <1>2. SetToSeq(S) \in Seq(Symbols) /\ SetToSeq(S) # <<>> /\ Distinct(SetToSeq(S))
    BY SymbolsAreListed
  <1>3. positions' = Nothing /\ trades' = <<>> /\ daily' = <<>> /\ now' = 0
        /\ UNCHANGED <<feed, index, bars, run, hold>>
    BY DEF Setup
  <1>4. capital \in Nat
    BY BacktestAssumption
  <1>5. BookTypes'
    <2>1. PICK q : q = SetToSeq(S)
      OBVIOUS
    <2>2. config' = [id |-> config.id + 1, symbols |-> q, capital |-> capital]
      BY <1>1, <2>1
    <2>3. config.id + 1 \in Nat
      BY DEF EngineTypes, BookTypes
    <2>4. config' \in [id : Nat, symbols : Seq(Symbols), capital : Nat] /\ config'.symbols = q
      BY <2>1, <2>2, <2>3, <1>2, <1>4
    <2>5. cash' \in Int /\ equity' \in Int /\ peak' \in Int
      BY <1>1, <1>4
    <2>6. positions' \in [DOMAIN positions' -> Int] /\ DOMAIN positions' \subseteq Symbols
      BY <1>3 DEF Nothing
    <2>7. trades' \in Seq(Trade) /\ daily' \in Seq([date : Nat, equity : Int])
      BY <1>3
    <2> QED BY <1>2, <2>1, <2>4, <2>5, <2>6, <2>7 DEF BookTypes
  <1>6. RunTypes' /\ HoldInv'
    BY <1>3 DEF EngineTypes, RunTypes, HoldInv
  <1> QED BY <1>5, <1>6 DEF EngineTypes

LEMMA RunCallTypes ==
  ASSUME EngineTypes, NEW t \in Tasks, RunCall(t)
  PROVE  EngineTypes'
  <1>1. PICK q : q = config.symbols
    OBVIOUS
  <1>2. /\ run' = [run EXCEPT ![t] = [at |-> "loading", left |-> q, got |-> Nothing]]
        /\ hold = Free /\ config # NoConfig
        /\ UNCHANGED <<config, cash, equity, positions, trades, daily, peak, now, feed, index, bars, hold>>
    BY <1>1 DEF RunCall, books
  <1>3. q \in Seq(Symbols) /\ q # <<>> /\ Distinct(q)
    BY <1>1, <1>2 DEF EngineTypes, BookTypes
  <1>4. BookTypes'
    BY <1>2 DEF EngineTypes, BookTypes
  <1>5. run' = [u \in Tasks |-> run'[u]] /\ \A u \in Tasks \ {t} : run'[u] = run[u]
    BY <1>2 DEF EngineTypes, RunTypes
  <1>6. run'[t] = [at |-> "loading", left |-> q, got |-> Nothing]
    BY <1>2 DEF EngineTypes, RunTypes
  <1>7. IsLoading(run'[t])
    <2>1. IsFeed(Nothing)
      BY FS_EmptySet DEF IsFeed, Nothing
    <2>2. \A u \in DOMAIN Nothing : DOMAIN Nothing[u] \cap ToSet(q) = {}
      BY DEF Nothing
    <2> QED BY <1>3, <1>6, <2>1, <2>2 DEF IsLoading
  <1>8. RunTypes'
    BY <1>2, <1>5, <1>7 DEF EngineTypes, RunTypes
  <1>9. HoldInv'
    BY <1>2, <1>3, <1>5, <1>6, BacktestAssumption DEF EngineTypes, HoldInv, Free
  <1> QED BY <1>4, <1>8, <1>9 DEF EngineTypes

\* A history of symbol s joins what coroutine t has got.
Joins(t, left, got, s, g) ==
  /\ run[t] = [at |-> "loading", left |-> left, got |-> got]
  /\ left \in Seq(Symbols) /\ left # <<>> /\ Distinct(left) /\ s = left[1]
  /\ IsFeed(g)
  /\ run'[t] = [at |-> "loading", left |-> Tail(left), got |-> g]
  /\ IF Tail(left) = <<>>
       THEN feed' = g /\ index' = 0 /\ hold' = [task |-> t, at |-> "next", actions |-> 0]
       ELSE UNCHANGED <<feed, index, hold>>
  /\ \A u \in DOMAIN g : \A x \in DOMAIN g[u] : x = s \/ (u \in DOMAIN got /\ x \in DOMAIN got[u])
  /\ \A u \in DOMAIN got : DOMAIN got[u] \cap ToSet(left) = {}

LEMMA HistoryIs ==
  ASSUME EngineTypes, NEW t \in Tasks, HistoryArrives(t)
  PROVE  \E left, got, s, g : Joins(t, left, got, s, g)
  <1>1. run[t].at = "loading" /\ hold = Free
    BY DEF HistoryArrives
  <1>2. run[t] # Idle
    BY <1>1 DEF Idle
  <1>3. PICK left, got :
          /\ run[t] = [at |-> "loading", left |-> left, got |-> got]
          /\ left \in Seq(Symbols) /\ Distinct(left) /\ IsFeed(got)
          /\ \A u \in DOMAIN got : DOMAIN got[u] \cap ToSet(left) = {}
    BY <1>2 DEF EngineTypes, RunTypes, IsLoading
  <1>4. left # <<>>
    BY <1>1, <1>3, BacktestAssumption DEF EngineTypes, HoldInv, Free
  <1>5. PICK s : s = left[1]
    OBVIOUS
  <1>6. s \in Symbols /\ Head(left) = s /\ s \in ToSet(left)
    BY <1>3, <1>4, <1>5 DEF ToSet
  <1>7. PICK hist \in Histories :
          /\ run' = [run EXCEPT ![t] = [at |-> "loading", left |-> Tail(run[t].left),
                                        got |-> WithHistory(run[t].got, Head(run[t].left), hist)]]
          /\ IF Tail(run[t].left) = <<>>
               THEN /\ feed' = WithHistory(run[t].got, Head(run[t].left), hist) /\ index' = 0
                    /\ hold' = [task |-> t, at |-> "next", actions |-> 0]
               ELSE UNCHANGED <<feed, index, hold>>
    BY DEF HistoryArrives
  <1>8. PICK g : g = WithHistory(got, s, hist)
    OBVIOUS
  <1>9. run[t].left = left /\ run[t].got = got
    BY <1>3
  <1>10. IsFeed(g) /\ \A u \in DOMAIN g : \A x \in DOMAIN g[u] :
                        x = s \/ (u \in DOMAIN got /\ x \in DOMAIN got[u])
    BY <1>3, <1>6, <1>8, FeedGrows
  <1>11. run' = [run EXCEPT ![t] = [at |-> "loading", left |-> Tail(left), got |-> g]]
         /\ IF Tail(left) = <<>>
               THEN /\ feed' = g /\ index' = 0
                    /\ hold' = [task |-> t, at |-> "next", actions |-> 0]
               ELSE UNCHANGED <<feed, index, hold>>
    BY <1>6, <1>7, <1>8, <1>9
  <1>12. run'[t] = [at |-> "loading", left |-> Tail(left), got |-> g]
    BY <1>11 DEF EngineTypes, RunTypes
    <1>13. Joins(t, left, got, s, g)
    BY <1>3, <1>4, <1>5, <1>10, <1>11, <1>12 DEF Joins
  <1> QED BY <1>13

LEMMA HistoryTypes ==
  ASSUME EngineTypes, NEW t \in Tasks, HistoryArrives(t)
  PROVE  EngineTypes'
  <1>0. PICK left, got, s, g : Joins(t, left, got, s, g)
    BY HistoryIs
  <1>1. /\ run[t] = [at |-> "loading", left |-> left, got |-> got]
        /\ left \in Seq(Symbols) /\ left # <<>> /\ Distinct(left) /\ IsFeed(g) /\ s = left[1]
        /\ run'[t] = [at |-> "loading", left |-> Tail(left), got |-> g]
        /\ IF Tail(left) = <<>>
             THEN feed' = g /\ index' = 0 /\ hold' = [task |-> t, at |-> "next", actions |-> 0]
             ELSE UNCHANGED <<feed, index, hold>>
        /\ \A u \in DOMAIN g : \A x \in DOMAIN g[u] : x = s \/ (u \in DOMAIN got /\ x \in DOMAIN got[u])
        /\ \A u \in DOMAIN got : DOMAIN got[u] \cap ToSet(left) = {}
    BY <1>0 DEF Joins
  <1>2. /\ hold = Free
        /\ UNCHANGED <<config, cash, equity, positions, trades, daily, peak, now, bars>>
    BY DEF HistoryArrives, books
  <1>3. run' = [u \in Tasks |-> run'[u]] /\ \A u \in Tasks \ {t} : run'[u] = run[u]
    <2>1. PICK r : run' = [run EXCEPT ![t] = r]
      BY DEF HistoryArrives
    <2> QED BY <2>1 DEF EngineTypes, RunTypes
  <1>4. Tail(left) \in Seq(Symbols) /\ Distinct(Tail(left)) /\ \A x \in ToSet(Tail(left)) : x # s /\ x \in ToSet(left)
    <2>1. PICK q : q = Tail(left)
      OBVIOUS
    <2>2. q \in Seq(Symbols) /\ Len(q) = Len(left) - 1 /\ \A i \in 1..Len(q) : q[i] = left[i + 1]
      BY <1>1, <2>1
    <2>3. DOMAIN left = 1..Len(left) /\ DOMAIN q = 1..Len(q) /\ Len(left) \in Nat /\ Len(q) \in Nat
      BY <1>1, <2>2
    <2>4. Distinct(q)
      <3>1. SUFFICES ASSUME NEW i \in DOMAIN q, NEW j \in DOMAIN q, q[i] = q[j] PROVE i = j
        BY DEF Distinct
      <3>2. left[i + 1] = left[j + 1] /\ i + 1 \in DOMAIN left /\ j + 1 \in DOMAIN left
        BY <2>2, <2>3, <3>1
      <3>3. i + 1 = j + 1
        BY <3>2, <1>1 DEF Distinct
      <3> QED BY <3>3, <2>3
    <2>5. ASSUME NEW x \in ToSet(q) PROVE x # s /\ x \in ToSet(left)
      <3>1. PICK i \in DOMAIN q : q[i] = x
        BY DEF ToSet
      <3>2. i + 1 \in DOMAIN left /\ left[i + 1] = x /\ 1 \in DOMAIN left /\ i + 1 # 1
        BY <2>2, <2>3, <3>1
      <3>3. left[i + 1] # left[1]
        BY <3>2, <1>1 DEF Distinct
      <3> QED BY <3>2, <3>3, <1>1 DEF ToSet
    <2> QED BY <2>1, <2>2, <2>4, <2>5
  <1>5. IsLoading(run'[t])
    <2>1. \A u \in DOMAIN g : DOMAIN g[u] \cap ToSet(Tail(left)) = {}
      BY <1>1, <1>4
    <2> QED BY <1>1, <1>4, <2>1 DEF IsLoading
  <1>6. hold' \in [task : Tasks \cup {NoTask}, at : {"none", "next", "signals", "actions", "progress"},
                   actions : Nat]
    BY <1>1 DEF EngineTypes, RunTypes
  <1>7. RunTypes'
    <2>1. index' \in Nat /\ IsFeed(feed)'
      <3>1. (index' = 0 /\ feed' = g) \/ (index' = index /\ feed' = feed)
        BY <1>1
      <3> QED BY <3>1, <1>1 DEF EngineTypes, RunTypes, IsFeed
    <2>2. \A u \in Tasks : run'[u] = Idle \/ IsLoading(run'[u])
      BY <1>3, <1>5 DEF EngineTypes, RunTypes
    <2>3. IsBars(bars)' /\ now' \in Nat
      BY <1>2 DEF EngineTypes, RunTypes
    <2> QED BY <2>1, <2>2, <2>3, <1>3, <1>6 DEF RunTypes
  <1>8. HoldInv'
    <2>1. run'[t].at = "loading" /\ run'[t].left = Tail(left)
      BY <1>1
    <2>2. \A u \in Tasks \ {t} : run'[u].at = "loading" => run'[u].left # <<>>
      BY <1>2, <1>3, BacktestAssumption DEF EngineTypes, HoldInv, Free
    <2>3. CASE Tail(left) = <<>>
      <3>1. hold' = [task |-> t, at |-> "next", actions |-> 0]
        BY <1>1, <2>3
      <3> QED BY <2>1, <2>2, <3>1 DEF HoldInv
    <2>4. CASE Tail(left) # <<>>
      <3>1. hold' = Free
        BY <1>1, <1>2, <2>4
      <3> QED BY <2>1, <2>2, <2>4, <3>1 DEF HoldInv, Free
    <2> QED BY <2>3, <2>4
  <1>9. BookTypes'
    BY <1>2 DEF EngineTypes, BookTypes
  <1> QED BY <1>7, <1>8, <1>9 DEF EngineTypes

LEMMA NextBarTypes ==
  ASSUME EngineTypes, NextBar
  PROVE  EngineTypes' /\ index' = index + 1 /\ now' = TimeAt(index') /\ now' \in DOMAIN feed
         /\ index' \in 1..BarCount /\ Rank(DOMAIN feed, now') = index
  <1>1. /\ index < BarCount /\ index' = index + 1 /\ now' = TimeAt(index') /\ bars' = feed[now']
        /\ UNCHANGED <<config, cash, equity, positions, trades, daily, peak, feed, run>>
    BY DEF NextBar
  <1>2. index \in Nat /\ BarCount \in Nat
    BY FS_CardinalityType DEF EngineTypes, RunTypes, IsFeed, BarCount
  <1>3. PICK i : i = index + 1
    OBVIOUS
  <1>4. i \in 1..BarCount /\ i - 1 = index
    BY <1>1, <1>2, <1>3
  <1>5. now' = TimeAt(i)
    BY <1>1, <1>3
  <1>6. now' \in DOMAIN feed /\ Rank(DOMAIN feed, now') = index
    BY <1>4, <1>5, TimeIs DEF EngineTypes, RunTypes
  <1>7. IsBars(bars') /\ now' \in Nat
    BY <1>1, <1>6 DEF EngineTypes, RunTypes, IsFeed
  <1>8. hold.at # "none" /\ hold' = [hold EXCEPT !.at = "signals", !.actions = 0]
    BY DEF NextBar
  <1>9. PICK h : h = [hold EXCEPT !.at = "signals"]
    OBVIOUS
  <1>10. hold' = [h EXCEPT !.actions = 0]
    BY <1>8, <1>9
  <1>11. hold' = [task |-> hold.task, at |-> "signals", actions |-> 0]
    BY <1>9, <1>10 DEF EngineTypes, RunTypes
  <1>12. hold.task \in Tasks
    BY <1>8 DEF EngineTypes, HoldInv
  <1>13. RunTypes'
    BY <1>1, <1>2, <1>7, <1>11, <1>12 DEF EngineTypes, RunTypes
  <1>14. HoldInv'
    BY <1>1, <1>8, <1>11, <1>12 DEF EngineTypes, HoldInv
  <1>15. BookTypes'
    BY <1>1 DEF EngineTypes, BookTypes
  <1> QED BY <1>1, <1>3, <1>4, <1>6, <1>13, <1>14, <1>15 DEF EngineTypes

\* What an action does to the books.
LEMMA ActionIs ==
  ASSUME EngineTypes, ProcessAction
  PROVE  \E s \in DOMAIN bars, side \in Sides : \E value, commission, quantity \in Int :
           /\ s \in Symbols
           /\ cash' = IF side = "buy" THEN cash - (value + commission) ELSE cash + (value - commission)
           /\ LET q == Held(s) + (IF side = "buy" THEN quantity ELSE -quantity) IN
              /\ positions' = IF side = "sell" /\ q <= 0
                                THEN [x \in DOMAIN positions \ {s} |-> positions[x]]
                                ELSE [x \in DOMAIN positions \cup {s} |-> IF x = s THEN q ELSE positions[x]]
              /\ oversold' = (oversold \/ q < 0)
           /\ trades' = Append(trades, [symbol |-> s, side |-> side, quantity |-> quantity,
                                        value |-> value, commission |-> commission])
  <1>1. PICK s \in DOMAIN bars, side \in Sides, size \in Sizes :
          LET value == (equity * size) \div SizeDen
              quantity == Quantity(value, side, bars[s])
              commission == (value * Rate) \div RateDen
              q == Held(s) + (IF side = "buy" THEN quantity ELSE -quantity)
          IN
          /\ cash' = IF side = "buy" THEN cash - (value + commission) ELSE cash + (value - commission)
          /\ positions' = IF side = "sell" /\ q <= 0
                            THEN Restrict(positions, DOMAIN positions \ {s})
                            ELSE [x \in DOMAIN positions \cup {s} |-> IF x = s THEN q ELSE positions[x]]
          /\ oversold' = (oversold \/ q < 0)
          /\ trades' = Append(trades, [symbol |-> s, side |-> side, quantity |-> quantity,
                                       value |-> value, commission |-> commission])
    BY DEF ProcessAction
  <1>2. PICK value : value = (equity * size) \div SizeDen
    OBVIOUS
  <1>3. PICK quantity : quantity = Quantity(value, side, bars[s])
    OBVIOUS
  <1>4. PICK commission : commission = (value * Rate) \div RateDen
    OBVIOUS
  <1>5. equity \in Int /\ s \in Symbols /\ bars[s] \in Nat \ {0}
    BY DEF EngineTypes, BookTypes, RunTypes, IsBars
  <1>6. value \in Int
    BY <1>2, <1>5, AmountsAreInts
  <1>7. quantity \in Int
    BY <1>3, <1>5, <1>6, AmountsAreInts
  <1>8. commission \in Int
    BY <1>4, <1>5, <1>6, AmountsAreInts
  <1>9. LET q == Held(s) + (IF side = "buy" THEN quantity ELSE -quantity) IN
        /\ cash' = IF side = "buy" THEN cash - (value + commission) ELSE cash + (value - commission)
        /\ positions' = IF side = "sell" /\ q <= 0
                          THEN [x \in DOMAIN positions \ {s} |-> positions[x]]
                          ELSE [x \in DOMAIN positions \cup {s} |-> IF x = s THEN q ELSE positions[x]]
        /\ oversold' = (oversold \/ q < 0)
        /\ trades' = Append(trades, [symbol |-> s, side |-> side, quantity |-> quantity,
                                     value |-> value, commission |-> commission])
    BY <1>1, <1>2, <1>3, <1>4 DEF Restrict
  <1> QED BY <1>5, <1>6, <1>7, <1>8, <1>9

LEMMA HeldInt ==
  ASSUME BookTypes, NEW s
  PROVE  Held(s) \in Int
  BY DEF BookTypes, Held

LEMMA ActionTypes ==
  ASSUME EngineTypes, ProcessAction
  PROVE  EngineTypes'
  <1>1. PICK s \in DOMAIN bars, side \in Sides : \E value, commission, quantity \in Int :
           /\ s \in Symbols
           /\ cash' = IF side = "buy" THEN cash - (value + commission) ELSE cash + (value - commission)
           /\ LET q == Held(s) + (IF side = "buy" THEN quantity ELSE -quantity) IN
              /\ positions' = IF side = "sell" /\ q <= 0
                                THEN [x \in DOMAIN positions \ {s} |-> positions[x]]
                                ELSE [x \in DOMAIN positions \cup {s} |-> IF x = s THEN q ELSE positions[x]]
              /\ oversold' = (oversold \/ q < 0)
           /\ trades' = Append(trades, [symbol |-> s, side |-> side, quantity |-> quantity,
                                        value |-> value, commission |-> commission])
    BY ActionIs
  <1>2. PICK value \in Int, commission \in Int, quantity \in Int :
           /\ s \in Symbols
           /\ cash' = IF side = "buy" THEN cash - (value + commission) ELSE cash + (value - commission)
           /\ LET q == Held(s) + (IF side = "buy" THEN quantity ELSE -quantity) IN
              /\ positions' = IF side = "sell" /\ q <= 0
                                THEN [x \in DOMAIN positions \ {s} |-> positions[x]]
                                ELSE [x \in DOMAIN positions \cup {s} |-> IF x = s THEN q ELSE positions[x]]
              /\ oversold' = (oversold \/ q < 0)
           /\ trades' = Append(trades, [symbol |-> s, side |-> side, quantity |-> quantity,
                                        value |-> value, commission |-> commission])
    BY <1>1
  <1>3. PICK q : q = Held(s) + (IF side = "buy" THEN quantity ELSE -quantity)
    OBVIOUS
  <1>4. q \in Int
    BY <1>3, HeldInt DEF EngineTypes
  <1>5. positions' \in [DOMAIN positions' -> Int] /\ DOMAIN positions' \subseteq Symbols
    BY <1>2, <1>3, <1>4 DEF EngineTypes, BookTypes
  <1>6. trades' \in Seq(Trade)
    BY <1>2 DEF EngineTypes, BookTypes, Trade
  <1>7. cash' \in Int
    BY <1>2 DEF EngineTypes, BookTypes
  <1>8. UNCHANGED <<config, equity, daily, peak, now, feed, index, bars, run>>
        /\ hold.at \in {"signals", "actions"}
        /\ hold' = [hold EXCEPT !.at = "actions", !.actions = @ + 1]
    BY DEF ProcessAction
  <1>9. BookTypes'
    BY <1>5, <1>6, <1>7, <1>8 DEF EngineTypes, BookTypes
  <1>10. hold' = [task |-> hold.task, at |-> "actions", actions |-> hold.actions + 1]
    <2>1. PICK h : h = [hold EXCEPT !.at = "actions"]
      OBVIOUS
    <2>2. h.actions = hold.actions /\ hold' = [h EXCEPT !.actions = hold.actions + 1]
      BY <1>8, <2>1 DEF EngineTypes, RunTypes
    <2> QED BY <2>1, <2>2 DEF EngineTypes, RunTypes
  <1>11. hold.task \in Tasks /\ hold.actions + 1 \in Nat
    BY <1>8 DEF EngineTypes, HoldInv, RunTypes
  <1>12. RunTypes'
    BY <1>8, <1>10, <1>11 DEF EngineTypes, RunTypes
  <1>13. HoldInv'
    BY <1>8, <1>10, <1>11 DEF EngineTypes, HoldInv
  <1> QED BY <1>9, <1>12, <1>13 DEF EngineTypes

\* The worth of the positions at the closes of the bars.
Worths == [s \in DOMAIN positions \cap DOMAIN bars |-> Worth(positions[s], bars[s])]

LEMMA WorthInt ==
  ASSUME NEW q \in Int, NEW p \in Nat
  PROVE  Worth(q, p) \in Int /\ Worth(0, p) = 0
  <1>1. Scale \in Nat /\ Scale > 0
    BY BacktestAssumption
  <1>2. q * p \in Int /\ 0 * p = 0
    BY TimesInt
  <1>3. (q * p) \div Scale \in Int /\ 0 \div Scale = 0
    BY <1>1, <1>2, DivInt
  <1> QED BY <1>2, <1>3 DEF Worth

LEMMA WorthsAreInts ==
  ASSUME EngineTypes
  PROVE  /\ IsFiniteSet(DOMAIN positions) /\ IsFiniteSet(DOMAIN bars)
         /\ IsFiniteSet(DOMAIN positions \cap DOMAIN bars)
         /\ \A s \in DOMAIN Worths : Worths[s] \in Int
         /\ SumFunction(Worths) \in Int
  <1>1. IsFiniteSet(Symbols)
    BY BacktestAssumption
  <1>2. DOMAIN positions \subseteq Symbols /\ DOMAIN bars \subseteq Symbols
    BY DEF EngineTypes, BookTypes, RunTypes, IsBars
  <1>3. IsFiniteSet(DOMAIN positions) /\ IsFiniteSet(DOMAIN bars)
        /\ IsFiniteSet(DOMAIN positions \cap DOMAIN bars)
    BY <1>1, <1>2, FS_Subset
  <1>4. ASSUME NEW s \in DOMAIN positions \cap DOMAIN bars PROVE Worth(positions[s], bars[s]) \in Int
    <2>1. positions[s] \in Int /\ bars[s] \in Nat
      BY DEF EngineTypes, BookTypes, RunTypes, IsBars
    <2> QED BY <2>1, WorthInt
  <1>5. DOMAIN Worths = DOMAIN positions \cap DOMAIN bars /\ \A s \in DOMAIN Worths : Worths[s] \in Int
    BY <1>4 DEF Worths
  <1>6. SumFunctionOnSet(Worths, DOMAIN Worths) \in Int
    BY <1>3, <1>5, SumInt
  <1> QED BY <1>3, <1>5, <1>6 DEF SumFunction

LEMMA BarEndsTypes ==
  ASSUME EngineTypes, BarEnds
  PROVE  EngineTypes'
  <1>1. /\ equity' = cash + SumFunction(Worths)
        /\ peak' = IF equity' > peak THEN equity' ELSE peak
        /\ UNCHANGED <<config, cash, positions, trades, now, feed, index, bars, run>>
    BY DEF BarEnds, Worths
  <1>2. equity' \in Int
    BY <1>1, WorthsAreInts DEF EngineTypes, BookTypes
  <1>3. peak' \in Int
    BY <1>1, <1>2 DEF EngineTypes, BookTypes
  <1>4. Date(now) \in Nat
    BY BacktestAssumption DEF EngineTypes, RunTypes, Date
  <1>5. daily' \in Seq([date : Nat, equity : Int])
    <2>1. PICK d : d = Date(now)
      OBVIOUS
    <2>2. daily' = daily \/ daily' = Append(daily, [date |-> d, equity |-> equity'])
      BY <2>1 DEF BarEnds
    <2>3. PICK r : r = [date |-> d, equity |-> equity']
      OBVIOUS
    <2>4. r \in [date : Nat, equity : Int]
      BY <1>2, <1>4, <2>1, <2>3
    <2>5. daily \in Seq([date : Nat, equity : Int])
      BY DEF EngineTypes, BookTypes
    <2> HIDE <2>3
    <2>6. Append(daily, r) \in Seq([date : Nat, equity : Int])
      BY <2>4, <2>5
    <2> QED BY <2>2, <2>3, <2>5, <2>6
  <1>6. BookTypes'
    BY <1>1, <1>2, <1>3, <1>5 DEF EngineTypes, BookTypes
  <1>7. hold.at \in {"signals", "actions"} /\ hold' = [hold EXCEPT !.at = "progress"]
    BY DEF BarEnds
  <1>8. hold' = [task |-> hold.task, at |-> "progress", actions |-> hold.actions] /\ hold.task \in Tasks
    BY <1>7 DEF EngineTypes, RunTypes, HoldInv
  <1>9. RunTypes' /\ HoldInv'
    BY <1>1, <1>7, <1>8 DEF EngineTypes, RunTypes, HoldInv
  <1> QED BY <1>6, <1>9 DEF EngineTypes

LEMMA EndsTypes ==
  ASSUME EngineTypes, NEW o, Ends(o), hold.at # "none"
  PROVE  EngineTypes' /\ hold' = Free /\ run'[hold.task] = Idle /\ hold.task \in Tasks
         /\ \A t \in Tasks \ {hold.task} : run'[t] = run[t]
  <1>1. /\ run' = [run EXCEPT ![hold.task] = Idle] /\ hold' = Free
        /\ UNCHANGED <<config, cash, equity, positions, trades, daily, peak, now, feed, index, bars>>
    BY DEF Ends, books
  <1>2. hold.task \in Tasks
    BY DEF EngineTypes, HoldInv
  <1>3. PICK t : t = hold.task
    OBVIOUS
  <1>4. run' = [u \in Tasks |-> run'[u]] /\ run'[t] = Idle /\ \A u \in Tasks \ {t} : run'[u] = run[u]
    BY <1>1, <1>2, <1>3 DEF EngineTypes, RunTypes
  <1>5. BookTypes'
    BY <1>1 DEF EngineTypes, BookTypes
  <1>6. RunTypes'
    BY <1>1, <1>4 DEF EngineTypes, RunTypes, Free
  <1>7. HoldInv'
    BY <1>1, <1>3, <1>4 DEF EngineTypes, HoldInv, Free, Idle
  <1> QED BY <1>1, <1>2, <1>3, <1>4, <1>5, <1>6, <1>7 DEF EngineTypes

LEMMA HistoryRaisesTypes ==
  ASSUME EngineTypes, NEW t \in Tasks, HistoryRaises(t)
  PROVE  EngineTypes' /\ run'[t] = Idle /\ \A u \in Tasks \ {t} : run'[u] = run[u]
  <1>1. /\ run' = [run EXCEPT ![t] = Idle] /\ hold = Free
        /\ UNCHANGED <<config, cash, equity, positions, trades, daily, peak, now, feed, index, bars, hold>>
    BY DEF HistoryRaises, books
  <1>2. run' = [u \in Tasks |-> run'[u]] /\ run'[t] = Idle /\ \A u \in Tasks \ {t} : run'[u] = run[u]
    BY <1>1 DEF EngineTypes, RunTypes
  <1>3. BookTypes'
    BY <1>1 DEF EngineTypes, BookTypes
  <1>4. RunTypes'
    BY <1>1, <1>2 DEF EngineTypes, RunTypes
  <1>5. HoldInv'
    BY <1>1, <1>2 DEF EngineTypes, HoldInv, Free, Idle
  <1> QED BY <1>2, <1>3, <1>4, <1>5 DEF EngineTypes

LEMMA StopTypes ==
  ASSUME EngineTypes, Stop \/ UNCHANGED backtestVars
  PROVE  EngineTypes'
  <1>1. UNCHANGED <<config, cash, equity, positions, trades, daily, peak, now, feed, index, bars, run, hold>>
    BY DEF Stop, books, backtestVars
  <1> QED BY <1>1 DEF EngineTypes, BookTypes, RunTypes, HoldInv

LEMMA EngineTypesStart ==
  ASSUME BacktestInit
  PROVE  EngineTypes
  <1>1. IsFeed(Nothing) /\ IsBars(Nothing)
    BY FS_EmptySet DEF IsFeed, IsBars, Nothing
  <1>2. BookTypes
    BY DEF BacktestInit, BookTypes, NoConfig, Nothing, Distinct
  <1>3. RunTypes
    BY <1>1 DEF BacktestInit, RunTypes, Free
  <1>4. HoldInv
    BY DEF BacktestInit, HoldInv, Free, Idle
  <1> QED BY <1>2, <1>3, <1>4 DEF EngineTypes

LEMMA CompletesIs ==
  ASSUME Completes
  PROVE  /\ hold.at \in {"next", "progress"} /\ index >= BarCount
         /\ \E o \in {"failed", "completed"} : Ends(o)
  BY DEF Completes

LEMMA EngineTypesStep ==
  ASSUME EngineTypes, [BacktestNext]_backtestVars
  PROVE  EngineTypes'
  <1>1. CASE Setup
    BY <1>1, SetupTypes
  <1>2. CASE Stop \/ UNCHANGED backtestVars
    BY <1>2, StopTypes
  <1>3. CASE NextBar
    BY <1>3, NextBarTypes
  <1>4. CASE ProcessAction
    BY <1>4, ActionTypes
  <1>5. CASE BarEnds
    BY <1>5, BarEndsTypes
  <1>6. CASE Completes
    <2>1. PICK o : Ends(o) /\ hold.at # "none"
      BY <1>6, CompletesIs
    <2> QED BY <2>1, EndsTypes
  <1>7. CASE BarRaises
    <2>1. Ends("failed") /\ hold.at # "none"
      BY <1>7 DEF BarRaises
    <2> QED BY <2>1, EndsTypes
  <1>8. ASSUME NEW t \in Tasks, RunCall(t) PROVE EngineTypes'
    BY <1>8, RunCallTypes
  <1>9. ASSUME NEW t \in Tasks, HistoryArrives(t) PROVE EngineTypes'
    BY <1>9, HistoryTypes
  <1>10. ASSUME NEW t \in Tasks, HistoryRaises(t) PROVE EngineTypes'
    BY <1>10, HistoryRaisesTypes
  <1> QED BY <1>1, <1>2, <1>3, <1>4, <1>5, <1>6, <1>7, <1>8, <1>9, <1>10 DEF BacktestNext

-----------------------------------------------------------------------------
(* The books                                                               *)

BookInv ==
  /\ oversold \in BOOLEAN
  /\ cash = Invested
  /\ oversold \/ \A s \in Symbols : Held(s) = Traded(s) /\ Held(s) >= 0
  /\ marked => equity = cash + SumFunction(Worths)
  /\ peak >= equity

\* Trades, positions and configuration account for the same, as long as they stay.
LEMMA AccountsStay ==
  ASSUME UNCHANGED <<config, trades, positions>>
  PROVE  Invested' = Invested /\ \A s : Held(s)' = Held(s) /\ Traded(s)' = Traded(s)
  <1>1. Invested' = Invested
    BY DEF Invested
  <1>2. \A s : Held(s)' = Held(s)
    BY DEF Held
  <1>3. \A s : Traded(s)' = Traded(s)
    BY DEF Traded, TradesOf
  <1> QED BY <1>1, <1>2, <1>3

\* Without trades the money is the capital.
LEMMA NothingTraded ==
  ASSUME trades = <<>>, config.capital \in Int
  PROVE  Invested = config.capital /\ \A s : Traded(s) = 0
  <1>1. DOMAIN trades = {}
    BY DEF Invested
  <1>2. Invested = config.capital + 0
    <2>1. PICK f : f = [i \in DOMAIN trades |-> Flow(trades[i])]
      OBVIOUS
    <2>2. SumFunction(f) = 0
      BY <1>1, <2>1, SumEmpty DEF SumFunction
    <2> QED BY <2>1, <2>2 DEF Invested
  <1>3. ASSUME NEW s PROVE Traded(s) = 0
    <2>1. TradesOf(s) = {}
      BY <1>1 DEF TradesOf
    <2> QED BY <2>1, SumEmpty DEF Traded
  <1> QED BY <1>2, <1>3

\* One more trade moves the money by its flow and the quantity of its symbol.
LEMMA TradeAccounts ==
  ASSUME BookTypes, NEW tr \in Trade, trades' = Append(trades, tr), config' = config
  PROVE  /\ Invested \in Int /\ Invested' = Invested + Flow(tr) /\ Flow(tr) \in Int
         /\ \A s : /\ Traded(s) \in Int /\ SignedQuantity(tr) \in Int
                   /\ Traded(s)' = Traded(s) + (IF tr.symbol = s THEN SignedQuantity(tr) ELSE 0)
  <1> DEFINE n == Len(trades)
             f == [i \in DOMAIN trades |-> Flow(trades[i])]
             g == [i \in DOMAIN trades' |-> Flow(trades'[i])]
             p == [i \in DOMAIN trades |-> SignedQuantity(trades[i])]
             q == [i \in DOMAIN trades' |-> SignedQuantity(trades'[i])]
  <1>1. /\ n \in Nat /\ DOMAIN trades = 1..n /\ DOMAIN trades' = 1..(n + 1)
        /\ \A i \in 1..n : trades'[i] = trades[i] /\ trades[i] \in Trade
        /\ trades'[n + 1] = tr
    BY DEF BookTypes
  <1>2. \A r \in Trade : Flow(r) \in Int /\ SignedQuantity(r) \in Int
    BY DEF Flow, SignedQuantity, Trade, Sides
  <1>3. /\ \A i \in 1..n : f[i] \in Int /\ g[i] = f[i] /\ p[i] \in Int /\ q[i] = p[i]
        /\ g[n + 1] = Flow(tr) /\ q[n + 1] = SignedQuantity(tr)
    BY <1>1, <1>2
  <1>4. DOMAIN f = 1..n /\ DOMAIN g = 1..(n + 1) /\ 1..(n + 1) = (1..n) \cup {n + 1} /\ n + 1 \notin 1..n
    BY <1>1
  <1>5. IsFiniteSet(1..n)
    <2>1. n \in Int /\ 1 \in Int
      BY <1>1
    <2> QED BY <2>1, FS_Interval
  <1>6. Invested = config.capital + SumFunctionOnSet(f, 1..n)
        /\ Invested' = config.capital + SumFunctionOnSet(g, (1..n) \cup {n + 1})
    <2>1. Invested = config.capital + SumFunction(f)
      BY DEF Invested
    <2>2. Invested' = config.capital + SumFunction(g)
      BY DEF Invested
    <2>3. SumFunction(f) = SumFunctionOnSet(f, 1..n)
      BY <1>4 DEF SumFunction
    <2>4. SumFunction(g) = SumFunctionOnSet(g, (1..n) \cup {n + 1})
      BY <1>4 DEF SumFunction
    <2> QED BY <2>1, <2>2, <2>3, <2>4
  <1>7. ASSUME NEW s PROVE Traded(s) = SumFunctionOnSet(p, TradesOf(s)) /\ Traded(s)' = SumFunctionOnSet(q, TradesOf(s)')
    BY DEF Traded
  <1>8. ASSUME NEW s
        PROVE  /\ TradesOf(s) \subseteq 1..n
               /\ TradesOf(s)' = IF tr.symbol = s THEN TradesOf(s) \cup {n + 1} ELSE TradesOf(s)
    BY <1>1 DEF TradesOf
  <1>9. SumFunctionOnSet(f, 1..n) \in Int
        /\ SumFunctionOnSet(g, (1..n) \cup {n + 1}) = SumFunctionOnSet(f, 1..n) + g[n + 1]
    <2> HIDE DEF f, g, n
    <2>1. SumFunctionOnSet(f, 1..n) \in Int
      BY <1>3, <1>5, SumInt
    <2>2. PICK S, m : S = 1..n /\ m = n + 1
      OBVIOUS
    <2>3. IsFiniteSet(S) /\ m \notin S /\ g[m] \in Int /\ \A i \in S : f[i] \in Int /\ g[i] = f[i]
      BY <1>2, <1>3, <1>4, <1>5, <2>2
    <2>4. SumFunctionOnSet(g, S \cup {m}) = SumFunctionOnSet(f, S) + g[m]
      BY <2>3, SumGrows
    <2> QED BY <2>1, <2>2, <2>4
  <1>10. ASSUME NEW s
         PROVE  /\ SumFunctionOnSet(p, TradesOf(s)) \in Int
                /\ SumFunctionOnSet(q, TradesOf(s)) = SumFunctionOnSet(p, TradesOf(s))
                /\ SumFunctionOnSet(q, TradesOf(s) \cup {n + 1}) =
                     SumFunctionOnSet(p, TradesOf(s)) + q[n + 1]
    <2> HIDE DEF p, q, n
    <2>1. PICK T : T = TradesOf(s)
      OBVIOUS
    <2>2. IsFiniteSet(T) /\ T \subseteq 1..n /\ n + 1 \notin T
      BY <1>4, <1>5, <1>8, <2>1, FS_Subset
    <2>3. \A i \in T : p[i] \in Int /\ q[i] = p[i]
      BY <1>3, <2>2
    <2>4. SumFunctionOnSet(p, T) \in Int
      BY <2>2, <2>3, SumInt
    <2>5. SumFunctionOnSet(p, T) = SumFunctionOnSet(q, T)
      BY <2>2, <2>3, SumSame
    <2>6. PICK m : m = n + 1
      OBVIOUS
    <2>7. m \notin T /\ q[m] \in Int
      BY <1>2, <1>3, <2>2, <2>6
    <2>8. SumFunctionOnSet(q, T \cup {m}) = SumFunctionOnSet(p, T) + q[m]
      BY <2>2, <2>3, <2>7, SumGrows
    <2> QED BY <2>1, <2>4, <2>5, <2>6, <2>8
  <1>11. Invested \in Int /\ Invested' = Invested + Flow(tr)
    <2>1. config.capital \in Int
      BY DEF BookTypes
    <2> HIDE DEF f, g, n
    <2> QED BY <2>1, <1>2, <1>3, <1>6, <1>9
  <1>12. ASSUME NEW s
         PROVE  Traded(s) \in Int
                /\ Traded(s)' = Traded(s) + (IF tr.symbol = s THEN SignedQuantity(tr) ELSE 0)
    <2> HIDE DEF p, q, n
    <2>1. CASE tr.symbol = s
      BY <2>1, <1>3, <1>7, <1>8, <1>10
    <2>2. CASE tr.symbol # s
      <3>1. Traded(s)' = Traded(s) /\ Traded(s) \in Int
        BY <2>2, <1>7, <1>8, <1>10
      <3> QED BY <3>1, <2>2
    <2> QED BY <2>1, <2>2
  <1> QED BY <1>2, <1>11, <1>12

LEMMA SetupBooks ==
  ASSUME EngineTypes, Setup
  PROVE  BookInv'
  <1>1. PICK S \in {SetToSeq(T) : T \in (SUBSET Symbols) \ {{}}}, capital \in Capitals :
          /\ config' = [id |-> config.id + 1, symbols |-> S, capital |-> capital]
          /\ cash' = capital /\ equity' = capital /\ peak' = capital
    BY DEF Setup
  <1>2. trades' = <<>> /\ positions' = Nothing /\ oversold' = FALSE /\ marked' = FALSE
    BY DEF Setup
  <1>3. config'.capital = capital /\ capital \in Int
    BY <1>1, BacktestAssumption
  <1>4. Invested' = capital /\ \A s \in Symbols : Traded(s)' = 0
    <2>1. (trades = <<>> /\ config.capital \in Int => Invested = config.capital /\ \A s : Traded(s) = 0)'
      BY NothingTraded, PTL
    <2> QED BY <2>1, <1>2, <1>3
  <1>5. \A s \in Symbols : Held(s)' = 0
    BY <1>2 DEF Held, Nothing
  <1>6. \A s \in Symbols : Held(s)' = Traded(s)' /\ Held(s)' >= 0
    BY <1>4, <1>5
  <1>7. peak' >= equity' /\ cash' = Invested' /\ oversold' \in BOOLEAN /\ ~marked'
    <2>1. peak' >= equity' /\ cash' = Invested'
      BY <1>1, <1>3, <1>4
    <2>2. oversold' \in BOOLEAN
      BY <1>2
    <2>3. ~marked'
      BY <1>2
    <2> QED BY <2>1, <2>2, <2>3
  <1> QED BY <1>6, <1>7 DEF BookInv

\* Trades, positions, bars and money stay.
LEMMA BooksStay ==
  ASSUME EngineTypes, BookInv, UNCHANGED <<config, trades, positions, cash, equity, peak, oversold>>,
         marked' = FALSE \/ UNCHANGED <<marked, bars>>
  PROVE  BookInv'
  <1>1. Invested' = Invested /\ \A s : Held(s)' = Held(s) /\ Traded(s)' = Traded(s)
    BY AccountsStay
  <1>2. oversold' \/ \A s \in Symbols : Held(s)' = Traded(s)' /\ Held(s)' >= 0
    BY <1>1 DEF BookInv
  <1>3. marked' => Worths' = Worths /\ marked
    BY DEF Worths
  <1>4. marked' => equity' = cash' + SumFunction(Worths)'
    BY <1>3 DEF BookInv
  <1> QED BY <1>1, <1>2, <1>4 DEF BookInv

LEMMA ActionBooks ==
  ASSUME EngineTypes, BookInv, ProcessAction
  PROVE  BookInv' /\ \E s \in DOMAIN bars : \E tr : tr.symbol = s /\ trades' = Append(trades, tr)
  <1>1. PICK s \in DOMAIN bars, side \in Sides : \E value, commission, quantity \in Int :
           /\ s \in Symbols
           /\ cash' = IF side = "buy" THEN cash - (value + commission) ELSE cash + (value - commission)
           /\ LET q == Held(s) + (IF side = "buy" THEN quantity ELSE -quantity) IN
              /\ positions' = IF side = "sell" /\ q <= 0
                                THEN [x \in DOMAIN positions \ {s} |-> positions[x]]
                                ELSE [x \in DOMAIN positions \cup {s} |-> IF x = s THEN q ELSE positions[x]]
              /\ oversold' = (oversold \/ q < 0)
           /\ trades' = Append(trades, [symbol |-> s, side |-> side, quantity |-> quantity,
                                        value |-> value, commission |-> commission])
    BY ActionIs
  <1>2. PICK value \in Int, commission \in Int, quantity \in Int :
           /\ s \in Symbols
           /\ cash' = IF side = "buy" THEN cash - (value + commission) ELSE cash + (value - commission)
           /\ LET q == Held(s) + (IF side = "buy" THEN quantity ELSE -quantity) IN
              /\ positions' = IF side = "sell" /\ q <= 0
                                THEN [x \in DOMAIN positions \ {s} |-> positions[x]]
                                ELSE [x \in DOMAIN positions \cup {s} |-> IF x = s THEN q ELSE positions[x]]
              /\ oversold' = (oversold \/ q < 0)
           /\ trades' = Append(trades, [symbol |-> s, side |-> side, quantity |-> quantity,
                                        value |-> value, commission |-> commission])
    BY <1>1
  <1>3. PICK tr : tr = [symbol |-> s, side |-> side, quantity |-> quantity, value |-> value,
                        commission |-> commission]
    OBVIOUS
  <1>4. tr \in Trade /\ trades' = Append(trades, tr) /\ tr.symbol = s
    BY <1>2, <1>3 DEF Trade
  <1>5. PICK d : d = IF side = "buy" THEN quantity ELSE -quantity
    OBVIOUS
  <1>6. SignedQuantity(tr) = d /\ d \in Int
    BY <1>3, <1>5 DEF SignedQuantity
  <1>7. Flow(tr) = (IF side = "buy" THEN -value ELSE value) - commission
    BY <1>3 DEF Flow
  <1>8. UNCHANGED <<config, equity, peak>> /\ marked' = FALSE
    BY DEF ProcessAction
  <1>9. /\ Invested \in Int /\ Invested' = Invested + Flow(tr)
        /\ \A x : Traded(x) \in Int /\ Traded(x)' = Traded(x) + (IF s = x THEN d ELSE 0)
    BY <1>4, <1>6, <1>8, TradeAccounts DEF EngineTypes
  <1>10. cash' = Invested'
    <2>1. cash = Invested /\ cash \in Int
      BY DEF BookInv, EngineTypes, BookTypes
    <2> QED BY <2>1, <1>2, <1>7, <1>9
  <1>11. PICK h : h = Held(s)
    OBVIOUS
  <1>12. h \in Int
    BY <1>11, HeldInt DEF EngineTypes
  <1>13. /\ positions' = IF side = "sell" /\ h + d <= 0
                           THEN [x \in DOMAIN positions \ {s} |-> positions[x]]
                           ELSE [x \in DOMAIN positions \cup {s} |-> IF x = s THEN h + d ELSE positions[x]]
         /\ oversold' = (oversold \/ h + d < 0)
    BY <1>2, <1>5, <1>11
  <1>14. oversold' \in BOOLEAN
    BY <1>13
  <1>15. ASSUME ~oversold' PROVE \A x \in Symbols : Held(x)' = Traded(x)' /\ Held(x)' >= 0
    <2>1. ~oversold /\ ~(h + d < 0)
      BY <1>13, <1>15
    <2>2. \A x \in Symbols : Held(x) = Traded(x) /\ Held(x) >= 0
      BY <2>1 DEF BookInv
    <2>3. Held(s)' = h + d
      <3>1. CASE side = "sell" /\ h + d <= 0
        <4>1. positions' = [x \in DOMAIN positions \ {s} |-> positions[x]]
          BY <1>13, <3>1
        <4>2. Held(s)' = 0
          BY <4>1 DEF Held
        <4> QED BY <4>2, <3>1, <2>1, <1>6, <1>12
      <3>2. CASE ~(side = "sell" /\ h + d <= 0)
        BY <1>13, <3>2 DEF Held
      <3> QED BY <3>1, <3>2
    <2>4. \A x \in Symbols \ {s} : Held(x)' = Held(x)
      <3>1. \A x \in Symbols \ {s} : /\ x \in DOMAIN positions' <=> x \in DOMAIN positions
                                     /\ x \in DOMAIN positions => positions'[x] = positions[x]
        BY <1>13
      <3> QED BY <3>1 DEF Held
    <2>5. s \in Symbols
      BY <1>2
    <2>6. Held(s)' = Traded(s)' /\ Held(s)' >= 0
      BY <2>1, <2>2, <2>3, <2>5, <1>6, <1>9, <1>11, <1>12
    <2>7. ASSUME NEW x \in Symbols, x # s PROVE Held(x)' = Traded(x)' /\ Held(x)' >= 0
      <3>1. Traded(x)' = Traded(x) /\ Held(x)' = Held(x)
        BY <1>9, <2>4, <2>7
      <3> QED BY <3>1, <2>2
    <2> QED BY <2>6, <2>7
  <1>16. peak' >= equity'
    BY <1>8 DEF BookInv
  <1>17. BookInv'
    BY <1>8, <1>10, <1>14, <1>15, <1>16 DEF BookInv
  <1> QED BY <1>4, <1>17

LEMMA BarEndsBooks ==
  ASSUME EngineTypes, BookInv, BarEnds
  PROVE  BookInv'
  <1>1. /\ equity' = cash + SumFunction(Worths)
        /\ peak' = IF equity' > peak THEN equity' ELSE peak
        /\ UNCHANGED <<config, cash, positions, trades, bars, oversold>>
    BY DEF BarEnds, Worths
  <1>2. Invested' = Invested /\ \A s : Held(s)' = Held(s) /\ Traded(s)' = Traded(s)
    BY <1>1, AccountsStay
  <1>3. Worths' = Worths
    BY <1>1 DEF Worths
  <1>4. equity' \in Int /\ peak \in Int
    BY <1>1, WorthsAreInts DEF EngineTypes, BookTypes
  <1>5. peak' >= equity'
    BY <1>1, <1>4
  <1>6. equity' = cash' + SumFunction(Worths)'
    BY <1>1, <1>3
  <1> QED BY <1>1, <1>2, <1>5, <1>6 DEF BookInv

LEMMA BooksStart ==
  ASSUME BacktestInit
  PROVE  BookInv
  <1>1. trades = <<>> /\ config.capital = 0 /\ positions = Nothing /\ cash = 0 /\ equity = 0 /\ peak = 0
        /\ oversold = FALSE /\ marked = FALSE
    BY DEF BacktestInit, NoConfig
  <1>2. Invested = 0 /\ \A s : Traded(s) = 0
    BY <1>1, NothingTraded
  <1>3. \A s : Held(s) = 0
    BY <1>1 DEF Held, Nothing
  <1>4. \A s \in Symbols : Held(s) = Traded(s) /\ Held(s) >= 0
    BY <1>2, <1>3
  <1>5. cash = Invested /\ peak >= equity
    BY <1>1, <1>2
  <1>6. oversold \in BOOLEAN /\ ~marked
    BY <1>1
  <1> QED BY <1>4, <1>5, <1>6 DEF BookInv

LEMMA BooksStep ==
  ASSUME EngineTypes, BookInv, [BacktestNext]_backtestVars
  PROVE  BookInv'
  <1>1. CASE Setup
    BY <1>1, SetupBooks
  <1>2. CASE ProcessAction
    BY <1>2, ActionBooks
  <1>3. CASE BarEnds
    BY <1>3, BarEndsBooks
  <1>4. CASE NextBar
    <2>1. UNCHANGED <<config, trades, positions, cash, equity, peak, oversold>> /\ marked' = FALSE
      BY <1>4 DEF NextBar
    <2> QED BY <2>1, BooksStay
  <1>5. ASSUME UNCHANGED <<config, books, bars, oversold, marked>> PROVE BookInv'
    <2>1. UNCHANGED <<config, trades, positions, cash, equity, peak, oversold, marked, bars>>
      BY <1>5 DEF books
    <2> QED BY <2>1, BooksStay
  <1>6. CASE Stop \/ UNCHANGED backtestVars
    BY <1>5, <1>6 DEF Stop, backtestVars
  <1>7. CASE Completes \/ BarRaises
    BY <1>5, <1>7 DEF Completes, BarRaises, Ends
  <1>8. ASSUME NEW t \in Tasks, RunCall(t) \/ HistoryArrives(t) \/ HistoryRaises(t) PROVE BookInv'
    BY <1>5, <1>8 DEF RunCall, HistoryArrives, HistoryRaises
  <1> QED BY <1>1, <1>2, <1>3, <1>4, <1>6, <1>7, <1>8 DEF BacktestNext

\* The books of the invariant are the balance.
LEMMA BooksBalanceFollows ==
  ASSUME EngineTypes, BookInv
  PROVE  BooksBalance
  <1>1. ASSUME marked, ~oversold, DOMAIN positions \subseteq DOMAIN bars
        PROVE  equity = Invested + SumFunction([s \in DOMAIN bars |-> Worth(Traded(s), bars[s])])
    <2> DEFINE w == [s \in DOMAIN bars |-> Worth(Traded(s), bars[s])]
               P == DOMAIN positions
               B == DOMAIN bars
    <2>1. /\ P \subseteq B /\ IsFiniteSet(B) /\ IsFiniteSet(P) /\ P \cap B = P
          /\ \A s \in DOMAIN Worths : Worths[s] \in Int
      BY <1>1, WorthsAreInts
    <2>2. \A s \in Symbols : Held(s) = Traded(s)
      BY <1>1 DEF BookInv
    <2>3. B \subseteq Symbols /\ \A s \in B : bars[s] \in Nat
      BY DEF EngineTypes, RunTypes, IsBars
    <2>4. \A s \in P : positions[s] = Traded(s)
      BY <2>1, <2>2, <2>3 DEF Held
    <2>5. \A s \in B \ P : Traded(s) = 0
      BY <2>2, <2>3 DEF Held
    <2>6. DOMAIN Worths = P /\ \A s \in P : w[s] = Worths[s]
      BY <2>1, <2>4 DEF Worths
    <2>7. \A s \in B \ P : w[s] = 0
      BY <2>3, <2>5, WorthInt
    <2>8. \A s \in B : w[s] \in Int
      <3> HIDE DEF w, B, P
      <3> QED BY <2>1, <2>6, <2>7
    <2>9. SumFunction(w) = SumFunctionOnSet(w, B)
      BY DEF SumFunction
    <2>10. SumFunctionOnSet(w, B) = SumFunctionOnSet(Worths, P)
      <3> HIDE DEF w, B, P
      <3>1. SumFunctionOnSet(w, B) = SumFunctionOnSet(w, P)
        BY <2>1, <2>7, <2>8, SumSupport
      <3>2. SumFunctionOnSet(w, P) = SumFunctionOnSet(Worths, P)
        BY <2>1, <2>6, SumSame
      <3> QED BY <3>1, <3>2
    <2>11. SumFunction(Worths) = SumFunctionOnSet(Worths, P)
      BY <2>6 DEF SumFunction
    <2>12. equity = Invested + SumFunction(Worths)
      BY <1>1 DEF BookInv
    <2> QED BY <2>9, <2>10, <2>11, <2>12
  <1> QED BY <1>1 DEF BookInv, BooksBalance

-----------------------------------------------------------------------------
(* One run on one setup                                                    *)

\* The histories are of the symbols of the configuration.
Ours(f) == \A u \in DOMAIN f : DOMAIN f[u] \subseteq ToSet(config.symbols)
Supplied(r) == ToSet(r.left) \subseteq ToSet(config.symbols) /\ Ours(r.got)
AllIdle == \A t \in Tasks : run[t] = Idle
\* The bars that the daily values cover
Passed == IF hold.at \in {"signals", "actions"} THEN index - 1 ELSE index
Increasing == \A i \in DOMAIN daily : \A j \in 1..i - 1 : daily[j].date < daily[i].date
DatesUpTo(n) ==
  /\ {daily[i].date : i \in DOMAIN daily} = {Date(TimeAt(i)) : i \in 1..n}
  /\ daily # <<>> => n >= 1 /\ Last(daily).date = Date(TimeAt(n))

OneRun ==
  /\ \A t, u \in Tasks : run[t] # Idle /\ run[u] # Idle => t = u
  /\ \A t \in Tasks : run[t] # Idle => Supplied(run[t])
  /\ hold.at # "none" => Ours(feed) /\ DatesUpTo(Passed)
  /\ hold.at \in {"signals", "actions"} => DOMAIN bars \subseteq ToSet(config.symbols) /\ now = TimeAt(index)
  /\ \A i \in DOMAIN trades : trades[i].symbol \in ToSet(config.symbols)
  /\ Increasing
  /\ \A i \in DOMAIN daily : daily[i].equity <= peak
  /\ hold.at = "none" /\ ~AllIdle => daily = <<>>
  /\ status = "completed" => AllIdle /\ index = BarCount /\ DatesUpTo(BarCount)
  /\ AllIdle => status \in {"completed", "failed", "stopped"}

UseInv ==
  /\ use \in {"unused", "one", "mixed"}
  /\ hold.at = "next" => index = 0
  /\ hold.at \in {"signals", "actions", "progress"} => index >= 1
  /\ hold.at # "none" => index <= BarCount
  /\ use = "unused" => trades = <<>> /\ daily = <<>> /\ AllIdle
  /\ use = "one" => OneRun

LEMMA DatesFollow ==
  ASSUME NEW a \in Nat, NEW b \in Nat, a <= b
  PROVE  Date(a) \in Nat /\ Date(b) \in Nat /\ Date(a) <= Date(b)
  <1>1. PICK T : T = TicksPerDay
    OBVIOUS
  <1>2. T \in Nat /\ T > 0
    BY <1>1, BacktestAssumption
  <1>3. PICK q, p, r, m : q = a \div T /\ p = b \div T /\ r = a % T /\ m = b % T
    OBVIOUS
  <1>4. q \in Nat /\ p \in Nat /\ r \in Nat /\ m \in Nat /\ m < T
    BY <1>2, <1>3
  <1>5. a = T * q + r /\ b = T * p + m
    BY <1>2, <1>3
  <1>6. q <= p
    <2>1. SUFFICES ASSUME q > p PROVE FALSE
      BY <1>4
    <2>2. PICK k \in Nat : q = p + 1 + k
      <3>1. q - p - 1 \in Nat /\ q = p + 1 + (q - p - 1)
        BY <1>4, <2>1
      <3> QED BY <3>1
    <2>3. T * q = T * p + T + T * k /\ T * k \in Nat /\ T * p \in Nat /\ T * q \in Nat
      BY <1>2, <1>4, <2>2
    <2> QED BY <1>2, <1>4, <1>5, <2>3
  <1> QED BY <1>1, <1>3, <1>4, <1>6 DEF Date

LEMMA TimesGrow ==
  ASSUME IsFeed(feed), NEW i \in 1..BarCount, NEW j \in 1..BarCount, i <= j
  PROVE  TimeAt(i) \in Nat /\ TimeAt(j) \in Nat /\ TimeAt(i) <= TimeAt(j)
  <1>1. /\ TimeAt(i) \in DOMAIN feed /\ Rank(DOMAIN feed, TimeAt(i)) = i - 1
        /\ TimeAt(j) \in DOMAIN feed /\ Rank(DOMAIN feed, TimeAt(j)) = j - 1
    BY TimeIs
  <1>2. DOMAIN feed \subseteq Nat /\ IsFiniteSet(DOMAIN feed)
    BY DEF IsFeed
  <1>3. PICK a \in DOMAIN feed, b \in DOMAIN feed : a = TimeAt(i) /\ b = TimeAt(j)
    BY <1>1
  <1>4. b < a => Rank(DOMAIN feed, b) < Rank(DOMAIN feed, a)
    BY <1>2, RankGrows
  <1>5. i \in Int /\ j \in Int /\ ~(j - 1 < i - 1)
    <2>1. BarCount \in Nat
      BY <1>2, FS_CardinalityType DEF BarCount
    <2> QED BY <2>1
  <1> QED BY <1>1, <1>2, <1>3, <1>4, <1>5

\* Every time is one of the first BarCount.
LEMMA TimesCover ==
  ASSUME IsFeed(feed)
  PROVE  {Date(TimeAt(i)) : i \in 1..BarCount} = {Date(t) : t \in DOMAIN feed}
  <1>1. DOMAIN feed \subseteq Nat /\ IsFiniteSet(DOMAIN feed) /\ BarCount \in Nat
    BY FS_CardinalityType DEF IsFeed, BarCount
  <1>2. \A i \in 1..BarCount : TimeAt(i) \in DOMAIN feed
    BY TimeIs
  <1>3. ASSUME NEW t \in DOMAIN feed PROVE \E i \in 1..BarCount : TimeAt(i) = t
    <2>1. PICK n : n = Rank(DOMAIN feed, t)
      OBVIOUS
    <2>2. n \in Nat /\ n < BarCount
      BY <1>1, <2>1, RankType, RankBelow DEF BarCount
    <2>3. n + 1 \in 1..BarCount /\ (n + 1) - 1 = n
      BY <1>1, <2>2
    <2>4. TimeAt(n + 1) \in DOMAIN feed /\ Rank(DOMAIN feed, TimeAt(n + 1)) = n
      BY <2>3, TimeIs
    <2>5. PICK v \in DOMAIN feed : v = TimeAt(n + 1)
      BY <2>4
    <2>6. ~(v < t) /\ ~(t < v)
      <3>1. v < t => Rank(DOMAIN feed, v) < Rank(DOMAIN feed, t)
        BY <1>1, RankGrows
      <3>2. t < v => Rank(DOMAIN feed, t) < Rank(DOMAIN feed, v)
        BY <1>1, RankGrows
      <3> QED BY <2>1, <2>2, <2>4, <2>5, <3>1, <3>2
    <2>7. v = t
      BY <1>1, <2>6
    <2> QED BY <2>3, <2>5, <2>7
  <1> QED BY <1>2, <1>3

LEMMA TimesStay ==
  ASSUME feed' = feed
  PROVE  BarCount' = BarCount /\ \A i : TimeAt(i)' = TimeAt(i)
  BY DEF TimeAt, BarCount

LEMMA SetupUse ==
  ASSUME EngineTypes, UseInv, Setup
  PROVE  UseInv'
  <1>1. /\ trades' = <<>> /\ daily' = <<>> /\ UNCHANGED <<feed, index, run, hold>>
        /\ use' = IF AllIdle THEN "unused" ELSE "mixed"
    BY DEF Setup, AllIdle
  <1>2. BarCount' = BarCount /\ AllIdle' = AllIdle
    BY <1>1 DEF BarCount, AllIdle
  <1> QED BY <1>1, <1>2 DEF UseInv

\* Only the status changes.
LEMMA StopUse ==
  ASSUME EngineTypes, UseInv, Stop \/ UNCHANGED backtestVars
  PROVE  UseInv'
  <1>1. /\ UNCHANGED <<config, daily, trades, now, peak, feed, index, bars, run, hold, use>>
        /\ status' = status \/ status' = "stopped"
    BY DEF Stop, backtestVars, books
  <1>2. BarCount' = BarCount /\ \A i : TimeAt(i)' = TimeAt(i)
    BY <1>1, TimesStay
  <1>3. AllIdle' = AllIdle /\ Passed' = Passed /\ Increasing' = Increasing
    BY <1>1 DEF AllIdle, Passed, Increasing
  <1>4. \A n : DatesUpTo(n)' = DatesUpTo(n)
    BY <1>1, <1>2 DEF DatesUpTo
  <1>5. Ours(feed)' = Ours(feed) /\ \A t \in Tasks : Supplied(run[t])' = Supplied(run[t])
    BY <1>1 DEF Ours, Supplied
  <1>6. ASSUME OneRun PROVE OneRun'
    <2>1. DatesUpTo(Passed)' = DatesUpTo(Passed) /\ DatesUpTo(BarCount)' = DatesUpTo(BarCount)
      BY <1>1, <1>2, <1>3 DEF DatesUpTo
    <2>2. /\ \A t, u \in Tasks : run'[t] # Idle /\ run'[u] # Idle => t = u
          /\ \A t \in Tasks : run'[t] # Idle => Supplied(run[t])'
      BY <1>1, <1>5, <1>6 DEF OneRun
    <2>3. /\ hold'.at # "none" => Ours(feed)' /\ DatesUpTo(Passed)'
          /\ hold'.at \in {"signals", "actions"} =>
               DOMAIN bars' \subseteq ToSet(config'.symbols) /\ now' = TimeAt(index)'
      BY <1>1, <1>2, <1>5, <1>6, <2>1 DEF OneRun
    <2>4. /\ \A i \in DOMAIN trades' : trades'[i].symbol \in ToSet(config'.symbols)
          /\ Increasing' /\ \A i \in DOMAIN daily' : daily'[i].equity <= peak'
          /\ hold'.at = "none" /\ ~AllIdle' => daily' = <<>>
      BY <1>1, <1>3, <1>6 DEF OneRun
    <2>5. /\ status' = "completed" => AllIdle' /\ index' = BarCount' /\ DatesUpTo(BarCount)'
          /\ AllIdle' => status' \in {"completed", "failed", "stopped"}
      BY <1>1, <1>2, <1>3, <1>6, <2>1 DEF OneRun
    <2> QED BY <2>2, <2>3, <2>4, <2>5 DEF OneRun
  <1> QED BY <1>1, <1>2, <1>3, <1>6 DEF UseInv

LEMMA RunCallUse ==
  ASSUME EngineTypes, UseInv, NEW t \in Tasks, RunCall(t)
  PROVE  UseInv'
  <1>1. PICK q : q = config.symbols
    OBVIOUS
  <1>2. /\ run' = [run EXCEPT ![t] = [at |-> "loading", left |-> q, got |-> Nothing]]
        /\ run[t] = Idle /\ hold = Free /\ status' = "running"
        /\ use' = IF use = "unused" THEN "one" ELSE "mixed"
        /\ UNCHANGED <<config, trades, daily, peak, now, feed, index, bars, hold>>
    BY <1>1 DEF RunCall, books
  <1>3. hold.at = "none" /\ hold'.at = "none"
    BY <1>2 DEF Free
  <1>4. run'[t] = [at |-> "loading", left |-> q, got |-> Nothing] /\ \A u \in Tasks \ {t} : run'[u] = run[u]
    BY <1>2 DEF EngineTypes, RunTypes
  <1>5. run'[t].at = "loading" /\ run'[t].left = q /\ run'[t].got = Nothing
    BY <1>4
  <1>6. run'[t] # Idle
    BY <1>5 DEF Idle
  <1>7. ~AllIdle'
    BY <1>6 DEF AllIdle
  <1>8. ASSUME use' = "one" PROVE OneRun'
    <2>1. use = "unused" /\ trades = <<>> /\ daily = <<>> /\ AllIdle
      BY <1>2, <1>8 DEF UseInv
    <2>2. \A u \in Tasks \ {t} : run'[u] = Idle
      BY <1>4, <2>1 DEF AllIdle
    <2>3. Supplied(run[t])'
      BY <1>1, <1>2, <1>5 DEF Supplied, Ours, Nothing
    <2>4. Increasing' /\ trades' = <<>> /\ daily' = <<>>
      BY <1>2, <2>1 DEF Increasing
    <2>5. \A u, v \in Tasks : run'[u] # Idle /\ run'[v] # Idle => u = v
      BY <2>2
    <2>6. \A u \in Tasks : run'[u] # Idle => Supplied(run[u])'
      BY <2>2, <2>3
    <2>7. /\ \A i \in DOMAIN trades' : trades'[i].symbol \in ToSet(config'.symbols)
          /\ \A i \in DOMAIN daily' : daily'[i].equity <= peak'
      BY <2>4
    <2> QED BY <1>2, <1>3, <1>7, <2>4, <2>5, <2>6, <2>7 DEF OneRun
  <1> QED BY <1>2, <1>3, <1>8 DEF UseInv

LEMMA NextBarUse ==
  ASSUME EngineTypes, UseInv, NextBar
  PROVE  UseInv'
  <1>1. /\ hold.at \in {"next", "progress"} /\ hold'.at = "signals"
        /\ bars' = feed[now'] /\ UNCHANGED <<status, config, trades, daily, peak, feed, run, use>>
    BY DEF NextBar, EngineTypes, RunTypes
  <1>2. /\ index' = index + 1 /\ now' = TimeAt(index') /\ now' \in DOMAIN feed
        /\ index' \in 1..BarCount /\ index \in Nat
    BY NextBarTypes DEF EngineTypes, RunTypes
  <1>3. BarCount' = BarCount /\ \A i : TimeAt(i)' = TimeAt(i)
    BY <1>1, TimesStay
  <1>4. BarCount \in Nat
    BY FS_CardinalityType DEF BarCount, EngineTypes, RunTypes, IsFeed
  <1>5. Passed = index /\ Passed' = index
    BY <1>1, <1>2 DEF Passed
  <1>6. ~AllIdle /\ ~AllIdle'
    <2>1. hold.task \in Tasks /\ run[hold.task].at = "loading"
      BY <1>1 DEF EngineTypes, HoldInv
    <2>2. run[hold.task] # Idle
      BY <2>1 DEF Idle
    <2> QED BY <1>1, <2>1, <2>2 DEF AllIdle
  <1>7. ASSUME OneRun PROVE OneRun'
    <2>1. Ours(feed) /\ DatesUpTo(Passed)
      BY <1>1, <1>7 DEF OneRun
    <2>2. Ours(feed)'
      BY <1>1, <2>1 DEF Ours
    <2>3. DatesUpTo(Passed)'
      BY <1>1, <1>3, <1>5, <2>1 DEF DatesUpTo
    <2>4. DOMAIN bars' \subseteq ToSet(config'.symbols) /\ now' = TimeAt(index)'
      BY <1>1, <1>2, <1>3, <2>1 DEF Ours
    <2>5. Increasing'
      BY <1>1, <1>7 DEF OneRun, Increasing
    <2>6. \A u \in Tasks : run'[u] # Idle => Supplied(run[u])'
      BY <1>1, <1>7 DEF OneRun, Supplied, Ours
    <2>7. status' # "completed"
      BY <1>1, <1>6, <1>7 DEF OneRun
    <2>8. /\ \A i \in DOMAIN trades' : trades'[i].symbol \in ToSet(config'.symbols)
          /\ \A i \in DOMAIN daily' : daily'[i].equity <= peak'
          /\ \A u, v \in Tasks : run'[u] # Idle /\ run'[v] # Idle => u = v
      BY <1>1, <1>7 DEF OneRun
    <2> QED BY <1>1, <1>6, <2>2, <2>3, <2>4, <2>5, <2>6, <2>7, <2>8 DEF OneRun
  <1>8. index' >= 1 /\ index' <= BarCount'
    BY <1>2, <1>3, <1>4
  <1>9. use # "unused"
    BY <1>6 DEF UseInv
  <1> QED BY <1>1, <1>7, <1>8, <1>9 DEF UseInv

LEMMA ActionUse ==
  ASSUME EngineTypes, BookInv, UseInv, ProcessAction
  PROVE  UseInv'
  <1>1. /\ hold.at \in {"signals", "actions"} /\ hold'.at = "actions"
        /\ UNCHANGED <<status, config, daily, peak, now, feed, index, bars, run, use>>
    <2>1. /\ hold.at \in {"signals", "actions"} /\ hold' = [hold EXCEPT !.at = "actions", !.actions = @ + 1]
          /\ UNCHANGED <<status, config, daily, peak, now, feed, index, bars, run, use>>
      BY DEF ProcessAction
    <2> QED BY <2>1 DEF EngineTypes, RunTypes
  <1>2. PICK s \in DOMAIN bars : \E tr : tr.symbol = s /\ trades' = Append(trades, tr)
    BY ActionBooks
  <1>3. PICK tr : tr.symbol = s /\ trades' = Append(trades, tr)
    BY <1>2
  <1>4. BarCount' = BarCount /\ \A i : TimeAt(i)' = TimeAt(i)
    BY <1>1, TimesStay
  <1>5. Passed' = Passed
    BY <1>1 DEF Passed
  <1>6. ~AllIdle /\ ~AllIdle'
    <2>1. hold.task \in Tasks /\ run[hold.task].at = "loading"
      BY <1>1 DEF EngineTypes, HoldInv
    <2>2. run[hold.task] # Idle
      BY <2>1 DEF Idle
    <2> QED BY <1>1, <2>1, <2>2 DEF AllIdle
  <1>7. ASSUME OneRun PROVE OneRun'
    <2>1. /\ Ours(feed) /\ DatesUpTo(Passed) /\ DOMAIN bars \subseteq ToSet(config.symbols)
          /\ now = TimeAt(index)
      BY <1>1, <1>7 DEF OneRun
    <2>2. Ours(feed)'
      BY <1>1, <2>1 DEF Ours
    <2>3. DatesUpTo(Passed)'
      BY <1>1, <1>4, <1>5, <2>1 DEF DatesUpTo
    <2>4. DOMAIN bars' \subseteq ToSet(config'.symbols) /\ now' = TimeAt(index)'
      BY <1>1, <1>4, <2>1
    <2>5. Increasing'
      BY <1>1, <1>7 DEF OneRun, Increasing
    <2>6. \A u \in Tasks : run'[u] # Idle => Supplied(run[u])'
      BY <1>1, <1>7 DEF OneRun, Supplied, Ours
    <2>7. status' # "completed"
      BY <1>1, <1>6, <1>7 DEF OneRun
    <2>8. \A i \in DOMAIN trades' : trades'[i].symbol \in ToSet(config'.symbols)
      <3>1. trades \in Seq(Trade) /\ s \in ToSet(config.symbols)
        BY <1>2, <2>1 DEF EngineTypes, BookTypes
      <3>2. \A i \in DOMAIN trades' : trades'[i] = tr \/ (i \in DOMAIN trades /\ trades'[i] = trades[i])
        BY <1>3, <3>1
      <3>3. \A i \in DOMAIN trades : trades[i].symbol \in ToSet(config.symbols)
        BY <1>7 DEF OneRun
      <3> QED BY <1>1, <1>3, <3>1, <3>2, <3>3
    <2>9. /\ \A i \in DOMAIN daily' : daily'[i].equity <= peak'
          /\ \A u, v \in Tasks : run'[u] # Idle /\ run'[v] # Idle => u = v
      BY <1>1, <1>7 DEF OneRun
    <2> QED BY <1>1, <1>6, <2>2, <2>3, <2>4, <2>5, <2>6, <2>7, <2>8, <2>9 DEF OneRun
  <1>8. use # "unused"
    BY <1>6 DEF UseInv
  <1> QED BY <1>1, <1>4, <1>7, <1>8 DEF UseInv

LEMMA HistoryUse ==
  ASSUME EngineTypes, UseInv, NEW t \in Tasks, HistoryArrives(t)
  PROVE  UseInv'
  <1>0. PICK left, got, s, g : Joins(t, left, got, s, g)
    BY HistoryIs
  <1>1. /\ run[t] = [at |-> "loading", left |-> left, got |-> got]
        /\ left \in Seq(Symbols) /\ left # <<>> /\ s = left[1]
        /\ run'[t] = [at |-> "loading", left |-> Tail(left), got |-> g]
        /\ IF Tail(left) = <<>>
             THEN feed' = g /\ index' = 0 /\ hold' = [task |-> t, at |-> "next", actions |-> 0]
             ELSE UNCHANGED <<feed, index, hold>>
        /\ \A u \in DOMAIN g : \A x \in DOMAIN g[u] : x = s \/ (u \in DOMAIN got /\ x \in DOMAIN got[u])
    BY <1>0 DEF Joins
  <1>2. hold = Free /\ hold.at = "none" /\ UNCHANGED <<status, config, trades, daily, peak, use>>
    BY DEF HistoryArrives, books, Free
  <1>3. \A u \in Tasks \ {t} : run'[u] = run[u]
    <2>1. PICK r : run' = [run EXCEPT ![t] = r]
      BY DEF HistoryArrives
    <2> QED BY <2>1 DEF EngineTypes, RunTypes
  <1>4. run[t].at = "loading" /\ run[t].left = left /\ run[t].got = got
        /\ run'[t].at = "loading" /\ run'[t].left = Tail(left) /\ run'[t].got = g
    BY <1>1
  <1>5. run[t] # Idle /\ run'[t] # Idle
    BY <1>4 DEF Idle
  <1>6. ~AllIdle /\ ~AllIdle'
    BY <1>5 DEF AllIdle
  <1>7. use # "unused"
    BY <1>6 DEF UseInv
  <1>8. PICK C : C = ToSet(config.symbols)
    OBVIOUS
  <1>9. ASSUME OneRun PROVE /\ ToSet(Tail(left)) \subseteq C /\ daily = <<>>
                            /\ \A u \in DOMAIN g : DOMAIN g[u] \subseteq C
    <2>1. ToSet(left) \subseteq C /\ (\A u \in DOMAIN got : DOMAIN got[u] \subseteq C)
      BY <1>4, <1>5, <1>8, <1>9 DEF OneRun, Supplied, Ours
    <2>2. PICK r : r = Tail(left)
      OBVIOUS
    <2>3. r \in Seq(Symbols) /\ Len(r) = Len(left) - 1 /\ \A i \in 1..Len(r) : r[i] = left[i + 1]
      BY <1>1, <2>2
    <2>4. DOMAIN left = 1..Len(left) /\ DOMAIN r = 1..Len(r) /\ Len(left) \in Nat /\ Len(r) \in Nat
          /\ Len(left) >= 1
      BY <1>1, <2>3
    <2>5. ToSet(r) \subseteq ToSet(left)
      <3>1. SUFFICES ASSUME NEW x \in ToSet(r) PROVE x \in ToSet(left)
        OBVIOUS
      <3>2. PICK i \in DOMAIN r : r[i] = x
        BY <3>1 DEF ToSet
      <3>3. i + 1 \in DOMAIN left /\ left[i + 1] = x
        BY <2>3, <2>4, <3>2
      <3> QED BY <3>3 DEF ToSet
    <2>6. s \in ToSet(left)
      <3>1. 1 \in DOMAIN left
        BY <2>4
      <3> QED BY <1>1, <3>1 DEF ToSet
    <2>7. \A u \in DOMAIN g : DOMAIN g[u] \subseteq C
      BY <1>1, <2>1, <2>6
    <2>8. daily = <<>>
      BY <1>2, <1>6, <1>9 DEF OneRun
    <2> QED BY <2>1, <2>2, <2>5, <2>7, <2>8
  <1>10. ASSUME OneRun PROVE OneRun'
    <2>1. Supplied(run[t])'
      BY <1>2, <1>4, <1>8, <1>9, <1>10 DEF Supplied, Ours
    <2>2. \A u \in Tasks : run'[u] # Idle => Supplied(run[u])'
      <3>1. ASSUME NEW u \in Tasks, u # t, run'[u] # Idle PROVE FALSE
        BY <1>3, <1>5, <1>10, <3>1 DEF OneRun
      <3> QED BY <2>1, <3>1
    <2>3. \A u, v \in Tasks : run'[u] # Idle /\ run'[v] # Idle => u = v
      BY <1>3, <1>5, <1>10 DEF OneRun
    <2>4. Increasing' /\ daily' = <<>>
      BY <1>2, <1>9, <1>10 DEF Increasing
    <2>5. status' # "completed"
      BY <1>2, <1>6, <1>10 DEF OneRun
    <2>6. hold'.at # "none" => hold'.at = "next" /\ feed' = g /\ index' = 0
      BY <1>1, <1>2
    <2>7. hold'.at # "none" => Ours(feed)'
      BY <1>2, <1>8, <1>9, <1>10, <2>6 DEF Ours
    <2>8. hold'.at # "none" => DatesUpTo(Passed)'
      <3>1. SUFFICES ASSUME hold'.at # "none" PROVE DatesUpTo(Passed)'
        OBVIOUS
      <3>2. Passed' = 0
        BY <2>6, <3>1 DEF Passed
      <3>3. {daily[i].date : i \in DOMAIN daily}' = {}
        BY <2>4
      <3>4. {Date(TimeAt(i)) : i \in 1..Passed}' = {}
        <4>1. 1..0 = {}
          OBVIOUS
        <4>2. {Date(TimeAt(i))' : i \in 1..0} = {}
          BY <4>1
        <4> QED BY <3>2, <4>2
      <3> QED BY <2>4, <3>3, <3>4 DEF DatesUpTo
    <2>9. /\ \A i \in DOMAIN trades' : trades'[i].symbol \in ToSet(config'.symbols)
          /\ \A i \in DOMAIN daily' : daily'[i].equity <= peak'
          /\ ~(hold'.at \in {"signals", "actions"})
      BY <1>2, <1>10, <2>4, <2>6 DEF OneRun
    <2> QED BY <1>6, <2>2, <2>3, <2>4, <2>5, <2>6, <2>7, <2>8, <2>9 DEF OneRun
  <1>11. hold'.at # "none" => hold'.at = "next" /\ index' = 0
    BY <1>1, <1>2
  <1>12. index' <= BarCount' \/ hold'.at = "none"
    <2>1. BarCount' \in Nat
      <3>1. IsFeed(feed)'
        BY HistoryTypes DEF EngineTypes, RunTypes
      <3> QED BY <3>1, FS_CardinalityType DEF BarCount, IsFeed
    <2> QED BY <1>11, <2>1
  <1> QED BY <1>2, <1>7, <1>10, <1>11, <1>12 DEF UseInv

\* The daily values at the end of a bar.
LEMMA DaysGrow ==
  ASSUME EngineTypes, UseInv, OneRun, BarEnds
  PROVE  DatesUpTo(Passed)' /\ Increasing' /\ \A i \in DOMAIN daily' : daily'[i].equity <= peak'
  <1>1. /\ hold.at \in {"signals", "actions"} /\ UNCHANGED <<now, feed, index>>
        /\ peak' = IF equity' > peak THEN equity' ELSE peak
        /\ daily' = IF daily # <<>> /\ Last(daily).date = Date(now) THEN daily
                    ELSE Append(daily, [date |-> Date(now), equity |-> equity'])
    BY DEF BarEnds
  <1>2. hold'.at = "progress"
    BY DEF BarEnds, EngineTypes, RunTypes
  <1>3. Passed = index - 1 /\ Passed' = index
    BY <1>1, <1>2 DEF Passed
  <1>4. /\ index \in Nat /\ index >= 1 /\ index <= BarCount /\ BarCount \in Nat /\ IsFeed(feed)
        /\ now = TimeAt(index) /\ DatesUpTo(Passed) /\ Increasing
        /\ \A i \in DOMAIN daily : daily[i].equity <= peak
    BY <1>1, FS_CardinalityType DEF UseInv, OneRun, EngineTypes, RunTypes, BarCount, IsFeed
  <1>5. PICK n \in Nat : n = index - 1
    BY <1>4
  <1>6. index = n + 1 /\ n + 1 \in 1..BarCount /\ 1..(n + 1) = (1..n) \cup {n + 1}
    BY <1>4, <1>5
  <1>7. PICK d : d = Date(now)
    OBVIOUS
  <1>8. /\ {daily[i].date : i \in DOMAIN daily} = {Date(TimeAt(i)) : i \in 1..n}
        /\ daily # <<>> => n >= 1 /\ Last(daily).date = Date(TimeAt(n))
        /\ d = Date(TimeAt(n + 1))
    BY <1>3, <1>4, <1>5, <1>6, <1>7 DEF DatesUpTo
  <1>9. \A i : TimeAt(i)' = TimeAt(i)
    BY <1>1, TimesStay
  <1>10. {Date(TimeAt(i)) : i \in 1..(n + 1)} = {daily[i].date : i \in DOMAIN daily} \cup {d}
    BY <1>6, <1>8
  <1>11. d \in Nat /\ (n >= 1 => Date(TimeAt(n)) <= d)
    <2>1. TimeAt(n + 1) \in Nat
      BY <1>4, <1>6, TimeIs DEF IsFeed
    <2>2. ASSUME n >= 1 PROVE TimeAt(n) \in Nat /\ TimeAt(n) <= TimeAt(n + 1)
      <3>1. n \in 1..BarCount /\ n <= n + 1
        BY <1>4, <1>6, <2>2
      <3> QED BY <3>1, <1>4, <1>6, TimesGrow
    <2>3. Date(TimeAt(n + 1)) \in Nat
      BY <2>1, DatesFollow
    <2>4. n >= 1 => Date(TimeAt(n)) <= Date(TimeAt(n + 1))
      BY <2>1, <2>2, DatesFollow
    <2> QED BY <1>8, <2>3, <2>4
  <1>12. daily \in Seq([date : Nat, equity : Int]) /\ equity' \in Int /\ peak \in Int
    BY BarEndsTypes DEF EngineTypes, BookTypes
  <1>17. \A i \in DOMAIN daily : daily[i] \in [date : Nat, equity : Int]
    <2>1. PICK D : D = [date : Nat, equity : Int]
      OBVIOUS
    <2>2. daily \in Seq(D)
      BY <1>12, <2>1
    <2> HIDE <2>1
    <2>3. \A i \in DOMAIN daily : daily[i] \in D
      BY <2>2
    <2> QED BY <2>1, <2>3
  <1>13. peak' \in Int /\ peak <= peak' /\ equity' <= peak'
    BY <1>1, <1>12
  <1>14. DatesUpTo(Passed)' <=>
           /\ {daily'[i].date : i \in DOMAIN daily'} = {Date(TimeAt(i)) : i \in 1..(n + 1)}
           /\ daily' # <<>> => Last(daily').date = d
    <2>1. Passed' = n + 1 /\ n + 1 >= 1
      BY <1>3, <1>6
    <2>2. Date(TimeAt(n + 1))' = d /\ {Date(TimeAt(i)) : i \in 1..Passed}' = {Date(TimeAt(i)) : i \in 1..(n + 1)}
      BY <1>8, <1>9, <2>1
    <2>3. Date(TimeAt(Passed))' = d
      BY <1>8, <1>9, <2>1
    <2> QED BY <2>1, <2>2, <2>3 DEF DatesUpTo
  <1>15. CASE daily # <<>> /\ Last(daily).date = d
    <2>1. daily' = daily
      BY <1>1, <1>7, <1>15
    <2>2. d \in {daily[i].date : i \in DOMAIN daily}
      BY <1>12, <1>15 DEF Last
    <2>3. DatesUpTo(Passed)'
      BY <1>10, <1>14, <1>15, <2>1, <2>2
    <2>4. ASSUME NEW i \in DOMAIN daily' PROVE daily'[i].equity <= peak'
      <3>1. daily'[i] \in [date : Nat, equity : Int] /\ daily'[i] = daily[i]
        BY <1>17, <2>1, <2>4
      <3>2. daily'[i].equity \in Int /\ daily'[i].equity <= peak
        BY <1>4, <2>1, <2>4, <3>1
      <3> QED BY <1>12, <1>13, <3>2
    <2> QED BY <1>4, <2>1, <2>3, <2>4 DEF Increasing
  <1>16. CASE ~(daily # <<>> /\ Last(daily).date = d)
    <2>1. PICK r : r = [date |-> d, equity |-> equity']
      OBVIOUS
    <2>2. daily' = Append(daily, r) /\ r.date = d /\ r.equity = equity'
      BY <1>1, <1>7, <1>16, <2>1
    <2>3. PICK m : m = Len(daily)
      OBVIOUS
    <2>4. /\ m \in Nat /\ DOMAIN daily = 1..m /\ DOMAIN daily' = 1..(m + 1)
          /\ \A i \in 1..m : daily'[i] = daily[i] /\ daily[i] \in [date : Nat, equity : Int]
          /\ daily'[m + 1] = r /\ 1..(m + 1) = (1..m) \cup {m + 1} /\ daily' # <<>> /\ Last(daily') = r
      <3>1. r \in [date : Nat, equity : Int]
        BY <1>11, <1>12, <2>1
      <3> HIDE <2>1
      <3>2. m \in Nat /\ DOMAIN daily = 1..m
        BY <1>12, <2>3
      <3>3. Len(daily') = m + 1 /\ DOMAIN daily' = 1..(m + 1)
        BY <1>12, <2>2, <2>3, <3>1
      <3>4. \A i \in 1..m : daily'[i] = daily[i] /\ daily[i] \in [date : Nat, equity : Int]
        <4>1. PICK D : D = [date : Nat, equity : Int]
          OBVIOUS
        <4>2. daily \in Seq(D) /\ r \in D
          BY <1>12, <3>1, <4>1
        <4> HIDE <4>1
        <4>3. \A i \in 1..m : daily'[i] = daily[i]
          BY <2>2, <2>3, <4>2
        <4> QED BY <1>17, <3>2, <4>3
      <3>5. daily'[m + 1] = r
        BY <1>12, <2>2, <2>3, <3>1
      <3>6. 1..(m + 1) = (1..m) \cup {m + 1} /\ m + 1 \in DOMAIN daily'
        BY <3>2, <3>3
      <3>7. daily' # <<>> /\ Last(daily') = r
        BY <3>3, <3>5, <3>6 DEF Last
      <3> QED BY <3>2, <3>3, <3>4, <3>5, <3>6, <3>7
    <2>5. {daily'[i].date : i \in DOMAIN daily'} = {daily[i].date : i \in DOMAIN daily} \cup {d}
      BY <2>2, <2>4
    <2>6. DatesUpTo(Passed)'
      BY <1>10, <1>14, <2>2, <2>4, <2>5
    <2>7. ASSUME NEW j \in 1..m PROVE daily[j].date < d
      <3>1. daily # <<>> /\ Last(daily) = daily[m] /\ m \in 1..m
        BY <2>3, <2>4, <2>7 DEF Last
      <3>2. daily[m].date < d
        <4>1. daily[m].date = Date(TimeAt(n)) /\ n >= 1 /\ daily[m].date \in Nat
          BY <1>8, <2>4, <3>1
        <4>2. daily[m].date # d
          BY <1>16, <3>1
        <4> QED BY <1>11, <4>1, <4>2
      <3>3. CASE j = m
        BY <3>2, <3>3
      <3>4. CASE j # m
        <4>1. j \in 1..m - 1 /\ m \in DOMAIN daily
          BY <2>4, <2>7, <3>1, <3>4
        <4>2. daily[j].date < daily[m].date
          BY <1>4, <4>1 DEF Increasing
        <4>3. daily[j].date \in Nat /\ daily[m].date \in Nat
          BY <2>4, <2>7, <3>1
        <4> QED BY <1>11, <3>2, <4>2, <4>3
      <3> QED BY <3>3, <3>4
    <2>8. Increasing'
      <3>1. SUFFICES ASSUME NEW i \in DOMAIN daily', NEW j \in 1..i - 1
                     PROVE  daily'[j].date < daily'[i].date
        BY DEF Increasing
      <3>2. i \in 1..(m + 1) /\ j \in 1..m /\ daily'[j] = daily[j]
        BY <2>4, <3>1
      <3>3. CASE i = m + 1
        BY <2>2, <2>4, <2>7, <3>2, <3>3
      <3>4. CASE i # m + 1
        <4>1. i \in DOMAIN daily /\ daily'[i] = daily[i]
          BY <2>4, <3>2, <3>4
        <4>2. daily[j].date < daily[i].date
          BY <1>4, <3>1, <4>1 DEF Increasing
        <4> QED BY <3>2, <4>1, <4>2
      <3> QED BY <3>3, <3>4
    <2>9. ASSUME NEW i \in DOMAIN daily' PROVE daily'[i].equity <= peak'
      <3>1. CASE i = m + 1
        BY <1>13, <2>2, <2>4, <3>1
      <3>2. CASE i # m + 1
        <4>1. i \in DOMAIN daily /\ daily'[i] = daily[i] /\ daily[i].equity \in Int
          BY <2>4, <2>9, <3>2
        <4>2. daily[i].equity <= peak
          BY <1>4, <4>1
        <4> QED BY <1>12, <1>13, <4>1, <4>2
      <3> QED BY <3>1, <3>2
    <2> QED BY <2>6, <2>8, <2>9
  <1> QED BY <1>15, <1>16

LEMMA BarEndsUse ==
  ASSUME EngineTypes, UseInv, BarEnds
  PROVE  UseInv'
  <1>1. hold.at \in {"signals", "actions"}
        /\ UNCHANGED <<status, config, trades, now, feed, index, bars, run, use>>
    BY DEF BarEnds
  <1>2. hold'.at = "progress"
    BY DEF BarEnds, EngineTypes, RunTypes
  <1>3. BarCount' = BarCount
    BY <1>1, TimesStay
  <1>4. ~AllIdle /\ ~AllIdle'
    <2>1. hold.task \in Tasks /\ run[hold.task].at = "loading"
      BY <1>1 DEF EngineTypes, HoldInv
    <2>2. run[hold.task] # Idle
      BY <2>1 DEF Idle
    <2> QED BY <1>1, <2>1, <2>2 DEF AllIdle
  <1>5. ASSUME OneRun PROVE OneRun'
    <2>1. DatesUpTo(Passed)' /\ Increasing' /\ \A i \in DOMAIN daily' : daily'[i].equity <= peak'
      BY <1>5, DaysGrow
    <2>2. Ours(feed)'
      BY <1>1, <1>5 DEF OneRun, Ours
    <2>3. \A u \in Tasks : run'[u] # Idle => Supplied(run[u])'
      BY <1>1, <1>5 DEF OneRun, Supplied, Ours
    <2>4. status' # "completed"
      BY <1>1, <1>4, <1>5 DEF OneRun
    <2>5. /\ \A i \in DOMAIN trades' : trades'[i].symbol \in ToSet(config'.symbols)
          /\ \A u, v \in Tasks : run'[u] # Idle /\ run'[v] # Idle => u = v
      BY <1>1, <1>5 DEF OneRun
    <2> QED BY <1>2, <1>4, <2>1, <2>2, <2>3, <2>4, <2>5 DEF OneRun
  <1>6. use # "unused"
    BY <1>4 DEF UseInv
  <1> QED BY <1>1, <1>2, <1>3, <1>5, <1>6 DEF UseInv

\* A coroutine ends; it was the only one.
LEMMA OneEnds ==
  ASSUME EngineTypes, UseInv, OneRun, NEW t \in Tasks, run[t] # Idle, run'[t] = Idle,
         \A u \in Tasks \ {t} : run'[u] = run[u], hold' = Free,
         UNCHANGED <<config, trades, daily, peak, feed, index>>,
         status' = "failed"
           \/ (status' = "completed" /\ hold.at \in {"next", "progress"} /\ index >= BarCount)
  PROVE  OneRun'
  <1>1. \A u \in Tasks : run'[u] = Idle
    BY DEF OneRun
  <1>2. AllIdle'
    BY <1>1 DEF AllIdle
  <1>3. BarCount' = BarCount /\ \A i : TimeAt(i)' = TimeAt(i)
    BY TimesStay
  <1>4. ASSUME status' = "completed" PROVE index' = BarCount' /\ DatesUpTo(BarCount)'
    <2>1. hold.at \in {"next", "progress"} /\ index >= BarCount /\ index <= BarCount
          /\ index \in Nat /\ BarCount \in Nat
      BY <1>4, FS_CardinalityType DEF UseInv, EngineTypes, RunTypes, IsFeed, BarCount
    <2>2. index = BarCount /\ Passed = BarCount
      BY <2>1 DEF Passed
    <2>3. DatesUpTo(BarCount)
      BY <2>1, <2>2 DEF OneRun
    <2>4. DatesUpTo(BarCount)'
      BY <1>3, <2>3 DEF DatesUpTo
    <2> QED BY <1>3, <2>2, <2>4
  <1>5. Increasing'
    BY DEF OneRun, Increasing
  <1>6. hold'.at = "none"
    BY DEF Free
  <1>7. /\ \A i \in DOMAIN trades' : trades'[i].symbol \in ToSet(config'.symbols)
        /\ \A i \in DOMAIN daily' : daily'[i].equity <= peak'
    BY DEF OneRun
  <1> QED BY <1>1, <1>2, <1>4, <1>5, <1>6, <1>7 DEF OneRun

LEMMA EndsUse ==
  ASSUME EngineTypes, UseInv, Completes \/ BarRaises
  PROVE  UseInv'
  <1>1. PICK p : /\ Ends(p) /\ hold.at # "none"
                 /\ p = "failed" \/ (p = "completed" /\ hold.at \in {"next", "progress"}
                                        /\ index >= BarCount)
    <2>1. CASE Completes
      <3>1. PICK o \in {"failed", "completed"} : Ends(o)
        BY <2>1, CompletesIs
      <3> QED BY <2>1, <3>1, CompletesIs
    <2>2. CASE BarRaises
      BY <2>2 DEF BarRaises
    <2> QED BY <2>1, <2>2
  <1>2. /\ hold' = Free /\ run'[hold.task] = Idle /\ hold.task \in Tasks
        /\ \A t \in Tasks \ {hold.task} : run'[t] = run[t]
    BY <1>1, EndsTypes
  <1>3. status' = p /\ UNCHANGED <<config, trades, daily, peak, feed, index, use>>
    BY <1>1 DEF Ends, books
  <1>4. PICK t \in Tasks : t = hold.task
    BY <1>2
  <1>5. run[t] # Idle
    <2>1. run[t].at = "loading"
      BY <1>1, <1>4 DEF EngineTypes, HoldInv
    <2> QED BY <2>1 DEF Idle
  <1>6. use # "unused"
    BY <1>5 DEF UseInv, AllIdle
  <1>7. use' = "one" => OneRun'
    <2>1. SUFFICES ASSUME use' = "one" PROVE OneRun'
      OBVIOUS
    <2>2. OneRun
      BY <1>3, <2>1 DEF UseInv
    <2>3. status' = "failed"
           \/ (status' = "completed" /\ hold.at \in {"next", "progress"} /\ index >= BarCount)
      BY <1>1, <1>3
    <2> QED BY <1>2, <1>3, <1>4, <1>5, <2>2, <2>3, OneEnds
  <1>8. hold'.at = "none"
    BY <1>2 DEF Free
  <1> QED BY <1>3, <1>6, <1>7, <1>8 DEF UseInv

LEMMA HistoryRaisesUse ==
  ASSUME EngineTypes, UseInv, NEW t \in Tasks, HistoryRaises(t)
  PROVE  UseInv'
  <1>1. /\ run[t].at = "loading" /\ hold' = Free /\ status' = "failed"
        /\ UNCHANGED <<config, trades, daily, peak, feed, index, use>>
    BY DEF HistoryRaises, books
  <1>2. run'[t] = Idle /\ \A u \in Tasks \ {t} : run'[u] = run[u]
    BY HistoryRaisesTypes
  <1>3. run[t] # Idle
    BY <1>1 DEF Idle
  <1>4. use # "unused"
    BY <1>3 DEF UseInv, AllIdle
  <1>5. use' = "one" => OneRun'
    BY <1>1, <1>2, <1>3, OneEnds DEF UseInv
  <1>6. hold'.at = "none"
    BY <1>1 DEF Free
  <1> QED BY <1>1, <1>4, <1>5, <1>6 DEF UseInv

LEMMA UseStart ==
  ASSUME BacktestInit
  PROVE  UseInv
  BY DEF BacktestInit, UseInv, AllIdle, Free

LEMMA UseStep ==
  ASSUME EngineTypes, BookInv, UseInv, [BacktestNext]_backtestVars
  PROVE  UseInv'
  <1>1. CASE Setup
    BY <1>1, SetupUse
  <1>2. CASE Stop \/ UNCHANGED backtestVars
    BY <1>2, StopUse
  <1>3. CASE NextBar
    BY <1>3, NextBarUse
  <1>4. CASE ProcessAction
    BY <1>4, ActionUse
  <1>5. CASE BarEnds
    BY <1>5, BarEndsUse
  <1>6. CASE Completes \/ BarRaises
    BY <1>6, EndsUse
  <1>7. ASSUME NEW t \in Tasks, RunCall(t) PROVE UseInv'
    BY <1>7, RunCallUse
  <1>8. ASSUME NEW t \in Tasks, HistoryArrives(t) PROVE UseInv'
    BY <1>8, HistoryUse
  <1>9. ASSUME NEW t \in Tasks, HistoryRaises(t) PROVE UseInv'
    BY <1>9, HistoryRaisesUse
  <1> QED BY <1>1, <1>2, <1>3, <1>4, <1>5, <1>6, <1>7, <1>8, <1>9 DEF BacktestNext

LEMMA RunFollows ==
  ASSUME EngineTypes, UseInv
  PROVE  RunIsOfItsSetup
  <1>1. SUFFICES ASSUME use = "one" PROVE RunIsOfItsSetup
    BY DEF RunIsOfItsSetup
  <1>2. OneRun
    BY <1>1 DEF UseInv
  <1>3. status = "completed" =>
          index = BarCount /\ {daily[i].date : i \in DOMAIN daily} = {Date(t) : t \in DOMAIN feed}
    BY <1>2, TimesCover DEF OneRun, DatesUpTo, EngineTypes, RunTypes
  <1> QED BY <1>2, <1>3 DEF RunIsOfItsSetup, OneRun, Increasing, AllIdle

-----------------------------------------------------------------------------
(* The nodes that guard a position                                         *)

\* A finite set of integers has a greatest one and a least one.
LEMMA ExtremesExist ==
  ASSUME NEW S, S \subseteq Int, IsFiniteSet(S), S # {}
  PROVE  (\E m \in S : \A k \in S : m >= k) /\ (\E m \in S : \A k \in S : m <= k)
  <1> DEFINE Great(T) == \E m \in T : \A k \in T : m >= k
             Least(T) == \E m \in T : \A k \in T : m <= k
             Bad == {T \in SUBSET S : T # {} /\ ~(Great(T) /\ Least(T))}
  <1>1. SUFFICES ASSUME Bad # {} PROVE FALSE
    OBVIOUS
  <1>2. \A T \in Bad : IsFiniteSet(T)
    BY FS_Subset
  <1>3. PICK T \in Bad : \A U \in Bad : U \subseteq T => U = T
    <2> HIDE DEF Bad
    <2> QED BY <1>1, <1>2, SmallestSet
  <1>4. PICK x \in T : TRUE
    OBVIOUS
  <1>5. PICK U : U = T \ {x}
    OBVIOUS
  <1>6. CASE U = {}
    <2>1. T = {x} /\ x \in Int
      BY <1>4, <1>5, <1>6
    <2> QED BY <2>1, <1>3
  <1>7. CASE U # {}
    <2>1. U \notin Bad /\ U \in SUBSET S
      BY <1>3, <1>4, <1>5
    <2>2. Great(U) /\ Least(U)
      BY <2>1, <1>7
    <2>3. PICK m \in U : \A k \in U : m >= k
      BY <2>2
    <2>4. PICK l \in U : \A k \in U : l <= k
      BY <2>2
    <2>5. T \subseteq Int /\ x \in Int /\ m \in Int /\ l \in Int /\ T = U \cup {x}
      BY <1>3, <1>4, <1>5, <2>3, <2>4
    <2>6. Great(T)
      <3>1. CASE x >= m
        <4>1. \A k \in T : x >= k
          BY <2>3, <2>5, <3>1
        <4> QED BY <1>4, <4>1
      <3>2. CASE ~(x >= m)
        <4>1. \A k \in T : m >= k
          BY <2>3, <2>5, <3>2
        <4> QED BY <2>3, <2>5, <4>1
      <3> QED BY <3>1, <3>2
    <2>7. Least(T)
      <3>1. CASE x <= l
        <4>1. \A k \in T : x <= k
          BY <2>4, <2>5, <3>1
        <4> QED BY <1>4, <4>1
      <3>2. CASE ~(x <= l)
        <4>1. \A k \in T : l <= k
          BY <2>4, <2>5, <3>2
        <4> QED BY <2>5, <4>1
      <3> QED BY <3>1, <3>2
    <2> QED BY <1>3, <2>6, <2>7
  <1> QED BY <1>6, <1>7

\* The maximum and the minimum that the nodes use.
LEMMA ExtremesAre ==
  ASSUME NEW S, S \subseteq Int, NEW m \in S
  PROVE  /\ (\A k \in S : m >= k) => Guards!Max(S) = m
         /\ (\A k \in S : m <= k) => Guards!Min(S) = m
  <1>1. ASSUME \A k \in S : m >= k PROVE Guards!Max(S) = m
    <2>1. \A k \in S : (\A j \in S : k >= j) => k = m
      BY <1>1
    <2> QED BY <1>1, <2>1 DEF Guards!Max
  <1>2. ASSUME \A k \in S : m <= k PROVE Guards!Min(S) = m
    <2>1. \A k \in S : (\A j \in S : k <= j) => k = m
      BY <1>2
    <2> QED BY <1>2, <2>1 DEF Guards!Min
  <1> QED BY <1>1, <1>2

LEMMA MaxOfTwo ==
  ASSUME NEW m \in Int, NEW n \in Int
  PROVE  /\ Guards!Max({m, n}) = IF m >= n THEN m ELSE n
         /\ Guards!Min({m, n}) = IF m <= n THEN m ELSE n
  <1>1. {m, n} \subseteq Int /\ m \in {m, n} /\ n \in {m, n}
    OBVIOUS
  <1>2. CASE m >= n
    <2>1. Guards!Max({m, n}) = m
      BY <1>1, <1>2, ExtremesAre
    <2>2. Guards!Min({m, n}) = n
      BY <1>1, <1>2, ExtremesAre
    <2> QED BY <1>2, <2>1, <2>2
  <1>3. CASE ~(m >= n)
    <2>1. Guards!Max({m, n}) = n
      BY <1>1, <1>3, ExtremesAre
    <2>2. Guards!Min({m, n}) = m
      BY <1>1, <1>3, ExtremesAre
    <2> QED BY <1>3, <2>1, <2>2
  <1> QED BY <1>2, <1>3

LEMMA TimesMonotone ==
  ASSUME NEW a \in Int, NEW b \in Int, a <= b, NEW d \in Nat
  PROVE  a * d <= b * d /\ d * a <= d * b
  <1>1. (b - a) * d \in Nat
    <2>1. b - a \in Nat
      OBVIOUS
    <2> QED BY <2>1
  <1>2. (b - a) * d = b * d - a * d
    OBVIOUS
  <1> QED BY <1>1, <1>2

\* A sequence, of whatever.
IsList(q) == \E S : q \in Seq(S)

LEMMA ListGrows ==
  ASSUME NEW q, IsList(q), NEW x
  PROVE  /\ IsList(Append(q, x)) /\ Len(q) \in Nat /\ DOMAIN q = 1..Len(q)
         /\ Len(Append(q, x)) = Len(q) + 1 /\ DOMAIN Append(q, x) = 1..(Len(q) + 1)
         /\ \A i \in 1..Len(q) : Append(q, x)[i] = q[i]
         /\ Append(q, x)[Len(q) + 1] = x
  <1>1. PICK S : q \in Seq(S)
    BY DEF IsList
  <1>2. PICK T : T = S \cup {x}
    OBVIOUS
  <1>3. q \in Seq(T) /\ x \in T
    BY <1>1, <1>2
  <1>4. Append(q, x) \in Seq(T)
    BY <1>3
  <1> QED BY <1>3, <1>4 DEF IsList

LEMMA EmptyList == IsList(<<>>) /\ Len(<<>>) = 0 /\ DOMAIN <<>> = {}
  <1>1. <<>> \in Seq({})
    OBVIOUS
  <1> QED BY <1>1 DEF IsList

StopInputs == [price : StopPrices, side : {"long", "short"}, entry : EntryPrices]
RiskTold(in) ==
  IF Guards!WithinLimits(in) THEN [approved |-> in.signal, size |-> Guards!AdjustedSize(in)]
  ELSE Guards!Refused
DrawdownTold(d) == [urgency |-> Guards!Urgency(d), multiplier |-> Guards!SizeMultiplier(d)]
ThresholdTold(v) == [level |-> Guards!Level(v), part |-> Guards!Normalized(v)]

\* The best price of one side, as a member of the prices seen.
IsBestPrice(side, best) ==
  /\ \E i \in DOMAIN asked : asked[i].price = best
  /\ \A i \in DOMAIN asked : IF side = "long" THEN best >= asked[i].price ELSE best <= asked[i].price
TrailInv ==
  /\ \A i \in DOMAIN asked : asked[i] \in StopInputs
  /\ asked = <<>> => trail = Guards!NoTrail
  /\ \A side \in {"long", "short"} :
       asked # <<>> /\ (\A i \in DOMAIN asked : asked[i].side = side) =>
         /\ IsBestPrice(side, trail.highest)
         /\ trail.stop = IF trail.highest = asked[1].price THEN 0 ELSE Guards!StopAt(side, trail.highest)
         /\ told[Len(told)] <=> Guards!StopHit(asked[Len(asked)], trail)
GuardInv ==
  /\ watch \in WatchParams
  /\ IsList(asked) /\ IsList(told) /\ Len(told) = Len(asked)
  /\ watch.kind = "TrailingStopNode" => TrailInv
  /\ watch.kind = "RiskNode" =>
       \A i \in DOMAIN asked : asked[i] \in RiskInputs /\ told[i] = RiskTold(asked[i])
  /\ watch.kind = "DrawdownProtectionNode" =>
       \A i \in DOMAIN asked : asked[i] \in Drawdowns /\ told[i] = DrawdownTold(asked[i])
  /\ watch.kind = "ThresholdNode" =>
       \A i \in DOMAIN asked : asked[i] \in Readings /\ told[i] = ThresholdTold(asked[i])

LEMMA GuardStart == Guards!WatchInit => GuardInv
  BY EmptyList DEF Guards!WatchInit, GuardInv, TrailInv

LEMMA PricesArePositive == \A p \in StopPrices : p \in Nat /\ p > 0
  BY GuardAssumption

\* A better price moves the stop, and only that.
LEMMA StopSteps ==
  ASSUME GuardInv, NEW in \in StopInputs, watch.kind = "TrailingStopNode",
         Guards!ExecuteTrailingStop(in)
  PROVE  TrailInv'
  <1>1. PICK p : p = (Guards!StopHit(in, Guards!Trailed(in)))
    OBVIOUS
  <1>2. asked' = Append(asked, in) /\ told' = Append(told, p) /\ watch' = watch
        /\ trail' = Guards!Trailed(in)
    BY <1>1 DEF Guards!ExecuteTrailingStop, Guards!Tells
  <1>3. PICK n \in Nat : n = Len(asked) /\ n = Len(told)
    BY ListGrows DEF GuardInv
  <1>4. /\ DOMAIN asked = 1..n /\ Len(asked') = n + 1 /\ DOMAIN asked' = 1..(n + 1)
        /\ \A i \in 1..n : asked'[i] = asked[i]
        /\ asked'[n + 1] = in /\ Len(told') = n + 1 /\ told'[n + 1] = p
    BY <1>2, <1>3, ListGrows DEF GuardInv
  <1>5. asked' # <<>>
    BY <1>3, <1>4, EmptyList
  <1>6. TrailInv
    BY DEF GuardInv
  <1>7. \A i \in DOMAIN asked' : asked'[i] \in StopInputs
    BY <1>3, <1>4, <1>6 DEF TrailInv
  <1>8. ASSUME NEW side \in {"long", "short"}, \A i \in DOMAIN asked' : asked'[i].side = side
        PROVE  /\ IsBestPrice(side, trail.highest)'
               /\ trail'.stop = IF trail'.highest = asked'[1].price THEN 0
                                ELSE Guards!StopAt(side, trail.highest)'
               /\ told'[Len(told')] <=> Guards!StopHit(asked[Len(asked)], trail)'
    <2>1. in.side = side /\ in.price \in Nat /\ in.price > 0
      <3>1. in.price \in StopPrices /\ n + 1 \in DOMAIN asked'
        BY <1>3, <1>4 DEF StopInputs
      <3> QED BY <1>4, <1>8, <3>1, PricesArePositive
    <2>2. \A i \in 1..n : asked[i].side = side /\ asked[i].price \in Nat /\ asked[i].price > 0
      <3> SUFFICES ASSUME NEW i \in 1..n PROVE asked[i].side = side /\ asked[i].price \in Nat /\ asked[i].price > 0
        OBVIOUS
      <3>1. asked[i].price \in StopPrices /\ i \in DOMAIN asked' /\ asked'[i] = asked[i]
        BY <1>3, <1>4, <1>6 DEF TrailInv, StopInputs
      <3> QED BY <1>8, <3>1, PricesArePositive
    <2>3. PICK best : best = IF trail.highest = 0 THEN in.price ELSE trail.highest
      OBVIOUS
    <2> DEFINE better == IF side = "long" THEN in.price > best ELSE in.price < best
    <2>5. trail' = [highest |-> IF better THEN in.price ELSE best,
                    stop |-> IF better THEN Guards!StopAt(side, in.price) ELSE trail.stop,
                    activated |-> Guards!Activated(in)]
      BY <1>2, <2>1, <2>3 DEF Guards!Trailed
    <2>6. trail'.highest = (IF better THEN in.price ELSE best)
          /\ trail'.stop = IF better THEN Guards!StopAt(side, in.price) ELSE trail.stop
      <3> HIDE DEF better
      <3> QED BY <2>5
    <2>7. Guards!StopAt(side, trail.highest)' = Guards!StopAt(side, trail'.highest)
      BY <1>2 DEF Guards!StopAt
    <2>8. told'[Len(told')] <=> Guards!StopHit(asked[Len(asked)], trail)'
      <3>1. asked'[Len(asked')] = in
        BY <1>4
      <3>2. Guards!StopHit(asked[Len(asked)], trail)' <=> Guards!StopHit(in, Guards!Trailed(in))
        BY <1>2, <3>1 DEF Guards!StopHit
      <3>3. told'[Len(told')] = p
        BY <1>4
      <3> QED BY <1>1, <3>2, <3>3
    <2>9. CASE n = 0
      <3>1. trail = Guards!NoTrail
        BY <1>3, <1>4, <1>6, <2>9, ListGrows DEF TrailInv, GuardInv, IsList
      <3>2. trail.highest = 0 /\ trail.stop = 0 /\ best = in.price /\ ~better
        BY <2>1, <2>3, <3>1 DEF Guards!NoTrail
      <3>3. trail'.highest = in.price /\ trail'.stop = 0 /\ asked'[1] = in
        BY <1>4, <2>6, <2>9, <3>2
      <3>4. \A i \in DOMAIN asked' : asked'[i] = in
        BY <1>4, <2>9
      <3>5. IsBestPrice(side, trail.highest)'
        BY <1>4, <2>1, <2>9, <3>3, <3>4 DEF IsBestPrice
      <3> QED BY <2>8, <3>3, <3>5
    <2>10. CASE n # 0
      <3>1. asked # <<>>
        BY <1>3, <2>10, EmptyList
      <3>2. /\ IsBestPrice(side, trail.highest)
            /\ trail.stop = IF trail.highest = asked[1].price THEN 0 ELSE Guards!StopAt(side, trail.highest)
        BY <1>4, <1>6, <2>2, <3>1 DEF TrailInv
      <3>3. trail.highest \in Nat /\ trail.highest > 0
        BY <1>4, <2>2, <3>2 DEF IsBestPrice
      <3>4. best = trail.highest /\ asked'[1] = asked[1] /\ 1 \in 1..n
        BY <1>3, <1>4, <2>3, <2>10, <3>3
      <3>5. \A i \in 1..n : IF side = "long" THEN best >= asked[i].price ELSE best <= asked[i].price
        BY <1>4, <3>2, <3>4 DEF IsBestPrice
      <3>6. PICK k \in 1..n : asked[k].price = best
        BY <1>4, <3>2, <3>4 DEF IsBestPrice
      <3>7. CASE better
        <4>1. trail'.highest = in.price /\ trail'.stop = Guards!StopAt(side, in.price)
          BY <2>6, <3>7
        <4>2. \A i \in 1..n : IF side = "long" THEN in.price > asked[i].price ELSE in.price < asked[i].price
          BY <2>1, <2>2, <3>3, <3>4, <3>5, <3>7
        <4>3. in.price # asked[1].price
          BY <2>1, <2>2, <3>4, <4>2
        <4>4. IsBestPrice(side, trail.highest)'
          <5>1. \E i \in DOMAIN asked' : asked'[i].price = in.price
            BY <1>3, <1>4
          <5>2. ASSUME NEW i \in DOMAIN asked'
                PROVE  IF side = "long" THEN in.price >= asked'[i].price ELSE in.price <= asked'[i].price
            <6>1. CASE i = n + 1
              BY <1>4, <2>1, <6>1
            <6>2. CASE i # n + 1
              <7>1. i \in 1..n /\ asked'[i] = asked[i]
                BY <1>3, <1>4, <6>2
              <7> QED BY <2>1, <2>2, <4>2, <7>1
            <6> QED BY <6>1, <6>2
          <5> QED BY <4>1, <5>1, <5>2 DEF IsBestPrice
        <4> QED BY <2>7, <2>8, <3>4, <4>1, <4>3, <4>4
      <3>8. CASE ~better
        <4>1. trail'.highest = best /\ trail'.stop = trail.stop
          BY <2>6, <3>8
        <4>2. IF side = "long" THEN best >= in.price ELSE best <= in.price
          BY <2>1, <3>3, <3>4, <3>8
        <4>3. IsBestPrice(side, trail.highest)'
          <5>1. \E i \in DOMAIN asked' : asked'[i].price = best
            BY <1>3, <1>4, <3>6
          <5>2. ASSUME NEW i \in DOMAIN asked'
                PROVE  IF side = "long" THEN best >= asked'[i].price ELSE best <= asked'[i].price
            <6>1. CASE i = n + 1
              BY <1>4, <4>2, <6>1
            <6>2. CASE i # n + 1
              <7>1. i \in 1..n /\ asked'[i] = asked[i]
                BY <1>3, <1>4, <6>2
              <7> QED BY <3>5, <7>1
            <6> QED BY <6>1, <6>2
          <5> QED BY <4>1, <5>1, <5>2 DEF IsBestPrice
        <4> QED BY <2>7, <2>8, <3>2, <3>4, <4>1, <4>3
      <3> QED BY <3>7, <3>8
    <2> QED BY <2>9, <2>10
  <1> QED BY <1>5, <1>7, <1>8 DEF TrailInv

\* What a node tells of an input depends on the node alone.
LEMMA GuardAnswersStay ==
  ASSUME watch' = watch
  PROVE  /\ \A in : RiskTold(in)' = RiskTold(in)
         /\ \A d : DrawdownTold(d)' = DrawdownTold(d)
         /\ \A v : ThresholdTold(v)' = ThresholdTold(v)
  <1>1. \A in : RiskTold(in)' = RiskTold(in)
    BY DEF RiskTold, Guards!WithinLimits, Guards!AdjustedSize, Guards!ValueOr, Guards!Refused
  <1>2. \A d : DrawdownTold(d)' = DrawdownTold(d)
    BY DEF DrawdownTold, Guards!Urgency, Guards!SizeMultiplier
  <1>3. \A v : ThresholdTold(v)' = ThresholdTold(v)
    BY DEF ThresholdTold, Guards!Level, Guards!Normalized
  <1> QED BY <1>1, <1>2, <1>3

LEMMA GuardSteps ==
  ASSUME GuardInv, [Guards!WatchNext]_(Guards!watchVars)
  PROVE  GuardInv'
  <1>1. CASE UNCHANGED Guards!watchVars
    <2>1. UNCHANGED <<watch, trail, asked, told>>
      BY <1>1 DEF Guards!watchVars
    <2>2. TrailInv' = TrailInv
      BY <2>1 DEF TrailInv, IsBestPrice, Guards!StopAt, Guards!StopHit
    <2> QED BY <2>1, <2>2, GuardAnswersStay DEF GuardInv
  <1>2. CASE Guards!ResetWatch
    <2>1. trail' = Guards!NoTrail /\ asked' = <<>> /\ told' = <<>> /\ watch' = watch
      BY <1>2 DEF Guards!ResetWatch
    <2>2. TrailInv'
      BY <2>1, EmptyList DEF TrailInv, Guards!NoTrail
    <2> QED BY <2>1, <2>2, EmptyList DEF GuardInv
  <1>3. ASSUME NEW in, NEW output, NEW kind, Guards!Tells(kind, in, output)
        PROVE  /\ watch' = watch /\ watch.kind = kind
               /\ IsList(asked)' /\ IsList(told)' /\ Len(told') = Len(asked')
               /\ \A i \in DOMAIN asked' :
                    \/ asked'[i] = in /\ told'[i] = output
                    \/ i \in DOMAIN asked /\ asked'[i] = asked[i] /\ told'[i] = told[i]
    <2>1. asked' = Append(asked, in) /\ told' = Append(told, output) /\ watch' = watch /\ watch.kind = kind
      BY <1>3 DEF Guards!Tells
    <2>2. PICK n \in Nat : n = Len(asked) /\ n = Len(told)
      BY ListGrows DEF GuardInv
    <2>3. /\ IsList(asked') /\ Len(asked') = n + 1 /\ DOMAIN asked' = 1..(n + 1) /\ DOMAIN asked = 1..n
          /\ \A i \in 1..n : asked'[i] = asked[i]
          /\ asked'[n + 1] = in
      BY <2>1, <2>2, ListGrows DEF GuardInv
    <2>4. /\ IsList(told') /\ Len(told') = n + 1
          /\ \A i \in 1..n : told'[i] = told[i]
          /\ told'[n + 1] = output
      BY <2>1, <2>2, ListGrows DEF GuardInv
    <2>5. \A i \in 1..(n + 1) : i = n + 1 \/ i \in 1..n
      BY <2>2
    <2> QED BY <2>1, <2>3, <2>4, <2>5 DEF IsList
  <1>4. CASE \E in \in StopInputs : watch.kind = "TrailingStopNode" /\ Guards!ExecuteTrailingStop(in)
    <2>1. PICK in \in StopInputs : watch.kind = "TrailingStopNode" /\ Guards!ExecuteTrailingStop(in)
      BY <1>4
    <2>2. TrailInv'
      BY <2>1, StopSteps
    <2>3. PICK p : Guards!Tells("TrailingStopNode", in, p)
      BY <2>1 DEF Guards!ExecuteTrailingStop
    <2> QED BY <2>1, <2>2, <2>3, <1>3 DEF GuardInv
  <1>5. CASE \E in \in RiskInputs : Guards!ExecuteRisk(in)
    <2>1. PICK in \in RiskInputs : Guards!Tells("RiskNode", in, RiskTold(in))
      BY <1>5 DEF Guards!ExecuteRisk, RiskTold
    <2>2. \A i \in DOMAIN asked' : asked'[i] \in RiskInputs /\ told'[i] = RiskTold(asked'[i])
      BY <2>1, <1>3 DEF GuardInv
    <2>3. \A i \in DOMAIN asked' : asked'[i] \in RiskInputs /\ told'[i] = RiskTold(asked[i])'
      <3> SUFFICES ASSUME NEW i \in DOMAIN asked'
                   PROVE  asked'[i] \in RiskInputs /\ told'[i] = RiskTold(asked[i])'
        OBVIOUS
      <3>1. RiskTold(asked[i])' = RiskTold(asked'[i])
        BY <2>1, <1>3 DEF RiskTold, Guards!WithinLimits, Guards!AdjustedSize, Guards!ValueOr, Guards!Refused
      <3> QED BY <2>2, <3>1
    <2> QED BY <2>1, <2>3, <1>3 DEF GuardInv
  <1>6. CASE \E d \in Drawdowns : Guards!ExecuteDrawdown(d)
    <2>1. PICK d \in Drawdowns : Guards!Tells("DrawdownProtectionNode", d, DrawdownTold(d))
      BY <1>6 DEF Guards!ExecuteDrawdown, DrawdownTold
    <2>2. \A i \in DOMAIN asked' : asked'[i] \in Drawdowns /\ told'[i] = DrawdownTold(asked'[i])
      BY <2>1, <1>3 DEF GuardInv
    <2>3. \A i \in DOMAIN asked' : asked'[i] \in Drawdowns /\ told'[i] = DrawdownTold(asked[i])'
      <3> SUFFICES ASSUME NEW i \in DOMAIN asked'
                   PROVE  asked'[i] \in Drawdowns /\ told'[i] = DrawdownTold(asked[i])'
        OBVIOUS
      <3>0. watch' = watch
        BY <2>1, <1>3
      <3>1. DrawdownTold(asked[i])' = DrawdownTold(asked'[i])
        BY <3>0 DEF DrawdownTold, Guards!Urgency, Guards!SizeMultiplier
      <3> QED BY <2>2, <3>1
    <2> QED BY <2>1, <2>3, <1>3 DEF GuardInv
  <1>7. CASE \E v \in Readings : Guards!ExecuteThreshold(v)
    <2>1. PICK v \in Readings : Guards!Tells("ThresholdNode", v, ThresholdTold(v))
      BY <1>7 DEF Guards!ExecuteThreshold, ThresholdTold
    <2>2. \A i \in DOMAIN asked' : asked'[i] \in Readings /\ told'[i] = ThresholdTold(asked'[i])
      BY <2>1, <1>3 DEF GuardInv
    <2>3. \A i \in DOMAIN asked' : asked'[i] \in Readings /\ told'[i] = ThresholdTold(asked[i])'
      <3> SUFFICES ASSUME NEW i \in DOMAIN asked'
                   PROVE  asked'[i] \in Readings /\ told'[i] = ThresholdTold(asked[i])'
        OBVIOUS
      <3>0. watch' = watch
        BY <2>1, <1>3
      <3>1. ThresholdTold(asked[i])' = ThresholdTold(asked'[i])
        BY <3>0 DEF ThresholdTold, Guards!Level, Guards!Normalized
      <3> QED BY <2>2, <3>1
    <2> QED BY <2>1, <2>3, <1>3 DEF GuardInv
  <1> QED BY <1>1, <1>2, <1>4, <1>5, <1>6, <1>7 DEF Guards!WatchNext, StopInputs

LEMMA StopPromise ==
  ASSUME GuardInv
  PROVE  Guards!StopTrails
  <1> SUFFICES ASSUME NEW side \in {"long", "short"}, watch.kind = "TrailingStopNode", asked # <<>>,
                      \A i \in DOMAIN asked : asked[i].side = side
               PROVE  LET prices == {asked[i].price : i \in DOMAIN asked}
                          best == IF side = "long" THEN Guards!Max(prices) ELSE Guards!Min(prices)
                          last == asked[Len(asked)]
                          stop == Guards!StopAt(side, best)
                          back == IF side = "long" THEN 100 * last.price <= stop ELSE 100 * last.price >= stop
                      IN  /\ trail.highest = best
                          /\ trail.stop = IF best = asked[1].price THEN 0 ELSE stop
                          /\ told[Len(told)] <=>
                               trail.activated /\ best # asked[1].price /\ stop # 0 /\ back
    BY DEF Guards!StopTrails
  <1>1. /\ TrailInv /\ IsBestPrice(side, trail.highest)
        /\ trail.stop = IF trail.highest = asked[1].price THEN 0 ELSE Guards!StopAt(side, trail.highest)
        /\ told[Len(told)] <=> Guards!StopHit(asked[Len(asked)], trail)
    BY DEF GuardInv, TrailInv
  <1>2. PICK prices : prices = {asked[i].price : i \in DOMAIN asked}
    OBVIOUS
  <1>3. prices \subseteq Int
    <2>1. \A i \in DOMAIN asked : asked[i].price \in StopPrices
      BY <1>1 DEF TrailInv, StopInputs
    <2> QED BY <1>2, <2>1, PricesArePositive
  <1>4. PICK best : best = trail.highest
    OBVIOUS
  <1>5. best \in prices /\ \A p \in prices : IF side = "long" THEN best >= p ELSE best <= p
    BY <1>1, <1>2, <1>4 DEF IsBestPrice
  <1>6. best = IF side = "long" THEN Guards!Max(prices) ELSE Guards!Min(prices)
    <2>1. CASE side = "long"
      <3>1. \A p \in prices : best >= p
        BY <1>5, <2>1
      <3> QED BY <1>3, <1>5, <2>1, <3>1, ExtremesAre
    <2>2. CASE side # "long"
      <3>1. \A p \in prices : best <= p
        BY <1>5, <2>2
      <3> QED BY <1>3, <1>5, <2>2, <3>1, ExtremesAre
    <2> QED BY <2>1, <2>2
  <1>7. PICK last : last = asked[Len(asked)]
    OBVIOUS
  <1>8. last.side = side
    <2>1. DOMAIN asked = 1..Len(asked) /\ Len(asked) \in Nat
      BY ListGrows DEF GuardInv
    <2>2. Len(asked) # 0
      <3>1. PICK S : asked \in Seq(S)
        BY DEF GuardInv, IsList
      <3> QED BY <3>1
    <2>3. Len(asked) \in DOMAIN asked
      BY <2>1, <2>2
    <2> QED BY <1>7, <2>3
  <1>9. PICK stop : stop = Guards!StopAt(side, best)
    OBVIOUS
  <1>10. trail.stop = IF best = asked[1].price THEN 0 ELSE stop
    BY <1>1, <1>4, <1>9
  <1>11. Guards!StopHit(last, trail) <=>
           /\ trail.activated /\ trail.stop # 0
           /\ IF side = "long" THEN 100 * last.price <= trail.stop ELSE 100 * last.price >= trail.stop
    BY <1>8 DEF Guards!StopHit
  <1>12. told[Len(told)] <=> Guards!StopHit(last, trail)
    BY <1>1, <1>7
  <1>13. told[Len(told)] <=>
           /\ trail.activated /\ best # asked[1].price /\ stop # 0
           /\ IF side = "long" THEN 100 * last.price <= stop ELSE 100 * last.price >= stop
    <2>1. CASE best = asked[1].price
      BY <1>10, <1>11, <1>12, <2>1
    <2>2. CASE best # asked[1].price
      BY <1>10, <1>11, <1>12, <2>2
    <2> QED BY <2>1, <2>2
  <1> QED BY <1>2, <1>4, <1>6, <1>7, <1>9, <1>10, <1>13

\* The size for a portfolio that is worth something, and what the ATR leaves of it.
LEMMA SizeIs ==
  ASSUME NEW in \in RiskInputs, in.value >= 0
  PROVE  LET whole == Guards!ValueOr(in, DefaultValue)
             cut == whole - 100 * in.atr
         IN
         /\ whole \in Nat /\ whole > 0 /\ cut \in Int /\ cut <= whole /\ in.size \in Nat /\ in.atr \in Nat
         /\ Guards!AdjustedSize(in) =
              IF in.atr = 0 \/ ~watch.adjust THEN [num |-> in.size, den |-> 1]
              ELSE IF 2 * cut < whole THEN [num |-> in.size, den |-> 2]
                   ELSE [num |-> in.size * cut, den |-> whole]
  <1>1. in.size \in Nat /\ in.atr \in Nat /\ in.value \in Int
    BY GuardAssumption
  <1>2. PICK whole : whole = Guards!ValueOr(in, DefaultValue)
    OBVIOUS
  <1>3. whole \in Nat /\ whole > 0
    BY <1>1, <1>2, GuardAssumption DEF Guards!ValueOr
  <1>4. PICK cut : cut = whole - 100 * in.atr
    OBVIOUS
  <1>5. cut \in Int /\ cut <= whole
    BY <1>1, <1>3, <1>4
  <1>6. Guards!AdjustedSize(in) =
          CASE in.atr = 0 \/ ~watch.adjust -> [num |-> in.size, den |-> 1]
            [] in.atr # 0 /\ watch.adjust /\ 2 * cut < whole -> [num |-> in.size, den |-> 2]
            [] OTHER -> [num |-> in.size * cut, den |-> whole]
    BY <1>2, <1>3, <1>4 DEF Guards!AdjustedSize
  <1> QED BY <1>1, <1>2, <1>3, <1>4, <1>5, <1>6

\* The fields of what the node tells.
LEMMA RiskToldIs ==
  ASSUME NEW in
  PROVE  /\ Guards!WithinLimits(in) =>
              RiskTold(in).approved = in.signal /\ RiskTold(in).size = Guards!AdjustedSize(in)
         /\ ~Guards!WithinLimits(in) =>
              RiskTold(in).approved = FALSE /\ RiskTold(in).size = [num |-> 0, den |-> 1]
  <1>1. ASSUME Guards!WithinLimits(in)
        PROVE  RiskTold(in).approved = in.signal /\ RiskTold(in).size = Guards!AdjustedSize(in)
    <2>1. RiskTold(in) = [approved |-> in.signal, size |-> Guards!AdjustedSize(in)]
      BY <1>1, Zenon DEF RiskTold
    <2> QED BY <2>1
  <1>2. ASSUME ~Guards!WithinLimits(in)
        PROVE  RiskTold(in).approved = FALSE /\ RiskTold(in).size = [num |-> 0, den |-> 1]
    <2>1. RiskTold(in) = [approved |-> FALSE, size |-> [num |-> 0, den |-> 1]]
      BY <1>2, Zenon DEF RiskTold, Guards!Refused
    <2> QED BY <2>1
  <1> QED BY <1>1, <1>2, Zenon

LEMMA RiskPromise ==
  ASSUME GuardInv
  PROVE  Guards!RiskIsMonotone
  <1> SUFFICES ASSUME watch.kind = "RiskNode" PROVE Guards!RiskIsMonotone
    BY DEF Guards!RiskIsMonotone
  <1>1. \A i \in DOMAIN asked : asked[i] \in RiskInputs /\ told[i] = RiskTold(asked[i])
    BY DEF GuardInv
  <1>2. watch.limit \in Nat /\ watch.loss \in Nat /\ watch.cap \in Nat
    BY GuardAssumption DEF GuardInv
  <1>3. ASSUME NEW in \in RiskInputs, in.value >= 0
        PROVE  Guards!AtMost(Guards!AdjustedSize(in), [num |-> in.size, den |-> 1])
    <2>1. PICK whole, cut : whole = Guards!ValueOr(in, DefaultValue) /\ cut = whole - 100 * in.atr
      OBVIOUS
    <2>2. /\ whole \in Nat /\ whole > 0 /\ cut \in Int /\ cut <= whole /\ in.size \in Nat
          /\ Guards!AdjustedSize(in) =
               IF in.atr = 0 \/ ~watch.adjust THEN [num |-> in.size, den |-> 1]
               ELSE IF 2 * cut < whole THEN [num |-> in.size, den |-> 2]
                    ELSE [num |-> in.size * cut, den |-> whole]
      BY <1>3, <2>1, SizeIs
    <2>3. in.size * cut <= in.size * whole
      BY <2>2, TimesMonotone
    <2>4. PICK f : f = Guards!AdjustedSize(in)
      OBVIOUS
    <2>5. (f.num = in.size /\ f.den = 1) \/ (f.num = in.size /\ f.den = 2)
          \/ (f.num = in.size * cut /\ f.den = whole)
      BY <2>2, <2>4
    <2>6. f.num * 1 <= in.size * f.den
      <3>1. CASE f.num = in.size /\ f.den = 1
        BY <2>2, <3>1
      <3>2. CASE f.num = in.size /\ f.den = 2
        BY <2>2, <3>2
      <3>3. CASE f.num = in.size * cut /\ f.den = whole
        <4>1. in.size * cut \in Int
          BY <2>2, TimesMonotone
        <4> QED BY <2>3, <3>3, <4>1
      <3> QED BY <2>5, <3>1, <3>2, <3>3
    <2> QED BY <2>4, <2>6 DEF Guards!AtMost
  <1>4. ASSUME NEW i \in DOMAIN asked, asked[i].value >= 0
        PROVE  Guards!AtMost(told[i].size, [num |-> asked[i].size, den |-> 1])
    <2>1. CASE Guards!WithinLimits(asked[i])
      <3>1. told[i].size = Guards!AdjustedSize(asked[i])
        BY <1>1, <2>1, RiskToldIs
      <3> QED BY <1>1, <1>3, <1>4, <3>1
    <2>2. CASE ~Guards!WithinLimits(asked[i])
      <3>1. told[i].size = [num |-> 0, den |-> 1] /\ asked[i].size \in Nat
        BY <1>1, <2>2, GuardAssumption, RiskToldIs
      <3> QED BY <3>1 DEF Guards!AtMost
    <2> QED BY <2>1, <2>2
  <1>5. ASSUME NEW x \in RiskInputs, NEW y \in RiskInputs, x.value = y.value,
               y.size <= x.size, y.pnl >= x.pnl, y.atr <= x.atr, Guards!WithinLimits(x)
        PROVE  Guards!WithinLimits(y)
    <2>1. /\ x.size \in Nat /\ y.size \in Nat /\ x.pnl \in Int /\ y.pnl \in Int
          /\ x.atr \in Nat /\ y.atr \in Nat /\ x.value \in Int
      BY GuardAssumption
    <2>2. y.size <= watch.limit
      BY <1>2, <1>5, <2>1 DEF Guards!WithinLimits
    <2>3. watch.loss = 0 \/ y.pnl >= -watch.loss
      BY <1>2, <1>5, <2>1 DEF Guards!WithinLimits
    <2>4. PICK v : v = Guards!ValueOr(x, 1)
      OBVIOUS
    <2>5. v = Guards!ValueOr(y, 1) /\ v \in Int
      BY <1>5, <2>1, <2>4 DEF Guards!ValueOr
    <2>6. x.atr = 0 \/ watch.cap = 0 \/ v < 0 \/ 100 * x.atr <= watch.cap * v
      BY <1>5, <2>4 DEF Guards!WithinLimits
    <2>7. PICK m : m = watch.cap * v
      OBVIOUS
    <2>8. m \in Int
      BY <1>2, <2>5, <2>7
    <2>9. y.atr = 0 \/ watch.cap = 0 \/ v < 0 \/ 100 * y.atr <= m
      BY <1>5, <2>1, <2>6, <2>7, <2>8
    <2> QED BY <2>2, <2>3, <2>5, <2>7, <2>9 DEF Guards!WithinLimits
  <1>6. ASSUME NEW x \in RiskInputs, NEW y \in RiskInputs, x.value = y.value, x.value >= 0,
               y.size = x.size, y.atr <= x.atr
        PROVE  Guards!AtMost(Guards!AdjustedSize(x), Guards!AdjustedSize(y))
    <2>1. PICK whole : whole = Guards!ValueOr(x, DefaultValue)
      OBVIOUS
    <2>2. whole = Guards!ValueOr(y, DefaultValue)
      BY <1>6, <2>1 DEF Guards!ValueOr
    <2>3. PICK s, p, q : s = x.size /\ p = whole - 100 * x.atr /\ q = whole - 100 * y.atr
      OBVIOUS
    <2>4. /\ whole \in Nat /\ whole > 0 /\ p \in Int /\ s \in Nat /\ x.atr \in Nat
          /\ Guards!AdjustedSize(x) =
               IF x.atr = 0 \/ ~watch.adjust THEN [num |-> s, den |-> 1]
               ELSE IF 2 * p < whole THEN [num |-> s, den |-> 2]
                    ELSE [num |-> s * p, den |-> whole]
      BY <1>6, <2>1, <2>3, SizeIs
    <2>5. /\ q \in Int /\ y.atr \in Nat
          /\ Guards!AdjustedSize(y) =
               IF y.atr = 0 \/ ~watch.adjust THEN [num |-> s, den |-> 1]
               ELSE IF 2 * q < whole THEN [num |-> s, den |-> 2]
                    ELSE [num |-> s * q, den |-> whole]
      BY <1>6, <2>2, <2>3, SizeIs
    <2>6. p <= q
      BY <1>6, <2>3, <2>4, <2>5
    <2>7. CASE y.atr = 0 \/ ~watch.adjust
      BY <1>3, <1>6, <2>3, <2>5, <2>7
    <2>8. CASE y.atr # 0 /\ watch.adjust /\ 2 * q < whole
      <3>1. x.atr # 0 /\ 2 * p < whole
        BY <1>6, <2>4, <2>5, <2>6, <2>8
      <3>2. Guards!AdjustedSize(x) = [num |-> s, den |-> 2] /\ Guards!AdjustedSize(y) = [num |-> s, den |-> 2]
        BY <2>4, <2>5, <2>8, <3>1
      <3> QED BY <2>4, <3>2 DEF Guards!AtMost
    <2>9. CASE y.atr # 0 /\ watch.adjust /\ ~(2 * q < whole)
      <3>1. Guards!AdjustedSize(y) = [num |-> s * q, den |-> whole] /\ x.atr # 0
        BY <1>6, <2>4, <2>5, <2>9
      <3>2. CASE 2 * p < whole
        <4>1. Guards!AdjustedSize(x) = [num |-> s, den |-> 2]
          BY <2>4, <2>9, <3>1, <3>2
        <4>2. s * whole <= s * (2 * q)
          <5>1. 2 * q \in Int /\ whole <= 2 * q
            BY <2>4, <2>5, <2>9
          <5> QED BY <2>4, <5>1, TimesMonotone
        <4>3. s * (2 * q) = (s * q) * 2
          BY <2>4, <2>5
        <4> QED BY <3>1, <4>1, <4>2, <4>3 DEF Guards!AtMost
      <3>3. CASE ~(2 * p < whole)
        <4>1. Guards!AdjustedSize(x) = [num |-> s * p, den |-> whole]
          BY <2>4, <2>9, <3>1, <3>3
        <4>2. s * p <= s * q /\ s * p \in Int /\ s * q \in Int
          BY <2>4, <2>5, <2>6, TimesMonotone
        <4>3. (s * p) * whole <= (s * q) * whole
          BY <2>4, <4>2, TimesMonotone
        <4> QED BY <3>1, <4>1, <4>3 DEF Guards!AtMost
      <3> QED BY <3>2, <3>3
    <2> QED BY <2>7, <2>8, <2>9
  <1>7. ASSUME NEW i \in DOMAIN asked, NEW j \in DOMAIN asked,
               told[i].approved, asked[j].signal, asked[i].value = asked[j].value,
               asked[j].size <= asked[i].size, asked[j].pnl >= asked[i].pnl, asked[j].atr <= asked[i].atr
        PROVE  /\ told[j].approved
               /\ asked[i].value >= 0 /\ asked[i].size = asked[j].size =>
                    Guards!AtMost(told[i].size, told[j].size)
    <2>1. Guards!WithinLimits(asked[i])
      BY <1>1, <1>7, RiskToldIs
    <2>2. Guards!WithinLimits(asked[j])
      BY <1>1, <1>5, <1>7, <2>1
    <2>3. told[j].approved
      BY <1>1, <1>7, <2>2, RiskToldIs
    <2>4. told[i].size = Guards!AdjustedSize(asked[i]) /\ told[j].size = Guards!AdjustedSize(asked[j])
      BY <1>1, <2>1, <2>2, RiskToldIs
    <2> QED BY <1>1, <1>6, <1>7, <2>3, <2>4
  <1> QED BY <1>4, <1>7 DEF Guards!RiskIsMonotone

LEMMA MultiplierIs ==
  ASSUME NEW d \in Int, watch.max \in Nat, watch.action \in {"reduce_size", "stop_trading", "hedge"}
  PROVE  /\ Guards!SizeMultiplier(d) =
              IF d < watch.max \/ watch.action = "hedge" THEN 100
              ELSE IF watch.action = "stop_trading" THEN 0
                   ELSE IF 100 - 10 * (d - watch.max) >= 10 THEN 100 - 10 * (d - watch.max) ELSE 10
         /\ Guards!Urgency(d) =
              IF d >= 2 * watch.max THEN 3
              ELSE IF 2 * d >= 3 * watch.max THEN 2
                   ELSE IF d >= watch.max THEN 1 ELSE 0
  <1>1. PICK r : r = 100 - 10 * (d - watch.max)
    OBVIOUS
  <1>2. r \in Int
    BY <1>1
  <1>3. Guards!Max({10, r}) = IF r >= 10 THEN r ELSE 10
    BY <1>2, MaxOfTwo
  <1>4. Guards!SizeMultiplier(d) =
          CASE d < watch.max \/ watch.action = "hedge" -> 100
            [] d >= watch.max /\ watch.action = "stop_trading" -> 0
            [] OTHER -> Guards!Max({10, r})
    BY <1>1 DEF Guards!SizeMultiplier
  <1>5. Guards!SizeMultiplier(d) =
              IF d < watch.max \/ watch.action = "hedge" THEN 100
              ELSE IF watch.action = "stop_trading" THEN 0
                   ELSE IF r >= 10 THEN r ELSE 10
    BY <1>3, <1>4
  <1>6. Guards!Urgency(d) =
              IF d >= 2 * watch.max THEN 3
              ELSE IF 2 * d >= 3 * watch.max THEN 2
                   ELSE IF d >= watch.max THEN 1 ELSE 0
    BY DEF Guards!Urgency
  <1> QED BY <1>1, <1>5, <1>6

LEMMA DrawdownPromise ==
  ASSUME GuardInv
  PROVE  Guards!DrawdownIsMonotone
  <1> SUFFICES ASSUME watch.kind = "DrawdownProtectionNode",
                      NEW i \in DOMAIN asked, NEW j \in DOMAIN asked
               PROVE  /\ asked[i] <= asked[j] => /\ told[j].multiplier <= told[i].multiplier
                                                 /\ told[j].urgency >= told[i].urgency
                      /\ told[i].multiplier = 0 => watch.action = "stop_trading" /\ told[i].urgency > 0
    BY DEF Guards!DrawdownIsMonotone
  <1>1. watch.max \in Nat /\ watch.action \in {"reduce_size", "stop_trading", "hedge"}
    BY GuardAssumption DEF GuardInv
  <1>2. PICK a, b, m : a = asked[i] /\ b = asked[j] /\ m = watch.max
    OBVIOUS
  <1>3. a \in Int /\ b \in Int /\ told[i] = DrawdownTold(a) /\ told[j] = DrawdownTold(b)
    BY <1>2, GuardAssumption DEF GuardInv
  <1>4. /\ told[i].multiplier = Guards!SizeMultiplier(a) /\ told[i].urgency = Guards!Urgency(a)
        /\ told[j].multiplier = Guards!SizeMultiplier(b) /\ told[j].urgency = Guards!Urgency(b)
    BY <1>3 DEF DrawdownTold
  <1>5. /\ told[i].multiplier =
             IF a < m \/ watch.action = "hedge" THEN 100
             ELSE IF watch.action = "stop_trading" THEN 0
                  ELSE IF 100 - 10 * (a - m) >= 10 THEN 100 - 10 * (a - m) ELSE 10
        /\ told[j].multiplier =
             IF b < m \/ watch.action = "hedge" THEN 100
             ELSE IF watch.action = "stop_trading" THEN 0
                  ELSE IF 100 - 10 * (b - m) >= 10 THEN 100 - 10 * (b - m) ELSE 10
    BY <1>1, <1>2, <1>3, <1>4, MultiplierIs
  <1>6. /\ told[i].urgency = IF a >= 2 * m THEN 3 ELSE IF 2 * a >= 3 * m THEN 2 ELSE IF a >= m THEN 1 ELSE 0
        /\ told[j].urgency = IF b >= 2 * m THEN 3 ELSE IF 2 * b >= 3 * m THEN 2 ELSE IF b >= m THEN 1 ELSE 0
    BY <1>1, <1>2, <1>3, <1>4, MultiplierIs
  <1>7. m \in Nat
    BY <1>1, <1>2
  <1>8. told[i].multiplier = 0 => watch.action = "stop_trading" /\ told[i].urgency > 0
    BY <1>1, <1>3, <1>5, <1>6, <1>7
  <1>9. a <= b => told[j].multiplier <= told[i].multiplier /\ told[j].urgency >= told[i].urgency
    BY <1>1, <1>3, <1>5, <1>6, <1>7
  <1> QED BY <1>2, <1>8, <1>9

\* The level is the number of the last level that is reached.
LEMMA LevelIs ==
  ASSUME watch.levels \in Seq(Int), NEW v \in Int
  PROVE  /\ Guards!Level(v) \in 0..Len(watch.levels)
         /\ Guards!Level(v) # 0 => v >= watch.levels[Guards!Level(v)]
         /\ \A k \in DOMAIN watch.levels : v >= watch.levels[k] => k <= Guards!Level(v)
  <1>1. PICK n \in Nat : n = Len(watch.levels) /\ DOMAIN watch.levels = 1..n
    OBVIOUS
  <1>2. PICK S : S = {0} \cup {k \in DOMAIN watch.levels : v >= watch.levels[k]}
    OBVIOUS
  <1>3. S \subseteq Nat /\ S # {} /\ \A k \in S : k <= n
    BY <1>1, <1>2
  <1>4. PICK m \in S : \A k \in S : k <= m
    BY <1>3, GreatestNat
  <1>5. S \subseteq Int /\ m \in Nat /\ \A k \in S : m >= k
    BY <1>3, <1>4
  <1>6. Guards!Max(S) = m
    BY <1>5, ExtremesAre
  <1>7. Guards!Level(v) = m
    BY <1>2, <1>6 DEF Guards!Level
  <1>8. m \in 0..n
    BY <1>3, <1>5
  <1> QED BY <1>1, <1>2, <1>4, <1>7, <1>8

\* The Cardinality that the instance sees is the same.
LEMMA CardinalityThere == \A S : Guards!Cardinality(S) = Cardinality(S)
  BY DEF Cardinality, Guards!Cardinality

\* For ascending levels the last one reached is how many of them are.
LEMMA LevelCounts ==
  ASSUME watch.levels \in Seq(Int), NEW v \in Int,
         \A i, j \in DOMAIN watch.levels : i < j => watch.levels[i] < watch.levels[j]
  PROVE  Guards!Level(v) = Cardinality({k \in DOMAIN watch.levels : v >= watch.levels[k]})
  <1>1. PICK n \in Nat : n = Len(watch.levels) /\ DOMAIN watch.levels = 1..n
    OBVIOUS
  <1>2. PICK m : m = Guards!Level(v)
    OBVIOUS
  <1>3. /\ m \in 0..n
        /\ m # 0 => v >= watch.levels[m]
        /\ \A k \in 1..n : v >= watch.levels[k] => k <= m
    BY <1>1, <1>2, LevelIs
  <1>4. {k \in 1..n : v >= watch.levels[k]} = 1..m
    <2>1. ASSUME NEW k \in 1..n, k <= m PROVE v >= watch.levels[k]
      <3>1. m \in 1..n /\ v >= watch.levels[m]
        BY <1>3, <2>1
      <3>2. \A j \in DOMAIN watch.levels : watch.levels[j] \in Int
        OBVIOUS
      <3>3. k \in DOMAIN watch.levels /\ m \in DOMAIN watch.levels
        BY <1>1, <2>1, <3>1
      <3>4. watch.levels[k] \in Int /\ watch.levels[m] \in Int
        BY <3>2, <3>3
      <3>5. CASE k = m
        BY <3>1, <3>5
      <3>6. CASE k < m
        <4>1. watch.levels[k] < watch.levels[m]
          BY <3>3, <3>6, Zenon
        <4> QED BY <3>1, <3>4, <4>1
      <3>7. k \in Int /\ m \in Int
        BY <3>1
      <3> QED BY <2>1, <3>5, <3>6, <3>7
    <2> QED BY <1>3, <2>1
  <1>5. Cardinality(1..m) = m
    <2>1. m \in Int /\ 1 \in Int /\ m >= 0
      BY <1>3
    <2>2. Cardinality(1..m) = IF 1 > m THEN 0 ELSE m - 1 + 1
      <3>1. \A a, b \in Int : Cardinality(a..b) = IF a > b THEN 0 ELSE b - a + 1
        BY FS_Interval
      <3> QED BY <2>1, <3>1
    <2> QED BY <2>1, <2>2
  <1> QED BY <1>1, <1>2, <1>4, <1>5

LEMMA NormalizedGrows ==
  ASSUME watch.levels \in Seq(Int), NEW v \in Int, NEW w \in Int, v <= w
  PROVE  Guards!AtMost(Guards!Normalized(v), Guards!Normalized(w))
  <1>1. PICK S : S = {watch.levels[i] : i \in DOMAIN watch.levels}
    OBVIOUS
  <1>2. PICK d, l : d = Guards!Max(S) - Guards!Min(S) /\ l = Guards!Min(S)
    OBVIOUS
  <1>3. \A x : Guards!Normalized(x) =
          IF S = {} \/ d = 0 THEN [num |-> 1, den |-> 2]
          ELSE [num |-> Guards!Max({0, Guards!Min({d, x - l})}), den |-> d]
    BY <1>1, <1>2 DEF Guards!Normalized
  <1>4. CASE S = {} \/ d = 0
    <2>1. Guards!Normalized(v) = [num |-> 1, den |-> 2] /\ Guards!Normalized(w) = [num |-> 1, den |-> 2]
      BY <1>3, <1>4
    <2> QED BY <2>1 DEF Guards!AtMost
  <1>5. CASE S # {} /\ d # 0
    <2>1. IsFiniteSet(S) /\ S \subseteq Int
      <3>1. S \subseteq Int
        BY <1>1
      <3>2. PICK n \in Nat : DOMAIN watch.levels = 1..n
        OBVIOUS
      <3>3. PICK f : f = [i \in 1..n |-> watch.levels[i]]
        OBVIOUS
      <3>4. S = {f[i] : i \in 1..n}
        BY <1>1, <3>2, <3>3
      <3>5. IsFiniteSet(1..n)
        <4>1. n \in Int /\ 1 \in Int
          OBVIOUS
        <4> QED BY <4>1, FS_Interval
      <3>6. f \in Surjection(1..n, S)
        BY <3>3, <3>4 DEF Surjection
      <3>7. IsFiniteSet(S)
        BY <3>5, <3>6, FS_Surjection
      <3> QED BY <3>1, <3>7
    <2>2. d \in Nat /\ l \in Int
      <3>1. PICK h \in S : \A k \in S : h >= k
        BY <1>5, <2>1, ExtremesExist
      <3>2. PICK g \in S : \A k \in S : g <= k
        BY <1>5, <2>1, ExtremesExist
      <3>3. Guards!Max(S) = h /\ Guards!Min(S) = g
        BY <2>1, <3>1, <3>2, ExtremesAre
      <3>4. h \in Int /\ g \in Int /\ g <= h
        BY <2>1, <3>1, <3>2
      <3> QED BY <1>2, <3>3, <3>4
    <2>3. ASSUME NEW x \in Int
          PROVE  Guards!Max({0, Guards!Min({d, x - l})}) =
                   IF x - l <= 0 THEN 0 ELSE IF x - l <= d THEN x - l ELSE d
      <3>1. x - l \in Int /\ d \in Int /\ 0 \in Int
        BY <2>2
      <3>2. PICK y : y = Guards!Min({d, x - l})
        OBVIOUS
      <3>3. y = IF d <= x - l THEN d ELSE x - l
        BY <3>1, <3>2, MaxOfTwo
      <3>4. y \in Int
        BY <3>1, <3>3
      <3>5. Guards!Max({0, y}) = IF 0 >= y THEN 0 ELSE y
        BY <3>1, <3>4, MaxOfTwo
      <3> QED BY <2>2, <3>1, <3>2, <3>3, <3>5
    <2>4. PICK a, b : /\ a = Guards!Max({0, Guards!Min({d, v - l})})
                      /\ b = Guards!Max({0, Guards!Min({d, w - l})})
      OBVIOUS
    <2>5. a = (IF v - l <= 0 THEN 0 ELSE IF v - l <= d THEN v - l ELSE d)
          /\ b = IF w - l <= 0 THEN 0 ELSE IF w - l <= d THEN w - l ELSE d
      BY <2>3, <2>4
    <2>6. a \in Int /\ b \in Int /\ a <= b
      BY <2>2, <2>5
    <2>7. a * d <= b * d
      BY <2>2, <2>6, TimesMonotone
    <2>8. Guards!Normalized(v) = [num |-> a, den |-> d] /\ Guards!Normalized(w) = [num |-> b, den |-> d]
      BY <1>3, <1>5, <2>4
    <2> QED BY <2>7, <2>8 DEF Guards!AtMost
  <1> QED BY <1>4, <1>5

LEMMA LevelPromise ==
  ASSUME GuardInv
  PROVE  Guards!LevelsCount
  <1> SUFFICES ASSUME watch.kind = "ThresholdNode" PROVE Guards!LevelsCount
    BY DEF Guards!LevelsCount
  <1>1. watch.levels \in Seq(Int)
    BY GuardAssumption DEF GuardInv
  <1>2. \A i \in DOMAIN asked : /\ asked[i] \in Int
                                /\ told[i].level = Guards!Level(asked[i])
                                /\ told[i].part = Guards!Normalized(asked[i])
    <2>1. \A r \in Readings : r \in Int
      BY GuardAssumption
    <2>2. \A v : ThresholdTold(v).level = Guards!Level(v) /\ ThresholdTold(v).part = Guards!Normalized(v)
      BY DEF ThresholdTold
    <2>3. \A i \in DOMAIN asked : asked[i] \in Readings /\ told[i] = ThresholdTold(asked[i])
      BY DEF GuardInv
    <2> HIDE DEF ThresholdTold
    <2> QED BY <2>1, <2>2, <2>3
  <1>3. ASSUME \A i, j \in DOMAIN watch.levels : i < j => watch.levels[i] < watch.levels[j],
               NEW i \in DOMAIN asked
        PROVE  told[i].level = Cardinality({k \in DOMAIN watch.levels : asked[i] >= watch.levels[k]})
    <2>1. PICK v : v = asked[i]
      OBVIOUS
    <2>2. Guards!Level(v) = Cardinality({k \in DOMAIN watch.levels : v >= watch.levels[k]})
      BY <1>1, <1>2, <1>3, <2>1, LevelCounts
    <2> QED BY <1>2, <2>1, <2>2
  <1>4. ASSUME NEW i \in DOMAIN asked, NEW j \in DOMAIN asked, asked[i] <= asked[j]
        PROVE  told[i].level <= told[j].level /\ Guards!AtMost(told[i].part, told[j].part)
    <2>1. PICK v \in Int, w \in Int : v = asked[i] /\ w = asked[j]
      BY <1>2
    <2>2. PICK p, q : p = Guards!Level(v) /\ q = Guards!Level(w)
      OBVIOUS
    <2>3. /\ p \in 0..Len(watch.levels)
          /\ p # 0 => v >= watch.levels[p]
          /\ q \in 0..Len(watch.levels)
          /\ \A k \in DOMAIN watch.levels : w >= watch.levels[k] => k <= q
      BY <1>1, <2>2, LevelIs
    <2>4. p <= q
      <3>1. CASE p = 0
        BY <2>3, <3>1
      <3>2. CASE p # 0
        <4>1. p \in DOMAIN watch.levels /\ watch.levels[p] \in Int
          BY <1>1, <2>3, <3>2
        <4>2. w >= watch.levels[p]
          BY <1>4, <2>1, <2>3, <3>2, <4>1
        <4> QED BY <2>3, <4>1, <4>2
      <3> QED BY <3>1, <3>2
    <2>5. Guards!AtMost(Guards!Normalized(v), Guards!Normalized(w))
      BY <1>1, <1>4, <2>1, NormalizedGrows
    <2> QED BY <1>2, <2>1, <2>2, <2>4, <2>5
  <1>5. (\A i, j \in DOMAIN watch.levels : i < j => watch.levels[i] < watch.levels[j]) =>
          \A i \in DOMAIN asked :
            told[i].level = Cardinality({k \in DOMAIN watch.levels : asked[i] >= watch.levels[k]})
    BY <1>3
  <1>6. \A i, j \in DOMAIN asked : asked[i] <= asked[j] =>
          told[i].level <= told[j].level /\ Guards!AtMost(told[i].part, told[j].part)
    BY <1>4
  <1>7. Guards!LevelsCount <=>
          (watch.kind = "ThresholdNode" =>
            /\ (\A i, j \in DOMAIN watch.levels : i < j => watch.levels[i] < watch.levels[j]) =>
                 \A i \in DOMAIN asked :
                   told[i].level = Cardinality({k \in DOMAIN watch.levels : asked[i] >= watch.levels[k]})
            /\ \A i, j \in DOMAIN asked : asked[i] <= asked[j] =>
                 told[i].level <= told[j].level /\ Guards!AtMost(told[i].part, told[j].part))
    BY CardinalityThere DEF Guards!LevelsCount
  <1> QED BY <1>5, <1>6, <1>7

LEMMA GuardPromises == GuardInv => Guards!RiskNodesGuard
  BY StopPromise, RiskPromise, DrawdownPromise, LevelPromise DEF Guards!RiskNodesGuard

-----------------------------------------------------------------------------
(* The portfolio                                                           *)

Dealt == [symbol : Instruments, side : {"buy", "sell"}, quantity : Lots, price : FillPrices,
          commission : Fees, slippage : Fees]
LotOf(t) == Books!SignedLot(t.side, t.quantity)

\* What Portfolio says of its trades, for any list of them and the last closing of a symbol.
LotsIn(tr) == [i \in DOMAIN tr |-> LotOf(tr[i])]
CommissionsIn(tr) == [i \in DOMAIN tr |-> tr[i].commission]
SlippagesIn(tr) == [i \in DOMAIN tr |-> tr[i].slippage]
AmountsIn(tr) == [i \in DOMAIN tr |-> LotOf(tr[i]) * tr[i].price]
SinceIn(tr, c, s) == {i \in DOMAIN tr : tr[i].symbol = s /\ i > c}
AfterIn(tr, c, s, i) == SumFunctionOnSet(LotsIn(tr), {j \in SinceIn(tr, c, s) : j <= i})
AddedIn(tr, c, s, o) == {i \in SinceIn(tr, c, s) : i > o}
PaidIn(tr, c, s, o) ==
  AfterIn(tr, c, s, o) * tr[o].price + SumFunctionOnSet(AmountsIn(tr), AddedIn(tr, c, s, o))

\* Trade o opened the position or turned it round, and none has since.
OpensIn(tr, c, s, o) ==
  /\ o \in SinceIn(tr, c, s)
  /\ AfterIn(tr, c, s, o - 1) * AfterIn(tr, c, s, o) <= 0
  /\ \A i \in AddedIn(tr, c, s, o) : AfterIn(tr, c, s, i - 1) * AfterIn(tr, c, s, i) > 0
UnreducedIn(tr, c, s, o) ==
  \A i \in AddedIn(tr, c, s, o) : LotOf(tr[i]) * AfterIn(tr, c, s, Len(tr)) > 0

\* A position is what the trades add up to.  An unreduced one has a cost of its own side,
\* so that a quote above 0 always sets its profit.
ProfitIs(pos, quote) ==
  pos.unrealized = IF pos.quantity > 0 THEN pos.quantity * quote - pos.cost
                   ELSE pos.cost - pos.quantity * quote
PositionIs(tr, c, s, pos, quote) ==
  /\ pos.quantity = AfterIn(tr, c, s, Len(tr)) /\ pos.quantity # 0
  /\ \E o \in DOMAIN tr :
       /\ OpensIn(tr, c, s, o)
       /\ UnreducedIn(tr, c, s, o) => /\ pos.cost = PaidIn(tr, c, s, o)
                                      /\ pos.quantity * pos.cost > 0
                                      /\ quote # 0 => ProfitIs(pos, quote)

PositionRecord == [quantity : Int, cost : Int, unrealized : Int, realized : Int]

PortfolioInv ==
  /\ trades \in Seq(Dealt)
  /\ closedAt \in [Instruments -> Nat] /\ quoted \in [Instruments -> Nat]
  /\ \A s \in Instruments : closedAt[s] <= Len(trades)
  /\ held \in [DOMAIN held -> PositionRecord] /\ DOMAIN held \subseteq Instruments
  /\ cash = InitialCapital - SumFunctionOnSet(AmountsIn(trades), DOMAIN trades) - commissions - slippages
  /\ commissions = SumFunctionOnSet(CommissionsIn(trades), DOMAIN trades)
  /\ slippages = SumFunctionOnSet(SlippagesIn(trades), DOMAIN trades)
  /\ \A s \in Instruments :
       IF s \in DOMAIN held THEN PositionIs(trades, closedAt[s], s, held[s], quoted[s])
       ELSE AfterIn(trades, closedAt[s], s, Len(trades)) = 0

LEMMA SignOfProduct ==
  ASSUME NEW m \in Int, NEW n \in Int
  PROVE  /\ m * n \in Int
         /\ m * n > 0 <=> (m > 0 /\ n > 0) \/ (m < 0 /\ n < 0)
         /\ m * n < 0 <=> (m > 0 /\ n < 0) \/ (m < 0 /\ n > 0)
  <1>1. CASE m = 0 \/ n = 0
    BY <1>1
  <1>2. CASE m > 0 /\ n > 0
    BY <1>2
  <1>3. CASE m > 0 /\ n < 0
    BY <1>3
  <1>4. CASE m < 0 /\ n > 0
    BY <1>4
  <1>5. CASE m < 0 /\ n < 0
    <2>1. m * n = (-m) * (-n)
      OBVIOUS
    <2>2. (-m) * (-n) > 0
      BY <1>5
    <2> QED BY <1>5, <2>1, <2>2
  <1> QED BY <1>1, <1>2, <1>3, <1>4, <1>5

LEMMA DealtIs ==
  ASSUME NEW t \in Dealt
  PROVE  /\ t.symbol \in Instruments /\ t.price \in Nat /\ t.price > 0
         /\ t.commission \in Nat /\ t.slippage \in Nat
         /\ LotOf(t) \in Int /\ LotOf(t) # 0 /\ LotOf(t) * t.price \in Int
         /\ LotOf(t) > 0 => LotOf(t) * t.price > 0
         /\ LotOf(t) < 0 => LotOf(t) * t.price < 0
  <1>1. /\ t.symbol \in Instruments /\ t.price \in FillPrices
        /\ t.commission \in Fees /\ t.slippage \in Fees /\ t.quantity \in Lots
    BY DEF Dealt
  <1>2. /\ t.price \in Nat /\ t.price > 0 /\ t.commission \in Nat /\ t.slippage \in Nat
        /\ t.quantity \in Nat /\ t.quantity > 0
    <2>1. /\ \A x \in Lots : x \in Nat /\ x > 0
          /\ \A x \in FillPrices : x \in Nat /\ x > 0
          /\ \A x \in Fees : x \in Nat
      BY PortfolioAssumption
    <2> QED BY <1>1, <2>1
  <1>3. LotOf(t) \in Int /\ LotOf(t) # 0
    BY <1>2 DEF LotOf, Books!SignedLot
  <1>4. t.price \in Int
    BY <1>2
  <1> HIDE DEF LotOf
  <1> QED BY <1>1, <1>2, <1>3, <1>4, SignOfProduct

\* Sums of a list of trades are integers, and their sets finite.
LEMMA ListSums ==
  ASSUME NEW tr \in Seq(Dealt), NEW c \in Nat, NEW s
  PROVE  /\ IsFiniteSet(DOMAIN tr) /\ \A S \in SUBSET DOMAIN tr : IsFiniteSet(S)
         /\ \A i \in DOMAIN tr : LotsIn(tr)[i] \in Int /\ AmountsIn(tr)[i] \in Int
         /\ \A S \in SUBSET DOMAIN tr : SumFunctionOnSet(LotsIn(tr), S) \in Int
                                        /\ SumFunctionOnSet(AmountsIn(tr), S) \in Int
         /\ \A i : AfterIn(tr, c, s, i) \in Int
  <1>1. PICK n \in Nat : n = Len(tr) /\ DOMAIN tr = 1..n
    OBVIOUS
  <1>2. IsFiniteSet(DOMAIN tr)
    <2>1. n \in Int /\ 1 \in Int
      OBVIOUS
    <2> QED BY <1>1, <2>1, FS_Interval
  <1>3. \A S \in SUBSET DOMAIN tr : IsFiniteSet(S)
    BY <1>2, FS_Subset
  <1>4. \A i \in DOMAIN tr : LotsIn(tr)[i] \in Int /\ AmountsIn(tr)[i] \in Int
    <2>1. \A i \in DOMAIN tr : tr[i] \in Dealt
      OBVIOUS
    <2> QED BY <2>1, DealtIs DEF LotsIn, AmountsIn
  <1>5. ASSUME NEW S \in SUBSET DOMAIN tr
        PROVE  SumFunctionOnSet(LotsIn(tr), S) \in Int /\ SumFunctionOnSet(AmountsIn(tr), S) \in Int
    <2>1. IsFiniteSet(S) /\ \A i \in S : LotsIn(tr)[i] \in Int /\ AmountsIn(tr)[i] \in Int
      BY <1>3, <1>4
    <2> QED BY <2>1, SumInt
  <1>6. ASSUME NEW i PROVE AfterIn(tr, c, s, i) \in Int
    <2>1. {j \in SinceIn(tr, c, s) : j <= i} \in SUBSET DOMAIN tr
      BY DEF SinceIn
    <2> QED BY <1>5, <2>1 DEF AfterIn
  <1> QED BY <1>2, <1>3, <1>4, <1>5, <1>6

\* u is the list tr of n trades with t after it: t changes the sums of its own symbol,
\* and only the last of them.
Longer(tr, t, u, n, c, s) ==
  /\ n \in Nat /\ n = Len(tr) /\ u \in Seq(Dealt) /\ Len(u) = n + 1
  /\ DOMAIN tr = 1..n /\ DOMAIN u = 1..(n + 1)
  /\ u[n + 1] = t /\ \A i \in 1..n : u[i] = tr[i] /\ u[i] \in Dealt
  /\ SinceIn(tr, c, s) \subseteq 1..n
  /\ SinceIn(u, c, s) = IF t.symbol = s THEN SinceIn(tr, c, s) \cup {n + 1} ELSE SinceIn(tr, c, s)
  /\ \A i \in Int : i <= n => AfterIn(u, c, s, i) = AfterIn(tr, c, s, i)
  /\ AfterIn(u, c, s, n + 1) =
       IF t.symbol = s THEN AfterIn(tr, c, s, n) + LotOf(t) ELSE AfterIn(tr, c, s, n)

LEMMA OneMoreDeal ==
  ASSUME NEW tr \in Seq(Dealt), NEW t \in Dealt, NEW u, u = Append(tr, t),
         NEW n, n = Len(tr), NEW c \in Nat, c <= n, NEW s
  PROVE  Longer(tr, t, u, n, c, s)
  <1>1. /\ n \in Nat /\ u \in Seq(Dealt) /\ Len(u) = n + 1 /\ DOMAIN tr = 1..n /\ DOMAIN u = 1..(n + 1)
        /\ u[n + 1] = t /\ \A i \in 1..n : u[i] = tr[i] /\ tr[i] \in Dealt
    OBVIOUS
  <1>2. SinceIn(tr, c, s) \subseteq 1..n
    BY <1>1 DEF SinceIn
  <1>3. SinceIn(u, c, s) = IF t.symbol = s THEN SinceIn(tr, c, s) \cup {n + 1} ELSE SinceIn(tr, c, s)
    BY <1>1 DEF SinceIn
  <1>4. /\ \A i \in 1..n : LotsIn(u)[i] = LotsIn(tr)[i] /\ LotsIn(tr)[i] \in Int
        /\ LotsIn(u)[n + 1] = LotOf(t) /\ LotOf(t) \in Int
    BY <1>1, DealtIs DEF LotsIn
  <1>5. ASSUME NEW i \in Int, i <= n PROVE AfterIn(u, c, s, i) = AfterIn(tr, c, s, i)
    <2>1. PICK S : S = {j \in SinceIn(tr, c, s) : j <= i}
      OBVIOUS
    <2>2. {j \in SinceIn(u, c, s) : j <= i} = S
      BY <1>1, <1>2, <1>3, <1>5, <2>1
    <2>3. S \subseteq DOMAIN tr /\ IsFiniteSet(S) /\ \A j \in S : LotsIn(u)[j] = LotsIn(tr)[j]
      BY <1>1, <1>2, <1>4, <2>1, ListSums
    <2>4. SumFunctionOnSet(LotsIn(u), S) = SumFunctionOnSet(LotsIn(tr), S)
      BY <2>3, SumSame
    <2> QED BY <2>1, <2>2, <2>4 DEF AfterIn
  <1>6. AfterIn(u, c, s, n + 1) =
          IF t.symbol = s THEN AfterIn(tr, c, s, n) + LotOf(t) ELSE AfterIn(tr, c, s, n)
    <2>1. PICK S, m : S = SinceIn(tr, c, s) /\ m = n + 1
      OBVIOUS
    <2>2. AfterIn(tr, c, s, n) = SumFunctionOnSet(LotsIn(tr), S)
      <3>1. {j \in SinceIn(tr, c, s) : j <= n} = S
        BY <1>1, <1>2, <2>1
      <3> QED BY <3>1 DEF AfterIn
    <2>3. AfterIn(u, c, s, m) = SumFunctionOnSet(LotsIn(u), SinceIn(u, c, s))
      <3>1. {j \in SinceIn(u, c, s) : j <= m} = SinceIn(u, c, s)
        BY <1>1, <1>2, <1>3, <2>1
      <3> QED BY <3>1 DEF AfterIn
    <2>4. S \subseteq DOMAIN tr /\ IsFiniteSet(S) /\ m \notin S
      BY <1>1, <1>2, <2>1, ListSums
    <2>5. /\ \A j \in S : LotsIn(tr)[j] \in Int /\ LotsIn(u)[j] = LotsIn(tr)[j]
          /\ LotsIn(u)[m] \in Int /\ LotsIn(u)[m] = LotOf(t)
      BY <1>1, <1>4, <2>1, <2>4
    <2>6. SumFunctionOnSet(LotsIn(u), S \cup {m}) = SumFunctionOnSet(LotsIn(tr), S) + LotsIn(u)[m]
      <3>1. PICK f, g : f = LotsIn(tr) /\ g = LotsIn(u)
        OBVIOUS
      <3>2. g[m] \in Int /\ \A j \in S : f[j] \in Int /\ g[j] = f[j]
        BY <2>5, <3>1
      <3>3. SumFunctionOnSet(g, S \cup {m}) = SumFunctionOnSet(f, S) + g[m]
        BY <2>4, <3>2, SumGrows
      <3> QED BY <3>1, <3>3
    <2>7. SumFunctionOnSet(LotsIn(u), S) = SumFunctionOnSet(LotsIn(tr), S)
      BY <2>4, <2>5, SumSame
    <2>8. SinceIn(u, c, s) = IF t.symbol = s THEN S \cup {m} ELSE S
      BY <1>3, <2>1
    <2> QED BY <2>1, <2>2, <2>3, <2>5, <2>6, <2>7, <2>8
  <1> QED BY <1>1, <1>2, <1>3, <1>5, <1>6 DEF Longer

PaidMore(tr, t, u, n, c, s, o) ==
  /\ AddedIn(u, c, s, o) = IF t.symbol = s THEN AddedIn(tr, c, s, o) \cup {n + 1} ELSE AddedIn(tr, c, s, o)
  /\ PaidIn(tr, c, s, o) \in Int
  /\ PaidIn(u, c, s, o) = IF t.symbol = s THEN PaidIn(tr, c, s, o) + LotOf(t) * t.price
                          ELSE PaidIn(tr, c, s, o)

\* What was paid grows with a deal of the symbol, and only with one.
LEMMA PaidGrows ==
  ASSUME NEW tr \in Seq(Dealt), NEW t \in Dealt, NEW u, u = Append(tr, t),
         NEW n, n = Len(tr), NEW c \in Nat, c <= n, NEW s, NEW o \in 1..n
  PROVE  PaidMore(tr, t, u, n, c, s, o)
  <1>1. /\ n \in Nat /\ u \in Seq(Dealt) /\ DOMAIN tr = 1..n /\ DOMAIN u = 1..(n + 1)
        /\ u[n + 1] = t /\ \A i \in 1..n : u[i] = tr[i] /\ u[i] \in Dealt
        /\ SinceIn(tr, c, s) \subseteq 1..n
        /\ SinceIn(u, c, s) = IF t.symbol = s THEN SinceIn(tr, c, s) \cup {n + 1} ELSE SinceIn(tr, c, s)
    <2>1. Longer(tr, t, u, n, c, s)
      BY OneMoreDeal
    <2> QED BY <2>1 DEF Longer
  <1>2. PICK S, m : S = AddedIn(tr, c, s, o) /\ m = n + 1
    OBVIOUS
  <1>3. S \subseteq 1..n /\ m \notin S /\ IsFiniteSet(S)
    <2>1. S \subseteq 1..n
      BY <1>1, <1>2 DEF AddedIn
    <2> QED BY <1>1, <1>2, <2>1, ListSums
  <1>4. AddedIn(u, c, s, o) = IF t.symbol = s THEN S \cup {m} ELSE S
    BY <1>1, <1>2 DEF AddedIn
  <1>5. PICK f, g : f = AmountsIn(tr) /\ g = AmountsIn(u)
    OBVIOUS
  <1>6. /\ \A i \in 1..n : f[i] \in Int /\ g[i] = f[i]
        /\ g[m] = LotOf(t) * t.price /\ g[m] \in Int
    BY <1>1, <1>2, <1>5, DealtIs DEF AmountsIn
  <1>7. SumFunctionOnSet(f, S) \in Int /\ SumFunctionOnSet(g, S) = SumFunctionOnSet(f, S)
    <2>1. \A i \in S : f[i] \in Int /\ g[i] = f[i]
      BY <1>3, <1>6
    <2>2. SumFunctionOnSet(f, S) \in Int
      BY <1>3, <2>1, SumInt
    <2>3. SumFunctionOnSet(g, S) = SumFunctionOnSet(f, S)
      BY <1>3, <2>1, SumSame
    <2> QED BY <2>2, <2>3
  <1>8. SumFunctionOnSet(g, S \cup {m}) = SumFunctionOnSet(f, S) + LotOf(t) * t.price
    <2>1. g[m] \in Int /\ \A i \in S : f[i] \in Int /\ g[i] = f[i]
      BY <1>3, <1>6
    <2>2. SumFunctionOnSet(g, S \cup {m}) = SumFunctionOnSet(f, S) + g[m]
      BY <1>3, <2>1, SumGrows
    <2> QED BY <1>6, <2>2
  <1>9. PICK first \in Int : first = AfterIn(tr, c, s, o) * tr[o].price
    <2>1. AfterIn(tr, c, s, o) \in Int /\ tr[o].price \in Int
      <3>1. tr[o] \in Dealt
        BY <1>1
      <3>2. AfterIn(tr, c, s, o) \in Int
        BY ListSums, Zenon
      <3> QED BY <3>1, <3>2, DealtIs
    <2>2. AfterIn(tr, c, s, o) * tr[o].price \in Int
      BY <2>1, SignOfProduct
    <2> QED BY <2>2
  <1>10. AfterIn(u, c, s, o) * u[o].price = first
    <2>1. o \in Int /\ o <= n /\ u[o] = tr[o]
      BY <1>1
    <2>2. AfterIn(u, c, s, o) = AfterIn(tr, c, s, o)
      <3>1. Longer(tr, t, u, n, c, s)
        BY OneMoreDeal
      <3> QED BY <2>1, <3>1 DEF Longer
    <2> QED BY <1>9, <2>1, <2>2
  <1>11. PaidIn(tr, c, s, o) = first + SumFunctionOnSet(f, S)
    BY <1>2, <1>5, <1>9 DEF PaidIn
  <1>12. PaidIn(u, c, s, o) = first + SumFunctionOnSet(g, AddedIn(u, c, s, o))
    BY <1>5, <1>10 DEF PaidIn
  <1>13. LotOf(t) * t.price \in Int
    BY <1>6
  <1>14. CASE t.symbol = s
    <2>1. AddedIn(u, c, s, o) = S \cup {m}
      BY <1>4, <1>14
    <2>2. PaidIn(u, c, s, o) = first + SumFunctionOnSet(g, S \cup {m})
      BY <1>12, <2>1
    <2> QED BY <1>2, <1>7, <1>8, <1>11, <1>13, <1>14, <2>1, <2>2 DEF PaidMore
  <1>15. CASE t.symbol # s
    <2>1. AddedIn(u, c, s, o) = S
      BY <1>4, <1>15
    <2>2. PaidIn(u, c, s, o) = first + SumFunctionOnSet(g, S)
      BY <1>12, <2>1
    <2> QED BY <1>2, <1>7, <1>11, <1>15, <2>1, <2>2 DEF PaidMore
  <1> QED BY <1>14, <1>15

\* A deal in another symbol leaves the position what it was.
LEMMA OtherDeal ==
  ASSUME NEW tr \in Seq(Dealt), NEW t \in Dealt, NEW s, t.symbol # s, NEW c \in Nat, c <= Len(tr),
         NEW pos, NEW quote
  PROVE  /\ AfterIn(Append(tr, t), c, s, Len(Append(tr, t))) = AfterIn(tr, c, s, Len(tr))
         /\ PositionIs(tr, c, s, pos, quote) => PositionIs(Append(tr, t), c, s, pos, quote)
  <1>1. PICK u, n : u = Append(tr, t) /\ n = Len(tr)
    OBVIOUS
  <1>2. /\ n \in Nat /\ DOMAIN tr = 1..n /\ DOMAIN u = 1..(n + 1) /\ Len(u) = n + 1
        /\ \A i \in 1..n : u[i] = tr[i]
        /\ SinceIn(tr, c, s) \subseteq 1..n /\ SinceIn(u, c, s) = SinceIn(tr, c, s)
        /\ \A i \in Int : i <= n => AfterIn(u, c, s, i) = AfterIn(tr, c, s, i)
        /\ AfterIn(u, c, s, n + 1) = AfterIn(tr, c, s, n)
    <2>1. Longer(tr, t, u, n, c, s)
      BY <1>1, OneMoreDeal
    <2> QED BY <2>1 DEF Longer
  <1>3. \A o \in 1..n : /\ AddedIn(u, c, s, o) = AddedIn(tr, c, s, o)
                        /\ AddedIn(tr, c, s, o) \subseteq 1..n
                        /\ PaidIn(u, c, s, o) = PaidIn(tr, c, s, o)
    <2>1. \A o \in 1..n : AddedIn(tr, c, s, o) \subseteq 1..n
      BY <1>2 DEF AddedIn
    <2>2. \A o \in 1..n : PaidMore(tr, t, u, n, c, s, o)
      BY <1>1, PaidGrows
    <2> QED BY <2>1, <2>2 DEF PaidMore
  <1>4. \A o \in 1..n : OpensIn(tr, c, s, o) => OpensIn(u, c, s, o)
    <2> SUFFICES ASSUME NEW o \in 1..n, OpensIn(tr, c, s, o) PROVE OpensIn(u, c, s, o)
      OBVIOUS
    <2>1. \A i \in 1..n : AfterIn(u, c, s, i - 1) = AfterIn(tr, c, s, i - 1)
                          /\ AfterIn(u, c, s, i) = AfterIn(tr, c, s, i)
      BY <1>2
    <2> QED BY <1>2, <1>3, <2>1 DEF OpensIn
  <1>5. \A o \in 1..n : UnreducedIn(u, c, s, o) => UnreducedIn(tr, c, s, o)
    <2> SUFFICES ASSUME NEW o \in 1..n, UnreducedIn(u, c, s, o),
                        NEW i \in AddedIn(tr, c, s, o)
                 PROVE  LotOf(tr[i]) * AfterIn(tr, c, s, Len(tr)) > 0
      BY DEF UnreducedIn
    <2>1. i \in 1..n /\ i \in AddedIn(u, c, s, o)
      BY <1>3
    <2>2. LotOf(u[i]) * AfterIn(u, c, s, n + 1) > 0
      BY <1>2, <2>1 DEF UnreducedIn
    <2> QED BY <1>1, <1>2, <2>1, <2>2
  <1>6. ASSUME PositionIs(tr, c, s, pos, quote) PROVE PositionIs(u, c, s, pos, quote)
    <2>1. PICK o \in 1..n :
            /\ OpensIn(tr, c, s, o)
            /\ UnreducedIn(tr, c, s, o) => /\ pos.cost = PaidIn(tr, c, s, o)
                                           /\ pos.quantity * pos.cost > 0
                                           /\ quote # 0 => ProfitIs(pos, quote)
      BY <1>2, <1>6 DEF PositionIs
    <2>2. o \in DOMAIN u /\ OpensIn(u, c, s, o) /\ PaidIn(u, c, s, o) = PaidIn(tr, c, s, o)
          /\ (UnreducedIn(u, c, s, o) => UnreducedIn(tr, c, s, o))
      BY <1>2, <1>3, <1>4, <1>5, <2>1
    <2>3. pos.quantity = AfterIn(u, c, s, Len(u)) /\ pos.quantity # 0
      BY <1>1, <1>2, <1>6 DEF PositionIs
    <2> QED BY <2>1, <2>2, <2>3 DEF PositionIs
  <1> QED BY <1>1, <1>2, <1>6

\* A position after one more lot: reversed, averaged or flat.
LEMMA AddQuantityIs ==
  ASSUME NEW pos \in PositionRecord, NEW lot \in Int, NEW price \in Int
  PROVE  /\ Books!AddQuantity(pos, lot, price) \in PositionRecord
         /\ Books!AddQuantity(pos, lot, price).quantity = pos.quantity + lot
         /\ Books!AddQuantity(pos, lot, price).cost =
              IF pos.quantity * (pos.quantity + lot) < 0 THEN (pos.quantity + lot) * price
              ELSE IF pos.quantity + lot = 0 THEN 0 ELSE pos.cost + lot * price
  <1>1. /\ pos.quantity \in Int /\ pos.cost \in Int /\ pos.unrealized \in Int /\ pos.realized \in Int
        /\ pos = [quantity |-> pos.quantity, cost |-> pos.cost, unrealized |-> pos.unrealized,
                  realized |-> pos.realized]
    BY DEF PositionRecord
  <1>2. PICK q \in Int : q = pos.quantity + lot
    BY <1>1
  <1>3. PICK whole \in Int : whole = q * price
    BY <1>2, SignOfProduct
  <1>4. PICK paid \in Int : paid = lot * price
    BY SignOfProduct
  <1>5. PICK profit \in Int : profit = pos.realized - (pos.quantity * price - pos.cost)
    <2>1. pos.quantity * price \in Int
      BY <1>1, SignOfProduct
    <2> QED BY <1>1, <2>1
  <1>6. PICK r : r = Books!AddQuantity(pos, lot, price)
    OBVIOUS
  <1>7. CASE pos.quantity * q < 0
    <2>1. r = [pos EXCEPT !.realized = profit, !.quantity = q, !.cost = whole]
      BY <1>2, <1>3, <1>5, <1>6, <1>7 DEF Books!AddQuantity
    <2>2. r \in PositionRecord /\ r.quantity = q /\ r.cost = whole
      BY <1>1, <1>2, <1>3, <1>5, <2>1 DEF PositionRecord
    <2> QED BY <1>2, <1>3, <1>6, <1>7, <2>2
  <1>8. CASE ~(pos.quantity * q < 0)
    <2>1. PICK cost \in Int : cost = IF q = 0 THEN 0 ELSE pos.cost + paid
      BY <1>1, <1>4
    <2>2. r = [pos EXCEPT !.quantity = q, !.cost = cost]
      BY <1>2, <1>4, <1>6, <1>8, <2>1 DEF Books!AddQuantity
    <2>3. r \in PositionRecord /\ r.quantity = q /\ r.cost = cost
      BY <1>1, <1>2, <2>1, <2>2 DEF PositionRecord
    <2> QED BY <1>2, <1>4, <1>6, <1>8, <2>1, <2>3
  <1> QED BY <1>7, <1>8

\* A deal that opens a position or turns it round begins anew.
LEMMA OpeningDeal ==
  ASSUME NEW tr \in Seq(Dealt), NEW t \in Dealt, NEW u, u = Append(tr, t),
         NEW n, n = Len(tr), NEW c \in Nat, c <= n, NEW pos \in PositionRecord,
         pos.quantity = AfterIn(u, c, t.symbol, n + 1), pos.quantity # 0,
         AfterIn(tr, c, t.symbol, n) * pos.quantity <= 0, pos.cost = pos.quantity * t.price
  PROVE  PositionIs(u, c, t.symbol, pos, 0)
  <1>1. PICK s, m : s = t.symbol /\ m = n + 1
    OBVIOUS
  <1>2. Longer(tr, t, u, n, c, s)
    BY OneMoreDeal
  <1>3. /\ n \in Nat /\ Len(u) = m /\ m \in DOMAIN u /\ m \in SinceIn(u, c, s) /\ u[m] = t
        /\ SinceIn(u, c, s) \subseteq 1..m
        /\ AfterIn(u, c, s, n) = AfterIn(tr, c, s, n) /\ m - 1 = n
    BY <1>1, <1>2 DEF Longer
  <1>4. AddedIn(u, c, s, m) = {}
    BY <1>3 DEF AddedIn
  <1>5. OpensIn(u, c, s, m)
    BY <1>1, <1>3, <1>4 DEF OpensIn
  <1>6. PaidIn(u, c, s, m) = pos.cost
    <2>1. SumFunctionOnSet(AmountsIn(u), {}) = 0
      BY SumEmpty
    <2>2. PaidIn(u, c, s, m) = pos.quantity * t.price + 0
      BY <1>1, <1>3, <1>4, <2>1 DEF PaidIn
    <2>3. pos.cost \in Int
      BY DEF PositionRecord
    <2> QED BY <2>2, <2>3
  <1>7. pos.quantity * pos.cost > 0
    <2>1. pos.quantity \in Int /\ pos.cost \in Int /\ t.price \in Int /\ t.price > 0
      BY DealtIs DEF PositionRecord
    <2>2. (pos.quantity > 0 /\ pos.cost > 0) \/ (pos.quantity < 0 /\ pos.cost < 0)
      BY <2>1, SignOfProduct
    <2> QED BY <2>1, <2>2, SignOfProduct
  <1> QED BY <1>1, <1>3, <1>5, <1>6, <1>7 DEF PositionIs

\* A deal that leaves the position on its side adds to it or reduces it.
LEMMA AddingDeal ==
  ASSUME NEW tr \in Seq(Dealt), NEW t \in Dealt, NEW u, u = Append(tr, t),
         NEW n, n = Len(tr), NEW c \in Nat, c <= n, NEW pos \in PositionRecord, NEW new \in PositionRecord,
         NEW quote, PositionIs(tr, c, t.symbol, pos, quote),
         new.quantity = pos.quantity + LotOf(t), new.quantity = AfterIn(u, c, t.symbol, n + 1),
         pos.quantity * new.quantity > 0, new.cost = pos.cost + LotOf(t) * t.price
  PROVE  PositionIs(u, c, t.symbol, new, 0)
  <1>1. PICK s, m : s = t.symbol /\ m = n + 1
    OBVIOUS
  <1>2. Longer(tr, t, u, n, c, s)
    BY OneMoreDeal
  <1>3. /\ n \in Nat /\ Len(u) = m /\ DOMAIN tr = 1..n /\ DOMAIN u = 1..m
        /\ SinceIn(tr, c, s) \subseteq 1..n /\ SinceIn(u, c, s) = SinceIn(tr, c, s) \cup {m}
        /\ u[m] = t /\ \A i \in 1..n : u[i] = tr[i]
        /\ \A i \in Int : i <= n => AfterIn(u, c, s, i) = AfterIn(tr, c, s, i)
        /\ m - 1 = n
    BY <1>1, <1>2 DEF Longer
  <1>4. PICK o \in 1..n :
          /\ OpensIn(tr, c, s, o)
          /\ UnreducedIn(tr, c, s, o) => pos.cost = PaidIn(tr, c, s, o) /\ pos.quantity * pos.cost > 0
    BY <1>1, <1>3 DEF PositionIs
  <1>5. /\ AddedIn(u, c, s, o) = AddedIn(tr, c, s, o) \cup {m}
        /\ PaidIn(tr, c, s, o) \in Int
        /\ PaidIn(u, c, s, o) = PaidIn(tr, c, s, o) + LotOf(t) * t.price
    <2>1. PaidMore(tr, t, u, n, c, s, o)
      BY PaidGrows
    <2> QED BY <1>1, <2>1 DEF PaidMore
  <1>6. AddedIn(tr, c, s, o) \subseteq 1..n
    BY <1>3 DEF AddedIn
  <1>7. pos.quantity = AfterIn(tr, c, s, n) /\ new.quantity = AfterIn(u, c, s, m)
    BY <1>1 DEF PositionIs
  <1>8. OpensIn(u, c, s, o)
    <2>1. o \in SinceIn(u, c, s)
      BY <1>3, <1>4 DEF OpensIn
    <2>2. AfterIn(u, c, s, o - 1) * AfterIn(u, c, s, o) <= 0
      <3>1. AfterIn(u, c, s, o - 1) = AfterIn(tr, c, s, o - 1) /\ AfterIn(u, c, s, o) = AfterIn(tr, c, s, o)
        BY <1>3
      <3> QED BY <1>4, <3>1 DEF OpensIn
    <2>3. ASSUME NEW i \in AddedIn(u, c, s, o) PROVE AfterIn(u, c, s, i - 1) * AfterIn(u, c, s, i) > 0
      <3>1. CASE i = m
        BY <1>3, <1>7, <3>1
      <3>2. CASE i # m
        <4>1. i \in AddedIn(tr, c, s, o) /\ i \in 1..n
          BY <1>5, <1>6, <3>2
        <4>2. AfterIn(u, c, s, i - 1) = AfterIn(tr, c, s, i - 1) /\ AfterIn(u, c, s, i) = AfterIn(tr, c, s, i)
          BY <1>3, <4>1
        <4> QED BY <1>4, <4>1, <4>2 DEF OpensIn
      <3> QED BY <3>1, <3>2
    <2> QED BY <2>1, <2>2, <2>3 DEF OpensIn
  <1>9. /\ pos.quantity \in Int /\ new.quantity \in Int /\ pos.cost \in Int /\ new.cost \in Int
        /\ LotOf(t) \in Int /\ LotOf(t) * t.price \in Int /\ new.quantity # 0
        /\ (pos.quantity > 0 /\ new.quantity > 0) \/ (pos.quantity < 0 /\ new.quantity < 0)
    <2>1. pos.quantity \in Int /\ new.quantity \in Int /\ pos.cost \in Int /\ new.cost \in Int
      BY DEF PositionRecord
    <2>2. (pos.quantity > 0 /\ new.quantity > 0) \/ (pos.quantity < 0 /\ new.quantity < 0)
      BY <2>1, SignOfProduct
    <2> QED BY <2>1, <2>2, DealtIs
  <1>10. ASSUME UnreducedIn(u, c, s, o)
         PROVE  new.cost = PaidIn(u, c, s, o) /\ new.quantity * new.cost > 0
    <2>1. LotOf(t) * new.quantity > 0
      <3>1. m \in AddedIn(u, c, s, o)
        BY <1>5
      <3> QED BY <1>3, <1>7, <1>10, <3>1 DEF UnreducedIn
    <2>2. UnreducedIn(tr, c, s, o)
      <3> SUFFICES ASSUME NEW i \in AddedIn(tr, c, s, o) PROVE LotOf(tr[i]) * AfterIn(tr, c, s, n) > 0
        BY DEF UnreducedIn
      <3>1. LotOf(u[i]) * AfterIn(u, c, s, m) > 0 /\ u[i] = tr[i] /\ tr[i] \in Dealt
        BY <1>3, <1>5, <1>6, <1>10 DEF UnreducedIn
      <3>2. LotOf(tr[i]) \in Int
        BY <3>1, DealtIs
      <3>3. LotOf(tr[i]) * new.quantity > 0
        BY <1>7, <3>1
      <3>4. LotOf(tr[i]) * pos.quantity > 0
        BY <1>9, <3>2, <3>3, SignOfProduct
      <3> QED BY <1>7, <3>4
    <2>3. pos.cost = PaidIn(tr, c, s, o) /\ pos.quantity * pos.cost > 0
      BY <1>4, <2>2
    <2>4. new.cost = PaidIn(u, c, s, o)
      BY <1>5, <2>3
    <2>5. (pos.cost > 0 /\ pos.quantity > 0) \/ (pos.cost < 0 /\ pos.quantity < 0)
      BY <1>9, <2>3, SignOfProduct
    <2>6. (LotOf(t) > 0 /\ new.quantity > 0) \/ (LotOf(t) < 0 /\ new.quantity < 0)
      BY <1>9, <2>1, SignOfProduct
    <2>7. (new.quantity > 0 /\ new.cost > 0) \/ (new.quantity < 0 /\ new.cost < 0)
      <3>1. PICK amount \in Int : amount = LotOf(t) * t.price
        BY <1>9
      <3>2. (LotOf(t) > 0 => amount > 0) /\ (LotOf(t) < 0 => amount < 0)
        BY <3>1, DealtIs
      <3>3. new.cost = pos.cost + amount
        BY <3>1
      <3> QED BY <1>9, <2>5, <2>6, <3>1, <3>2, <3>3
    <2>8. new.quantity * new.cost > 0
      BY <1>9, <2>7, SignOfProduct
    <2> QED BY <2>4, <2>8
  <1>11. o \in DOMAIN u /\ new.quantity = AfterIn(u, c, s, Len(u))
    BY <1>3, <1>7
  <1> QED BY <1>1, <1>8, <1>9, <1>10, <1>11 DEF PositionIs

\* Every deal is in the totals of the list.
LEMMA TotalsGrow ==
  ASSUME NEW tr \in Seq(Dealt), NEW t \in Dealt, NEW u, u = Append(tr, t)
  PROVE  /\ SumFunctionOnSet(AmountsIn(tr), DOMAIN tr) \in Int
         /\ SumFunctionOnSet(CommissionsIn(tr), DOMAIN tr) \in Int
         /\ SumFunctionOnSet(SlippagesIn(tr), DOMAIN tr) \in Int
         /\ SumFunctionOnSet(AmountsIn(u), DOMAIN u) =
              SumFunctionOnSet(AmountsIn(tr), DOMAIN tr) + LotOf(t) * t.price
         /\ SumFunctionOnSet(CommissionsIn(u), DOMAIN u) =
              SumFunctionOnSet(CommissionsIn(tr), DOMAIN tr) + t.commission
         /\ SumFunctionOnSet(SlippagesIn(u), DOMAIN u) =
              SumFunctionOnSet(SlippagesIn(tr), DOMAIN tr) + t.slippage
  <1>1. PICK n \in Nat : n = Len(tr) /\ DOMAIN tr = 1..n /\ DOMAIN u = 1..(n + 1)
                         /\ u[n + 1] = t /\ \A i \in 1..n : u[i] = tr[i] /\ tr[i] \in Dealt
    OBVIOUS
  <1>2. PICK S, m : S = DOMAIN tr /\ m = n + 1
    OBVIOUS
  <1>3. IsFiniteSet(S) /\ m \notin S /\ DOMAIN u = S \cup {m}
    <2>1. IsFiniteSet(S)
      BY <1>2, ListSums
    <2> QED BY <1>1, <1>2, <2>1
  <1>4. ASSUME NEW f, NEW g, \A i \in S : f[i] \in Int /\ g[i] = f[i], g[m] \in Int
        PROVE  SumFunctionOnSet(f, S) \in Int /\ SumFunctionOnSet(g, S \cup {m}) = SumFunctionOnSet(f, S) + g[m]
    <2>1. SumFunctionOnSet(f, S) \in Int
      BY <1>3, <1>4, SumInt
    <2>2. SumFunctionOnSet(g, S \cup {m}) = SumFunctionOnSet(f, S) + g[m]
      BY <1>3, <1>4, SumGrows
    <2> QED BY <2>1, <2>2
  <1>5. /\ \A i \in S : AmountsIn(tr)[i] \in Int /\ AmountsIn(u)[i] = AmountsIn(tr)[i]
        /\ AmountsIn(u)[m] = LotOf(t) * t.price /\ AmountsIn(u)[m] \in Int
    BY <1>1, <1>2, <1>3, DealtIs DEF AmountsIn
  <1>6. /\ \A i \in S : CommissionsIn(tr)[i] \in Int /\ CommissionsIn(u)[i] = CommissionsIn(tr)[i]
        /\ CommissionsIn(u)[m] = t.commission /\ CommissionsIn(u)[m] \in Int
    BY <1>1, <1>2, <1>3, DealtIs DEF CommissionsIn
  <1>7. /\ \A i \in S : SlippagesIn(tr)[i] \in Int /\ SlippagesIn(u)[i] = SlippagesIn(tr)[i]
        /\ SlippagesIn(u)[m] = t.slippage /\ SlippagesIn(u)[m] \in Int
    BY <1>1, <1>2, <1>3, DealtIs DEF SlippagesIn
  <1>8. /\ SumFunctionOnSet(AmountsIn(tr), S) \in Int
        /\ SumFunctionOnSet(AmountsIn(u), S \cup {m}) = SumFunctionOnSet(AmountsIn(tr), S) + AmountsIn(u)[m]
    BY <1>4, <1>5
  <1>9. /\ SumFunctionOnSet(CommissionsIn(tr), S) \in Int
        /\ SumFunctionOnSet(CommissionsIn(u), S \cup {m}) =
             SumFunctionOnSet(CommissionsIn(tr), S) + CommissionsIn(u)[m]
    BY <1>4, <1>6
  <1>10. /\ SumFunctionOnSet(SlippagesIn(tr), S) \in Int
         /\ SumFunctionOnSet(SlippagesIn(u), S \cup {m}) =
              SumFunctionOnSet(SlippagesIn(tr), S) + SlippagesIn(u)[m]
    BY <1>4, <1>7
  <1> QED BY <1>2, <1>3, <1>5, <1>6, <1>7, <1>8, <1>9, <1>10

LEMMA NoDeals ==
  ASSUME NEW tr, NEW c \in Nat, NEW s, NEW i, SinceIn(tr, c, s) = {}
  PROVE  AfterIn(tr, c, s, i) = 0
  <1>1. {j \in SinceIn(tr, c, s) : j <= i} = {}
    OBVIOUS
  <1> QED BY <1>1, SumEmpty DEF AfterIn

LEMMA PortfolioStart == Books!PortfolioInit => PortfolioInv
  <1> SUFFICES ASSUME Books!PortfolioInit PROVE PortfolioInv
    OBVIOUS
  <1>1. /\ trades = <<>> /\ DOMAIN trades = {} /\ cash = InitialCapital /\ commissions = 0 /\ slippages = 0
        /\ closedAt = [s \in Instruments |-> 0] /\ quoted = [s \in Instruments |-> 0]
        /\ held = [s \in {} |-> s]
    BY DEF Books!PortfolioInit, Books!NoneHeld
  <1>2. \A f : SumFunctionOnSet(f, {}) = 0
    BY SumEmpty
  <1>3. InitialCapital \in Nat
    BY PortfolioAssumption
  <1>4. cash = InitialCapital - SumFunctionOnSet(AmountsIn(trades), DOMAIN trades) - commissions - slippages
    BY <1>1, <1>2, <1>3
  <1>5. /\ commissions = SumFunctionOnSet(CommissionsIn(trades), DOMAIN trades)
        /\ slippages = SumFunctionOnSet(SlippagesIn(trades), DOMAIN trades)
    BY <1>1, <1>2
  <1>6. \A s \in Instruments : AfterIn(trades, closedAt[s], s, Len(trades)) = 0
    <2>1. \A s \in Instruments : SinceIn(trades, closedAt[s], s) = {} /\ closedAt[s] \in Nat
      BY <1>1 DEF SinceIn
    <2> QED BY <2>1, NoDeals
  <1>7. DOMAIN held = {} /\ held \in [DOMAIN held -> PositionRecord]
    BY <1>1
  <1>8. /\ trades \in Seq(Dealt) /\ closedAt \in [Instruments -> Nat] /\ quoted \in [Instruments -> Nat]
        /\ \A s \in Instruments : closedAt[s] <= Len(trades)
    BY <1>1
  <1> QED BY <1>4, <1>5, <1>6, <1>7, <1>8 DEF PortfolioInv

LEMMA DealSteps ==
  ASSUME PortfolioInv, Books!ExecuteOrder
  PROVE  PortfolioInv'
  <1>1. PICK s \in Instruments, side \in {"buy", "sell"}, lot \in Lots, price \in FillPrices,
             commission \in Fees, slippage \in Fees :
          LET pos == Books!AddQuantity(IF s \in DOMAIN held THEN held[s] ELSE Books!NewPosition,
                                       Books!SignedLot(side, lot), price)
          IN
          /\ cash' = cash - Books!SignedLot(side, lot * price) - commission - slippage
          /\ commissions' = commissions + commission
          /\ slippages' = slippages + slippage
          /\ trades' = Append(trades, [symbol |-> s, side |-> side, quantity |-> lot, price |-> price,
                                       commission |-> commission, slippage |-> slippage])
          /\ held' = IF pos.quantity = 0 THEN Books!Restrict(held, DOMAIN held \ {s})
                     ELSE Books!WithPosition(s, pos)
          /\ quoted' = [quoted EXCEPT ![s] = 0]
    BY DEF Books!ExecuteOrder
  <1>2. PICK t : t = [symbol |-> s, side |-> side, quantity |-> lot, price |-> price,
                      commission |-> commission, slippage |-> slippage]
    OBVIOUS
  <1>3. t \in Dealt /\ t.symbol = s /\ t.price = price /\ LotOf(t) = Books!SignedLot(side, lot)
        /\ t.commission = commission /\ t.slippage = slippage
    BY <1>2 DEF Dealt, LotOf
  <1>4. PICK old : old = IF s \in DOMAIN held THEN held[s] ELSE Books!NewPosition
    OBVIOUS
  <1>5. PICK pos : pos = Books!AddQuantity(old, LotOf(t), price)
    OBVIOUS
  <1>6. PICK tr, u, n : tr = trades /\ u = Append(trades, t) /\ n = Len(trades)
    OBVIOUS
  <1>7. /\ cash' = cash - Books!SignedLot(side, lot * price) - commission - slippage
        /\ commissions' = commissions + commission /\ slippages' = slippages + slippage
        /\ trades' = u /\ quoted' = [quoted EXCEPT ![s] = 0] /\ closedAt' = closedAt
        /\ held' = IF pos.quantity = 0 THEN Books!Restrict(held, DOMAIN held \ {s})
                   ELSE Books!WithPosition(s, pos)
    <2>1. closedAt' = closedAt
      BY DEF Books!ExecuteOrder
    <2> QED BY <1>1, <1>2, <1>3, <1>4, <1>5, <1>6, <2>1
  <1>8. /\ tr \in Seq(Dealt) /\ n \in Nat /\ n = Len(tr) /\ u = Append(tr, t)
        /\ closedAt \in [Instruments -> Nat] /\ quoted \in [Instruments -> Nat]
        /\ \A x \in Instruments : closedAt[x] \in Nat /\ closedAt[x] <= n
        /\ held \in [DOMAIN held -> PositionRecord] /\ DOMAIN held \subseteq Instruments
        /\ \A x \in Instruments :
             IF x \in DOMAIN held THEN PositionIs(tr, closedAt[x], x, held[x], quoted[x])
             ELSE AfterIn(tr, closedAt[x], x, n) = 0
    BY <1>6 DEF PortfolioInv
  <1>9. PICK c \in Nat : c = closedAt[s] /\ c <= n
    BY <1>8
  <1>10. Longer(tr, t, u, n, c, s)
    BY <1>3, <1>8, <1>9, OneMoreDeal
  <1>11. old \in PositionRecord /\ old.quantity = AfterIn(tr, c, s, n)
         /\ (s \notin DOMAIN held => old.quantity = 0 /\ old.cost = 0)
    <2>1. CASE s \in DOMAIN held
      BY <1>4, <1>8, <1>9, <2>1 DEF PositionIs
    <2>2. CASE s \notin DOMAIN held
      BY <1>4, <1>8, <1>9, <2>2 DEF Books!NewPosition, PositionRecord
    <2> QED BY <2>1, <2>2
  <1>12. /\ LotOf(t) \in Int /\ price \in Int /\ LotOf(t) * price \in Int
         /\ commission \in Int /\ slippage \in Int
    BY <1>3, DealtIs
  <1>13. /\ pos \in PositionRecord /\ pos.quantity = old.quantity + LotOf(t)
         /\ pos.cost = IF old.quantity * pos.quantity < 0 THEN pos.quantity * price
                       ELSE IF pos.quantity = 0 THEN 0 ELSE old.cost + LotOf(t) * price
    BY <1>5, <1>11, <1>12, AddQuantityIs
  <1>14. Len(u) = n + 1 /\ u \in Seq(Dealt) /\ pos.quantity = AfterIn(u, c, s, n + 1)
    BY <1>3, <1>10, <1>11, <1>13 DEF Longer
  <1>15. old.quantity \in Int /\ pos.quantity \in Int /\ old.cost \in Int
    BY <1>11, <1>13 DEF PositionRecord
  <1>16. ASSUME pos.quantity # 0 PROVE PositionIs(u, c, s, pos, 0)
    <2>1. CASE old.quantity * pos.quantity < 0
      <3>1. pos.cost = pos.quantity * t.price /\ AfterIn(tr, c, t.symbol, n) * pos.quantity <= 0
        BY <1>3, <1>11, <1>13, <1>15, <2>1, SignOfProduct
      <3> QED BY <1>3, <1>8, <1>9, <1>13, <1>14, <1>16, <3>1, OpeningDeal
    <2>2. CASE s \notin DOMAIN held
      <3>1. old.quantity = 0 /\ old.cost = 0
        BY <1>11, <2>2
      <3>2. pos.quantity = LotOf(t) /\ old.quantity * pos.quantity = 0
        BY <1>12, <1>13, <1>15, <3>1
      <3>3. pos.cost = pos.quantity * t.price
        BY <1>3, <1>12, <1>13, <1>16, <3>1, <3>2
      <3>4. AfterIn(tr, c, t.symbol, n) * pos.quantity <= 0
        BY <1>3, <1>11, <3>2
      <3> QED BY <1>3, <1>8, <1>9, <1>13, <1>14, <1>16, <3>3, <3>4, OpeningDeal
    <2>3. CASE s \in DOMAIN held /\ ~(old.quantity * pos.quantity < 0)
      <3>1. PositionIs(tr, c, s, old, quoted[s])
        BY <1>4, <1>8, <1>9, <2>3
      <3>2. old.quantity # 0
        BY <3>1 DEF PositionIs
      <3>3. old.quantity * pos.quantity > 0
        BY <1>15, <1>16, <2>3, <3>2, SignOfProduct
      <3>4. pos.cost = old.cost + LotOf(t) * t.price
        BY <1>3, <1>13, <1>16, <2>3
      <3>5. PICK q : q = quoted[s]
        OBVIOUS
      <3>6. PositionIs(tr, c, t.symbol, old, q)
        BY <1>3, <3>1, <3>5
      <3> QED BY <1>3, <1>8, <1>9, <1>11, <1>13, <1>14, <3>3, <3>4, <3>6, AddingDeal
    <2> QED BY <2>1, <2>2, <2>3
  <1>17. /\ DOMAIN held' = IF pos.quantity = 0 THEN DOMAIN held \ {s} ELSE DOMAIN held \cup {s}
         /\ held' = [x \in DOMAIN held' |-> held'[x]]
         /\ \A x \in DOMAIN held' : held'[x] = IF x = s THEN pos ELSE held[x]
    <2>1. CASE pos.quantity = 0
      BY <1>7, <2>1 DEF Books!Restrict
    <2>2. CASE pos.quantity # 0
      BY <1>7, <2>2 DEF Books!WithPosition
    <2> QED BY <2>1, <2>2
  <1>18. held' \in [DOMAIN held' -> PositionRecord] /\ DOMAIN held' \subseteq Instruments
    <2>1. \A x \in DOMAIN held' : held'[x] \in PositionRecord /\ x \in Instruments
      BY <1>8, <1>13, <1>17
    <2> QED BY <1>17, <2>1
  <1>19. quoted' \in [Instruments -> Nat] /\ quoted'[s] = 0
         /\ \A x \in Instruments : x # s => quoted'[x] = quoted[x]
    BY <1>7, <1>8
  <1>20. ASSUME NEW x \in Instruments
         PROVE  IF x \in DOMAIN held' THEN PositionIs(u, closedAt[x], x, held'[x], quoted'[x])
                ELSE AfterIn(u, closedAt[x], x, n + 1) = 0
    <2>1. CASE x = s
      <3>1. CASE pos.quantity = 0
        BY <1>9, <1>14, <1>17, <2>1, <3>1
      <3>2. CASE pos.quantity # 0
        BY <1>9, <1>16, <1>17, <1>19, <2>1, <3>2
      <3> QED BY <3>1, <3>2
    <2>2. CASE x # s
      <3>1. PICK d \in Nat : d = closedAt[x] /\ d <= Len(tr)
        BY <1>8
      <3>2. PICK p, q : p = held[x] /\ q = quoted[x]
        OBVIOUS
      <3>3. /\ AfterIn(u, d, x, Len(u)) = AfterIn(tr, d, x, Len(tr))
            /\ PositionIs(tr, d, x, p, q) => PositionIs(u, d, x, p, q)
        BY <1>3, <1>8, <2>2, <3>1, OtherDeal
      <3>4. x \in DOMAIN held' <=> x \in DOMAIN held
        BY <1>17, <2>2
      <3>5. CASE x \in DOMAIN held
        BY <1>8, <1>17, <1>19, <2>2, <3>1, <3>2, <3>3, <3>4, <3>5
      <3>6. CASE x \notin DOMAIN held
        BY <1>8, <1>14, <3>1, <3>3, <3>4, <3>6
      <3> QED BY <3>5, <3>6
    <2> QED BY <2>1, <2>2
  <1>21. /\ cash' = InitialCapital - SumFunctionOnSet(AmountsIn(u), DOMAIN u) - commissions' - slippages'
         /\ commissions' = SumFunctionOnSet(CommissionsIn(u), DOMAIN u)
         /\ slippages' = SumFunctionOnSet(SlippagesIn(u), DOMAIN u)
    <2>1. /\ SumFunctionOnSet(AmountsIn(tr), DOMAIN tr) \in Int
          /\ SumFunctionOnSet(CommissionsIn(tr), DOMAIN tr) \in Int
          /\ SumFunctionOnSet(SlippagesIn(tr), DOMAIN tr) \in Int
          /\ SumFunctionOnSet(AmountsIn(u), DOMAIN u) =
               SumFunctionOnSet(AmountsIn(tr), DOMAIN tr) + LotOf(t) * t.price
          /\ SumFunctionOnSet(CommissionsIn(u), DOMAIN u) =
               SumFunctionOnSet(CommissionsIn(tr), DOMAIN tr) + t.commission
          /\ SumFunctionOnSet(SlippagesIn(u), DOMAIN u) =
               SumFunctionOnSet(SlippagesIn(tr), DOMAIN tr) + t.slippage
      BY <1>3, <1>8, TotalsGrow
    <2>2. /\ cash = InitialCapital - SumFunctionOnSet(AmountsIn(tr), DOMAIN tr) - commissions - slippages
          /\ commissions = SumFunctionOnSet(CommissionsIn(tr), DOMAIN tr)
          /\ slippages = SumFunctionOnSet(SlippagesIn(tr), DOMAIN tr)
      BY <1>6 DEF PortfolioInv
    <2>3. Books!SignedLot(side, lot * price) = LotOf(t) * price
      <3>1. lot \in Int /\ price \in Int
        BY <1>12, PortfolioAssumption
      <3> QED BY <1>3, <3>1 DEF Books!SignedLot
    <2>4. InitialCapital \in Int
      BY PortfolioAssumption
    <2> QED BY <1>3, <1>7, <1>12, <2>1, <2>2, <2>3, <2>4
  <1>22. \A x \in Instruments : closedAt[x] <= n + 1
    BY <1>8
  <1> QED BY <1>7, <1>8, <1>14, <1>18, <1>19, <1>20, <1>21, <1>22 DEF PortfolioInv

\* A quote sets the profit of a position that has a cost of its own side.
LEMMA QuoteIs ==
  ASSUME NEW pos \in PositionRecord, NEW price \in Int
  PROVE  /\ Books!UpdatePrice(pos, price) \in PositionRecord
         /\ Books!UpdatePrice(pos, price).quantity = pos.quantity
         /\ Books!UpdatePrice(pos, price).cost = pos.cost
         /\ pos.quantity * pos.cost > 0 => ProfitIs(Books!UpdatePrice(pos, price), price)
  <1>1. pos.quantity \in Int /\ pos.cost \in Int /\ pos.quantity * pos.cost \in Int
        /\ pos.quantity * price \in Int
    BY SignOfProduct DEF PositionRecord
  <1>2. PICK profit \in Int :
          profit = IF pos.quantity < 0 THEN pos.cost - pos.quantity * price ELSE pos.quantity * price - pos.cost
    BY <1>1
  <1>3. PICK r : r = Books!UpdatePrice(pos, price)
    OBVIOUS
  <1>4. CASE pos.quantity * pos.cost <= 0
    BY <1>1, <1>4 DEF Books!UpdatePrice
  <1>5. CASE pos.quantity * pos.cost > 0
    <2>1. r = [pos EXCEPT !.unrealized = profit]
      BY <1>1, <1>2, <1>3, <1>5 DEF Books!UpdatePrice
    <2>2. r \in PositionRecord /\ r.quantity = pos.quantity /\ r.cost = pos.cost /\ r.unrealized = profit
      BY <1>2, <2>1 DEF PositionRecord
    <2>3. pos.quantity # 0
      BY <1>1, <1>5, SignOfProduct
    <2>4. ProfitIs(r, price)
      BY <1>1, <1>2, <2>2, <2>3 DEF ProfitIs
    <2> QED BY <1>3, <2>2, <2>4
  <1> QED BY <1>1, <1>4, <1>5

LEMMA Requoted ==
  ASSUME NEW tr, NEW c, NEW s, NEW pos, NEW quote, PositionIs(tr, c, s, pos, quote),
         NEW new, new.quantity = pos.quantity, new.cost = pos.cost, NEW price,
         pos.quantity * pos.cost > 0 => ProfitIs(new, price)
  PROVE  PositionIs(tr, c, s, new, price)
  BY DEF PositionIs

LEMMA QuoteSteps ==
  ASSUME PortfolioInv, Books!UpdatePrices
  PROVE  PortfolioInv'
  <1>1. PICK prices \in UNION {[S -> FillPrices] : S \in (SUBSET Instruments) \ {{}}} :
          /\ held' = [s \in DOMAIN held |->
                        IF s \in DOMAIN prices THEN Books!UpdatePrice(held[s], prices[s]) ELSE held[s]]
          /\ quoted' = [s \in Instruments |->
                          IF s \in DOMAIN held \cap DOMAIN prices THEN prices[s] ELSE quoted[s]]
          /\ cash' = cash /\ trades' = trades /\ commissions' = commissions /\ slippages' = slippages
          /\ closedAt' = closedAt
    BY DEF Books!UpdatePrices
  <1>2. \A s \in DOMAIN prices : prices[s] \in Nat
    BY <1>1, PortfolioAssumption
  <1>3. /\ held \in [DOMAIN held -> PositionRecord] /\ DOMAIN held \subseteq Instruments
        /\ quoted \in [Instruments -> Nat]
        /\ \A s \in Instruments :
             IF s \in DOMAIN held THEN PositionIs(trades, closedAt[s], s, held[s], quoted[s])
             ELSE AfterIn(trades, closedAt[s], s, Len(trades)) = 0
    BY DEF PortfolioInv
  <1>4. DOMAIN held' = DOMAIN held /\ quoted' \in [Instruments -> Nat]
    BY <1>1, <1>2, <1>3
  <1>5. ASSUME NEW s \in DOMAIN held
        PROVE  held'[s] \in PositionRecord /\ PositionIs(trades, closedAt[s], s, held'[s], quoted'[s])
    <2>1. PICK pos, q, c : pos = held[s] /\ q = quoted[s] /\ c = closedAt[s]
      OBVIOUS
    <2>2. pos \in PositionRecord /\ PositionIs(trades, c, s, pos, q) /\ s \in Instruments
      BY <1>3, <2>1
    <2>3. CASE s \in DOMAIN prices
      <3>1. PICK price \in Int : price = prices[s]
        BY <1>2, <2>3
      <3>2. PICK new : new = Books!UpdatePrice(pos, price)
        OBVIOUS
      <3>3. held'[s] = new /\ quoted'[s] = price
        BY <1>1, <2>1, <2>2, <2>3, <3>1, <3>2
      <3>4. /\ new \in PositionRecord /\ new.quantity = pos.quantity /\ new.cost = pos.cost
            /\ pos.quantity * pos.cost > 0 => ProfitIs(new, price)
        BY <2>2, <3>2, QuoteIs
      <3>5. PICK tr : tr = trades
        OBVIOUS
      <3>6. PositionIs(tr, c, s, new, price)
        BY <2>2, <3>4, <3>5, Requoted
      <3> QED BY <2>1, <3>3, <3>4, <3>5, <3>6
    <2>4. CASE s \notin DOMAIN prices
      BY <1>1, <2>1, <2>2, <2>4
    <2> QED BY <2>3, <2>4
  <1>6. held' \in [DOMAIN held' -> PositionRecord]
    BY <1>1, <1>4, <1>5
  <1>7. \A s \in Instruments :
          IF s \in DOMAIN held' THEN PositionIs(trades, closedAt[s], s, held'[s], quoted'[s])
          ELSE AfterIn(trades, closedAt[s], s, Len(trades)) = 0
    BY <1>3, <1>4, <1>5
  <1>8. PICK tr, at : tr = trades /\ at = closedAt
    OBVIOUS
  <1>9. trades' = tr /\ closedAt' = at
    BY <1>1, <1>8
  <1>10. /\ tr \in Seq(Dealt) /\ at \in [Instruments -> Nat] /\ \A s \in Instruments : at[s] <= Len(tr)
         /\ cash = InitialCapital - SumFunctionOnSet(AmountsIn(tr), DOMAIN tr) - commissions - slippages
         /\ commissions = SumFunctionOnSet(CommissionsIn(tr), DOMAIN tr)
         /\ slippages = SumFunctionOnSet(SlippagesIn(tr), DOMAIN tr)
    BY <1>8 DEF PortfolioInv
  <1> QED BY <1>1, <1>3, <1>4, <1>6, <1>7, <1>8, <1>9, <1>10 DEF PortfolioInv

LEMMA CloseSteps ==
  ASSUME PortfolioInv, NEW s \in Instruments, NEW price \in FillPrices,
         Books!ClosePosition(s, price)
  PROVE  PortfolioInv'
  <1>1. /\ s \in DOMAIN held
        /\ cash' = cash + Books!Close(held[s], price).quantity * price
        /\ held' = Books!Restrict(held, DOMAIN held \ {s})
        /\ closedAt' = [closedAt EXCEPT ![s] = Len(trades)]
        /\ quoted' = [quoted EXCEPT ![s] = 0]
        /\ trades' = trades /\ commissions' = commissions /\ slippages' = slippages
    BY DEF Books!ClosePosition
  <1>2. PICK tr, n : tr = trades /\ n = Len(trades)
    OBVIOUS
  <1>3. /\ tr \in Seq(Dealt) /\ n \in Nat /\ n = Len(tr)
        /\ closedAt \in [Instruments -> Nat] /\ quoted \in [Instruments -> Nat]
        /\ \A x \in Instruments : closedAt[x] <= n
        /\ held \in [DOMAIN held -> PositionRecord] /\ DOMAIN held \subseteq Instruments
        /\ cash = InitialCapital - SumFunctionOnSet(AmountsIn(tr), DOMAIN tr) - commissions - slippages
        /\ commissions = SumFunctionOnSet(CommissionsIn(tr), DOMAIN tr)
        /\ slippages = SumFunctionOnSet(SlippagesIn(tr), DOMAIN tr)
        /\ \A x \in Instruments :
             IF x \in DOMAIN held THEN PositionIs(tr, closedAt[x], x, held[x], quoted[x])
             ELSE AfterIn(tr, closedAt[x], x, n) = 0
    BY <1>2 DEF PortfolioInv
  <1>4. cash' = cash
    <2>1. Books!Close(held[s], price).quantity = 0
      <3>1. PICK pos, realized : pos = held[s] /\ realized = pos.realized + pos.quantity * price - pos.cost
        OBVIOUS
      <3>2. pos \in PositionRecord
        BY <1>1, <1>3, <3>1
      <3>3. Books!Close(pos, price) = [pos EXCEPT !.realized = realized, !.quantity = 0, !.unrealized = 0]
        BY <3>1 DEF Books!Close
      <3>4. [pos EXCEPT !.realized = realized, !.quantity = 0, !.unrealized = 0].quantity = 0
        BY <3>2 DEF PositionRecord
      <3> QED BY <3>1, <3>3, <3>4
    <2>2. 0 * price = 0
      <3>1. PICK p \in Nat : p = price
        BY PortfolioAssumption
      <3> QED BY <3>1
    <2>3. cash \in Int
      <3>1. PICK all \in Int, paid \in Int, lost \in Int :
              /\ all = SumFunctionOnSet(AmountsIn(tr), DOMAIN tr)
              /\ paid = commissions /\ lost = slippages
        <4>1. \A i \in DOMAIN tr : CommissionsIn(tr)[i] \in Int /\ SlippagesIn(tr)[i] \in Int
          <5>1. \A i \in DOMAIN tr : tr[i] \in Dealt
            BY <1>3
          <5> QED BY <5>1, DealtIs DEF CommissionsIn, SlippagesIn
        <4>2. IsFiniteSet(DOMAIN tr) /\ DOMAIN tr \in SUBSET DOMAIN tr
          BY <1>3, ListSums
        <4>3. commissions \in Int /\ slippages \in Int
          BY <1>3, <4>1, <4>2, SumInt
        <4>4. SumFunctionOnSet(AmountsIn(tr), DOMAIN tr) \in Int
          BY <1>3, <4>2, ListSums
        <4> QED BY <4>3, <4>4
      <3>2. InitialCapital \in Int
        BY PortfolioAssumption
      <3> QED BY <1>3, <3>1, <3>2
    <2> QED BY <1>1, <2>1, <2>2, <2>3
  <1>5. /\ DOMAIN held' = DOMAIN held \ {s} /\ held' \in [DOMAIN held' -> PositionRecord]
        /\ \A x \in DOMAIN held' : held'[x] = held[x]
    BY <1>1, <1>3 DEF Books!Restrict
  <1>6. /\ closedAt' \in [Instruments -> Nat] /\ closedAt'[s] = n
        /\ quoted' \in [Instruments -> Nat]
        /\ \A x \in Instruments : x # s => closedAt'[x] = closedAt[x] /\ quoted'[x] = quoted[x]
        /\ \A x \in Instruments : closedAt'[x] <= n
    BY <1>1, <1>2, <1>3
  <1>7. AfterIn(tr, n, s, n) = 0
    <2>1. SinceIn(tr, n, s) = {}
      BY <1>3 DEF SinceIn
    <2> QED BY <1>3, <2>1, NoDeals
  <1>8. \A x \in Instruments :
          IF x \in DOMAIN held' THEN PositionIs(tr, closedAt'[x], x, held'[x], quoted'[x])
          ELSE AfterIn(tr, closedAt'[x], x, n) = 0
    BY <1>3, <1>5, <1>6, <1>7
  <1>9. trades' = tr
    BY <1>1, <1>2
  <1> QED BY <1>1, <1>3, <1>4, <1>5, <1>6, <1>8, <1>9 DEF PortfolioInv

LEMMA PortfolioSteps == PortfolioInv /\ [Books!PortfolioNext]_(Books!portfolioVars) => PortfolioInv'
  <1> SUFFICES ASSUME PortfolioInv, [Books!PortfolioNext]_(Books!portfolioVars) PROVE PortfolioInv'
    OBVIOUS
  <1>1. CASE UNCHANGED Books!portfolioVars
    <2>1. /\ trades' = trades /\ closedAt' = closedAt /\ quoted' = quoted /\ held' = held /\ cash' = cash
          /\ commissions' = commissions /\ slippages' = slippages
      BY <1>1 DEF Books!portfolioVars
    <2> QED BY <2>1 DEF PortfolioInv
  <1> QED BY <1>1, DealSteps, QuoteSteps, CloseSteps DEF Books!PortfolioNext

\* What Portfolio says of its trades is what is said above of a list of them.
LEMMA BooksAreThese ==
  /\ Books!Changes = LotsIn(trades) /\ Books!Amounts = AmountsIn(trades)
  /\ \A f : Books!SumFunction(f) = SumFunctionOnSet(f, DOMAIN f)
  /\ \A f, S : Books!SumFunctionOnSet(f, S) = SumFunctionOnSet(f, S)
  /\ \A s : Books!Since(s) = SinceIn(trades, closedAt[s], s)
  /\ \A s, i : Books!After(s, i) = AfterIn(trades, closedAt[s], s, i)
  <1>1. \A f, S : Books!SumFunctionOnSet(f, S) = SumFunctionOnSet(f, S)
    BY DEF Books!SumFunctionOnSet, Books!FoldFunctionOnSet, Books!MapThenFoldSet, SumFunctionOnSet,
       FoldFunctionOnSet, MapThenFoldSet
  <1>2. ASSUME NEW f PROVE Books!SumFunction(f) = SumFunctionOnSet(f, DOMAIN f)
    BY DEF Books!SumFunction, Books!FoldFunction, Books!SumFunctionOnSet, Books!FoldFunctionOnSet,
       Books!MapThenFoldSet, SumFunctionOnSet, FoldFunctionOnSet, MapThenFoldSet
  <1>3. Books!Changes = LotsIn(trades) /\ Books!Amounts = AmountsIn(trades)
    BY DEF Books!Changes, Books!Amounts, Books!Lot, LotsIn, AmountsIn, LotOf
  <1>4. \A s : Books!Since(s) = SinceIn(trades, closedAt[s], s)
    BY DEF Books!Since, SinceIn
  <1>5. \A s, i : Books!After(s, i) = AfterIn(trades, closedAt[s], s, i)
    BY <1>1, <1>3, <1>4 DEF Books!After, AfterIn
  <1> QED BY <1>1, <1>2, <1>3, <1>4, <1>5

LEMMA PortfolioPromise == PortfolioInv => Books!PortfolioBalances
  <1> SUFFICES ASSUME PortfolioInv PROVE Books!PortfolioBalances
    OBVIOUS
  <1>1. /\ trades \in Seq(Dealt) /\ closedAt \in [Instruments -> Nat] /\ DOMAIN held \subseteq Instruments
        /\ \A s \in Instruments :
             IF s \in DOMAIN held THEN PositionIs(trades, closedAt[s], s, held[s], quoted[s])
             ELSE AfterIn(trades, closedAt[s], s, Len(trades)) = 0
    BY DEF PortfolioInv
  <1>2. /\ cash = InitialCapital - Books!SumFunction(Books!Amounts) - commissions - slippages
        /\ commissions = Books!SumFunction([i \in DOMAIN trades |-> trades[i].commission])
        /\ slippages = Books!SumFunction([i \in DOMAIN trades |-> trades[i].slippage])
    <2>1. Books!SumFunction(Books!Amounts) = SumFunctionOnSet(AmountsIn(trades), DOMAIN trades)
      <3>1. DOMAIN AmountsIn(trades) = DOMAIN trades
        BY DEF AmountsIn
      <3> QED BY <3>1, BooksAreThese
    <2>2. PICK f, g : /\ f = [i \in DOMAIN trades |-> trades[i].commission]
                      /\ g = [i \in DOMAIN trades |-> trades[i].slippage]
      OBVIOUS
    <2>3. DOMAIN f = DOMAIN trades /\ DOMAIN g = DOMAIN trades
          /\ f = CommissionsIn(trades) /\ g = SlippagesIn(trades)
      BY <2>2 DEF CommissionsIn, SlippagesIn
    <2>4. Books!SumFunction(f) = SumFunctionOnSet(f, DOMAIN trades)
          /\ Books!SumFunction(g) = SumFunctionOnSet(g, DOMAIN trades)
      BY <2>3, BooksAreThese
    <2> QED BY <2>1, <2>2, <2>3, <2>4 DEF PortfolioInv
  <1>3. \A s \in Instruments : s \in DOMAIN held <=> Books!After(s, Len(trades)) # 0
    <2>1. \A s \in Instruments : s \in DOMAIN held <=> AfterIn(trades, closedAt[s], s, Len(trades)) # 0
      BY <1>1 DEF PositionIs
    <2> QED BY <2>1, BooksAreThese
  <1>4. ASSUME NEW s \in DOMAIN held
        PROVE  LET q == Books!After(s, Len(trades))
               IN
               /\ held[s].quantity = q
               /\ Books!Unreduced(s) =>
                    /\ held[s].cost = Books!Paid(s)
                    /\ q > 0 /\ quoted[s] # 0 =>
                         held[s].unrealized = q * quoted[s] - Books!Paid(s)
    <2>1. PICK tr, c, pos, quote, n : /\ tr = trades /\ c = closedAt[s] /\ pos = held[s]
                                      /\ quote = quoted[s] /\ n = Len(trades)
      OBVIOUS
    <2>2. tr \in Seq(Dealt) /\ c \in Nat /\ PositionIs(tr, c, s, pos, quote)
      BY <1>1, <2>1
    <2>3. PICK o \in DOMAIN tr :
            /\ OpensIn(tr, c, s, o)
            /\ UnreducedIn(tr, c, s, o) => /\ pos.cost = PaidIn(tr, c, s, o)
                                           /\ quote # 0 => ProfitIs(pos, quote)
      BY <2>2 DEF PositionIs
    <2>4. pos.quantity = AfterIn(tr, c, s, n)
      BY <2>1, <2>2 DEF PositionIs
    <2>5. Books!Opening(s) = o
      <3>1. PICK S : S = {i \in SinceIn(tr, c, s) :
                            AfterIn(tr, c, s, i - 1) * AfterIn(tr, c, s, i) <= 0}
        OBVIOUS
      <3>2. Books!Opening(s) = Books!Max(S)
        BY <2>1, <3>1, BooksAreThese DEF Books!Opening
      <3>3. S \subseteq Int /\ \A i \in SinceIn(tr, c, s) : i \in Int
        BY <2>2, <3>1 DEF SinceIn
      <3>4. o \in S
        BY <2>3, <3>1 DEF OpensIn
      <3>5. ASSUME NEW i \in S PROVE o >= i
        <4>1. i \in Int /\ o \in Int
          BY <3>3, <3>4
        <4>2. ~(i \in AddedIn(tr, c, s, o))
          <5>1. AfterIn(tr, c, s, i - 1) * AfterIn(tr, c, s, i) \in Int
            <6>1. AfterIn(tr, c, s, i - 1) \in Int /\ AfterIn(tr, c, s, i) \in Int
              BY <2>2, ListSums
            <6> QED BY <6>1, SignOfProduct
          <5> QED BY <2>3, <3>1, <5>1 DEF OpensIn
        <4>3. i \in SinceIn(tr, c, s)
          BY <3>1
        <4> QED BY <4>1, <4>2, <4>3 DEF AddedIn
      <3>6. \A k \in S : (\A j \in S : k >= j) => k = o
        <4> SUFFICES ASSUME NEW k \in S, \A j \in S : k >= j PROVE k = o
          OBVIOUS
        <4>1. k \in Int /\ o \in Int /\ k >= o /\ o >= k
          BY <3>3, <3>4, <3>5
        <4> QED BY <4>1
      <3>7. Books!Max(S) = o
        BY <3>4, <3>5, <3>6 DEF Books!Max
      <3> QED BY <3>2, <3>7
    <2>6. Books!Added(s) = AddedIn(tr, c, s, o)
      BY <2>1, <2>5, BooksAreThese DEF Books!Added, AddedIn
    <2>7. Books!Paid(s) = PaidIn(tr, c, s, o)
      <3>1. Books!After(s, o) = AfterIn(tr, c, s, o)
        BY <2>1, BooksAreThese
      <3>2. Books!SumFunctionOnSet(Books!Amounts, Books!Added(s)) =
              SumFunctionOnSet(AmountsIn(tr), AddedIn(tr, c, s, o))
        BY <2>1, <2>6, BooksAreThese
      <3> QED BY <2>1, <2>5, <3>1, <3>2 DEF Books!Paid, PaidIn
    <2>8. Books!After(s, Len(trades)) = pos.quantity
      BY <2>1, <2>4, BooksAreThese
    <2>9. Books!Unreduced(s) => UnreducedIn(tr, c, s, o)
      BY <2>1, <2>4, <2>6, <2>8 DEF Books!Unreduced, Books!Lot, UnreducedIn, LotOf
    <2>10. /\ pos.quantity \in Int /\ PaidIn(tr, c, s, o) \in Int
           /\ quote \in Int /\ pos.quantity * quote \in Int
      <3>1. pos \in PositionRecord /\ quote \in Int
        BY <2>1 DEF PortfolioInv
      <3>2. pos.quantity \in Int
        BY <3>1 DEF PositionRecord
      <3>3. PaidIn(tr, c, s, o) \in Int
        <4>1. tr[o] \in Dealt
          BY <2>2
        <4>2. tr[o].price \in Int
          BY <4>1, DealtIs
        <4>3. AddedIn(tr, c, s, o) \in SUBSET DOMAIN tr
          BY DEF AddedIn, SinceIn
        <4>4. AfterIn(tr, c, s, o) \in Int /\ SumFunctionOnSet(AmountsIn(tr), AddedIn(tr, c, s, o)) \in Int
          BY <2>2, <4>3, ListSums
        <4>5. AfterIn(tr, c, s, o) * tr[o].price \in Int
          BY <4>2, <4>4, SignOfProduct
        <4> QED BY <4>4, <4>5 DEF PaidIn
      <3> QED BY <3>1, <3>2, <3>3, SignOfProduct
    <2>11. ASSUME Books!Unreduced(s)
           PROVE  /\ held[s].cost = Books!Paid(s)
                  /\ pos.quantity > 0 /\ quoted[s] # 0 =>
                       held[s].unrealized = pos.quantity * quoted[s] - Books!Paid(s)
      <3>1. pos.cost = PaidIn(tr, c, s, o) /\ (quote # 0 => ProfitIs(pos, quote))
        BY <2>3, <2>9, <2>11
      <3> QED BY <2>1, <2>7, <2>10, <3>1 DEF ProfitIs
    <2> QED BY <2>1, <2>8, <2>11
  <1> QED BY <1>2, <1>3, <1>4 DEF Books!PortfolioBalances

-----------------------------------------------------------------------------
(* The optimizer                                                           *)

\* best is q[i], the first of the best of the first n of q.
LeadsAt(best, q, n, i) ==
  /\ best = [found |-> TRUE, params |-> q[i], fitness |-> fit[q[i]]]
  /\ fit[q[i]] # Fails
  /\ \A k \in 1..n : fit[q[k]] # Fails => fit[q[k]] <= fit[q[i]]
  /\ \A k \in 1..(i - 1) : fit[q[k]] # Fails => fit[q[k]] < fit[q[i]]

\* best is what a search makes of the first n of q.
LeadsTo(best, q, n) ==
  \/ best = None /\ \A k \in 1..n : fit[q[k]] = Fails
  \/ \E i \in 1..n : LeadsAt(best, q, n, i)

\* What worked is among the results.
AreRecorded(q) ==
  \A k \in DOMAIN q : fit[q[k]] # Fails =>
    \E j \in DOMAIN results : results[j].fitness = fit[q[k]]
ResultRecord == [params : Params, fitness : Int]
ResultsInv ==
  /\ results \in Seq(ResultRecord)
  /\ \A j \in DOMAIN results : results[j].fitness = fit[results[j].params]

LEMMA FitIs ==
  ASSUME fit \in [Params -> Fitnesses \cup {Fails}], NEW p \in Params
  PROVE  /\ fit[p] # Fails => fit[p] \in Int /\ fit[p] > Worst
         /\ fit[p] \in Int => fit[p] # Fails
  BY OptimizerAssumption DEF Worst

LEMMA ImproveLeads ==
  ASSUME fit \in [Params -> Fitnesses \cup {Fails}], NEW q \in Seq(Params), NEW n \in Nat, n < Len(q),
         NEW best, LeadsTo(best, q, n)
  PROVE  LeadsTo(Improve(best, q[n + 1]), q, n + 1)
  <1>1. PICK m : m = n + 1
    OBVIOUS
  <1>2. m \in 1..Len(q) /\ m - 1 = n /\ \A k \in 1..m : q[k] \in Params
    BY <1>1
  <1>3. \A k \in 1..m : (fit[q[k]] # Fails => fit[q[k]] \in Int)
    BY <1>2, FitIs
  <1>4. PICK new : new = Improve(best, q[m])
    OBVIOUS
  <1>5. CASE best = None /\ \A k \in 1..n : fit[q[k]] = Fails
    <2>1. ~best.found
      BY <1>5 DEF None
    <2>2. CASE fit[q[m]] = Fails
      <3>1. new = None
        BY <1>4, <1>5, <2>2 DEF Improve
      <3>2. \A k \in 1..m : fit[q[k]] = Fails
        BY <1>1, <1>5, <2>2
      <3> QED BY <1>1, <1>4, <3>1, <3>2 DEF LeadsTo
    <2>3. CASE fit[q[m]] # Fails
      <3>1. new = [found |-> TRUE, params |-> q[m], fitness |-> fit[q[m]]]
        BY <1>4, <2>1, <2>3 DEF Improve
      <3>2. \A k \in 1..m : fit[q[k]] # Fails => k = m
        BY <1>1, <1>5
      <3>3. \A k \in 1..m : fit[q[k]] # Fails => fit[q[k]] <= fit[q[m]]
        BY <1>2, <1>3, <3>2
      <3>4. \A k \in 1..(m - 1) : fit[q[k]] # Fails => fit[q[k]] < fit[q[m]]
        BY <1>1, <1>2, <1>5
      <3>5. LeadsAt(new, q, m, m)
        BY <2>3, <3>1, <3>3, <3>4 DEF LeadsAt
      <3>6. m \in 1..m
        BY <1>2
      <3> QED BY <1>1, <1>4, <3>5, <3>6 DEF LeadsTo
    <2> QED BY <2>2, <2>3
  <1>6. ASSUME NEW i \in 1..n,
               LeadsAt(best, q, n, i)
        PROVE  LeadsTo(new, q, m)
    <2>1. best.found = TRUE /\ best.fitness = fit[q[i]] /\ i \in 1..m /\ fit[q[i]] # Fails
      BY <1>1, <1>6 DEF LeadsAt
    <2>2. fit[q[i]] \in Int
      BY <1>3, <1>6, <2>1
    <2>3. CASE fit[q[m]] # Fails /\ fit[q[m]] > fit[q[i]]
      <3>1. new = [found |-> TRUE, params |-> q[m], fitness |-> fit[q[m]]]
        BY <1>4, <2>1, <2>3 DEF Improve
      <3>2. fit[q[m]] \in Int
        BY <1>2, <1>3, <2>3
      <3>3. \A k \in 1..n : fit[q[k]] # Fails => fit[q[k]] < fit[q[m]]
        <4> SUFFICES ASSUME NEW k \in 1..n, fit[q[k]] # Fails PROVE fit[q[k]] < fit[q[m]]
          OBVIOUS
        <4>1. fit[q[k]] \in Int /\ fit[q[k]] <= fit[q[i]]
          BY <1>1, <1>3, <1>6 DEF LeadsAt
        <4> QED BY <2>2, <2>3, <3>2, <4>1
      <3>4. \A k \in 1..m : fit[q[k]] # Fails => fit[q[k]] <= fit[q[m]]
        <4> SUFFICES ASSUME NEW k \in 1..m, fit[q[k]] # Fails PROVE fit[q[k]] <= fit[q[m]]
          OBVIOUS
        <4>1. k = m \/ k \in 1..n
          BY <1>1
        <4>2. fit[q[k]] \in Int
          BY <1>3
        <4> QED BY <3>2, <3>3, <4>1, <4>2
      <3>5. \A k \in 1..(m - 1) : fit[q[k]] # Fails => fit[q[k]] < fit[q[m]]
        BY <1>2, <3>3
      <3>6. LeadsAt(new, q, m, m)
        BY <2>3, <3>1, <3>4, <3>5 DEF LeadsAt
      <3>7. m \in 1..m
        BY <1>2
      <3> QED BY <3>6, <3>7 DEF LeadsTo
    <2>4. CASE ~(fit[q[m]] # Fails /\ fit[q[m]] > fit[q[i]])
      <3>1. new = best
        BY <1>4, <2>1, <2>4 DEF Improve
      <3>2. \A k \in 1..m : fit[q[k]] # Fails => fit[q[k]] <= fit[q[i]]
        <4> SUFFICES ASSUME NEW k \in 1..m, fit[q[k]] # Fails PROVE fit[q[k]] <= fit[q[i]]
          OBVIOUS
        <4>1. k = m \/ k \in 1..n
          BY <1>1
        <4>2. fit[q[k]] \in Int
          BY <1>3
        <4> QED BY <1>6, <2>2, <2>4, <4>1, <4>2 DEF LeadsAt
      <3>3. LeadsAt(new, q, m, i)
        BY <1>6, <2>1, <3>1, <3>2 DEF LeadsAt
      <3> QED BY <2>1, <3>3 DEF LeadsTo
    <2> QED BY <2>3, <2>4
  <1> QED BY <1>1, <1>4, <1>5, <1>6 DEF LeadsTo

\* A search that has tried one more still knows the first of the best.
LEMMA TriedOneMore ==
  ASSUME fit \in [Params -> Fitnesses \cup {Fails}], NEW q \in Seq(Params), NEW p \in Params,
         NEW best, LeadsTo(best, q, Len(q))
  PROVE  LeadsTo(Improve(best, p), Append(q, p), Len(Append(q, p)))
  <1>1. PICK r, n : r = Append(q, p) /\ n = Len(q)
    OBVIOUS
  <1>2. n \in Nat /\ r \in Seq(Params) /\ Len(r) = n + 1 /\ r[n + 1] = p /\ \A k \in 1..n : r[k] = q[k]
    BY <1>1
  <1>3. LeadsTo(best, r, n)
    <2>1. \A i \in 1..n : \A k \in 1..(i - 1) : k \in 1..n
      BY <1>2
    <2> QED BY <1>1, <1>2, <2>1 DEF LeadsTo, LeadsAt
  <1>4. LeadsTo(Improve(best, r[n + 1]), r, n + 1)
    <2>1. n < Len(r)
      BY <1>2
    <2> QED BY <1>2, <1>3, <2>1, ImproveLeads
  <1> QED BY <1>1, <1>2, <1>4

\* The grid lists every parameter set.
LEMMA GridIs == Grid \in Seq(Params) /\ \A p \in Params : \E k \in DOMAIN Grid : Grid[k] = p
  <1>1. IsFiniteSet(Params)
    BY OptimizerAssumption DEF Params
  <1>2. PICK n \in Nat : n = Cardinality(Params)
    BY <1>1, FS_CardinalityType
  <1>3. IsFiniteSet(1..n) /\ Cardinality(1..n) = n
    <2>1. \A a, b \in Int : Cardinality(a..b) = IF a > b THEN 0 ELSE b - a + 1
      BY FS_Interval
    <2>2. n \in Int /\ 1 \in Int
      OBVIOUS
    <2>3. IsFiniteSet(1..n)
      BY <2>2, FS_Interval
    <2>4. Cardinality(1..n) = IF 1 > n THEN 0 ELSE n - 1 + 1
      BY <2>1, <2>2
    <2> QED BY <2>3, <2>4
  <1>4. ExistsBijection(1..n, Params)
    BY <1>1, <1>2, <1>3, FS_SameCardinalityBij
  <1>5. \E f \in [1..n -> Params] : IsInjective(f)
    BY <1>4 DEF ExistsBijection, Bijection, Injection, IsInjective
  <1>6. PICK q : q = Grid
    OBVIOUS
  <1>7. q \in [1..n -> Params] /\ IsInjective(q)
    BY <1>2, <1>5, <1>6 DEF Grid, SetToSeq
  <1>8. q \in Seq(Params) /\ DOMAIN q = 1..n
    BY <1>7
  <1>9. q \in Surjection(1..n, Params)
    <2>1. q \in Injection(1..n, Params)
      BY <1>7 DEF IsInjective, Injection
    <2>2. Cardinality(1..n) = Cardinality(Params)
      BY <1>2, <1>3
    <2>3. Cardinality(1..n) = Cardinality(Params) <=> q \in Surjection(1..n, Params)
      BY <1>1, <2>1, FS_Injection
    <2> QED BY <2>2, <2>3
  <1> QED BY <1>6, <1>8, <1>9 DEF Surjection

\* The search of the whole grid is defined, and leads to its best.
LEMMA SearchedUnfolds ==
  \A n \in 0..Len(Grid) :
    Searched[n] = IF n = 0 THEN None ELSE Improve(Searched[n - 1], Grid[n])
  <1> DEFINE Step(h, n) == IF n = 0 THEN None ELSE Improve(h[n - 1], Grid[n])
             Upto(m) == \E h : h = [n \in 0..m |-> Step(h, n)]
             Bad == {m \in Nat : ~Upto(m)}
  <1>1. Len(Grid) \in Nat
    BY GridIs
  <1>2. Upto(Len(Grid))
    <2>1. SUFFICES ASSUME Bad # {} PROVE FALSE
      BY <1>1
    <2>2. PICK m \in Bad : \A k \in Bad : m <= k
      <3> HIDE DEF Bad
      <3>1. Bad \subseteq Nat
        BY DEF Bad
      <3> QED BY <2>1, <3>1, LeastNat
    <2>3. m # 0
      <3>1. PICK h : h = [n \in 0..0 |-> None]
        OBVIOUS
      <3>2. h = [n \in 0..0 |-> Step(h, n)]
        BY <3>1
      <3> QED BY <2>2, <3>2
    <2>4. m - 1 \in Nat /\ m - 1 \notin Bad
      BY <2>2, <2>3
    <2>5. PICK h : h = [n \in 0..(m - 1) |-> Step(h, n)]
      BY <2>4
    <2>6. PICK g : g = [n \in 0..m |-> IF n = m THEN Improve(h[m - 1], Grid[m]) ELSE h[n]]
      OBVIOUS
    <2>7. \A n \in 0..(m - 1) : g[n] = h[n]
      BY <2>2, <2>6
    <2>8. \A n \in 0..m : g[n] = Step(g, n)
      <3> SUFFICES ASSUME NEW n \in 0..m PROVE g[n] = Step(g, n)
        OBVIOUS
      <3>1. CASE n = m
        <4>1. g[n] = Improve(h[m - 1], Grid[m])
          BY <2>6, <3>1
        <4>2. g[m - 1] = h[m - 1]
          BY <2>2, <2>4, <2>7
        <4> QED BY <2>3, <3>1, <4>1, <4>2
      <3>2. CASE n # m
        <4>1. n \in 0..(m - 1)
          BY <2>2, <3>2
        <4>2. h[n] = Step(h, n)
          BY <2>5, <4>1
        <4>3. n # 0 => n - 1 \in 0..(m - 1)
          BY <2>2, <4>1
        <4> QED BY <2>7, <4>1, <4>2, <4>3
      <3> QED BY <3>1, <3>2
    <2>9. g = [n \in 0..m |-> Step(g, n)]
      <3>1. g = [n \in 0..m |-> g[n]]
        BY <2>6
      <3> QED BY <2>8, <3>1
    <2> QED BY <2>2, <2>9
  <1>3. Searched = CHOOSE h : h = [n \in 0..Len(Grid) |-> Step(h, n)]
    BY DEF Searched
  <1>4. Searched = [n \in 0..Len(Grid) |-> Step(Searched, n)]
    <2> HIDE DEF Step
    <2> QED BY <1>2, <1>3
  <1>5. PICK f : f = Searched
    OBVIOUS
  <1>6. f = [n \in 0..Len(Grid) |-> Step(f, n)]
    BY <1>4, <1>5
  <1> QED BY <1>5, <1>6

LEMMA SearchedLeads ==
  ASSUME fit \in [Params -> Fitnesses \cup {Fails}]
  PROVE  LeadsTo(Searched[Len(Grid)], Grid, Len(Grid))
  <1>1. PICK f : f = Searched
    OBVIOUS
  <1>2. PICK top : top = Len(Grid)
    OBVIOUS
  <1>3. top \in Nat
    BY <1>2, GridIs
  <1> DEFINE Bad == {n \in 0..top : ~LeadsTo(f[n], Grid, n)}
  <1>4. SUFFICES ASSUME Bad # {} PROVE FALSE
    BY <1>1, <1>2, <1>3
  <1>5. PICK n \in Bad : \A k \in Bad : n <= k
    <2>1. Bad \subseteq Nat
      OBVIOUS
    <2> HIDE DEF Bad
    <2> QED BY <1>4, <2>1, LeastNat
  <1>6. n # 0
    <2>1. f[0] = None
      BY <1>1, <1>2, <1>3, SearchedUnfolds
    <2>2. LeadsTo(None, Grid, 0)
      BY DEF LeadsTo
    <2> QED BY <1>5, <2>1, <2>2
  <1>7. n - 1 \in 0..top /\ n - 1 \notin Bad /\ n - 1 \in Nat /\ n - 1 < top /\ n = (n - 1) + 1
    BY <1>3, <1>5, <1>6
  <1>8. LeadsTo(f[n - 1], Grid, n - 1)
    BY <1>7
  <1>9. LeadsTo(Improve(f[n - 1], Grid[n - 1 + 1]), Grid, n - 1 + 1)
    BY <1>2, <1>7, <1>8, GridIs, ImproveLeads
  <1>10. f[n] = Improve(f[n - 1], Grid[n])
    BY <1>1, <1>2, <1>5, <1>6, SearchedUnfolds
  <1> QED BY <1>5, <1>7, <1>9, <1>10

ValueOf(p) == IF fit[p] = Fails THEN Worst ELSE fit[p]
\* A fitness of 0 is that of an individual not evaluated yet.
Individuals == {x \in [params : Params, fitness : Int] : x.fitness = 0 \/ x.fitness = ValueOf(x.params)}

\* What a grid or a random search knows
TryingIs(s) ==
  \E op \in {"grid", "random"}, tried \in Seq(Params) : \E best :
    /\ s = [op |-> op, tried |-> tried, best |-> best]
    /\ LeadsTo(best, tried, Len(tried))
    /\ AreRecorded(tried)

WindowIs(w) ==
  \E a \in Nat : \E best :
    /\ w = [train |-> <<a, a + TrainDays>>, test |-> <<a + TrainDays, a + TrainDays + TestDays>>,
            best |-> best]
    /\ a + TrainDays + TestDays <= DataDays
    /\ best.found /\ LeadsTo(best, Grid, Len(Grid))
WindowsAre(ws) ==
  /\ \E S : ws \in Seq(S)
  /\ \A i \in 1..Len(ws) : WindowIs(ws[i])
  /\ \A i, j \in 1..Len(ws) : i < j => ws[j].train[1] >= ws[i].test[2]
WalkIs(s) == \E ws : s = [op |-> "walk", windows |-> ws] /\ WindowsAre(ws)

\* No one seen is better than p, which was seen.
BestSeen(maximize, p, saw) ==
  /\ saw \subseteq Params /\ p \in saw
  /\ \A q \in saw : ~Better(maximize, ValueOf(q), ValueOf(p))
BestIs(best, p) == best = [found |-> TRUE, params |-> p, fitness |-> ValueOf(p)]
LeadIs(maximize, generation, best, population, next, saw) ==
  \/ /\ generation = 0 /\ best = None /\ next = <<>> /\ saw = {}
  \/ \E p \in Params :
       /\ BestIs(best, p) /\ BestSeen(maximize, p, saw)
       /\ next = <<>> => population[1].params = p
       /\ next # <<>> => next[1].params = p
GeneticIs(s) ==
  \E maximize \in BOOLEAN, generation \in Nat, population \in [1..Population -> Individuals],
     next \in Seq(Individuals) : \E best, saw :
    /\ s = [op |-> "genetic", maximize |-> maximize, generation |-> generation, best |-> best,
            population |-> population, next |-> next, seen |-> saw]
    /\ LeadIs(maximize, generation, best, population, next, saw)
BredIs(s) ==
  \E maximize \in BOOLEAN, p \in Params : \E best, saw :
    /\ s = [op |-> "genetic", maximize |-> maximize, best |-> best, seen |-> saw]
    /\ BestIs(best, p) /\ BestSeen(maximize, p, saw)

OptimizerInv ==
  /\ fit \in [Params -> Fitnesses \cup {Fails}]
  /\ ResultsInv
  /\ search = NoSearch \/ TryingIs(search) \/ WalkIs(search) \/ GeneticIs(search)
  /\ outcome = None \/ TryingIs(outcome) \/ WalkIs(outcome) \/ BredIs(outcome)

LEMMA OptimizerStart == OptimizerInit => OptimizerInv
  BY DEF OptimizerInit, OptimizerInv, ResultsInv, ResultRecord

\* What is known of a search under way, by its kind
LEMMA SearchKinds ==
  ASSUME OptimizerInv
  PROVE  /\ search = NoSearch => search.op = "idle"
         /\ TryingIs(search) => search.op \in {"grid", "random"}
         /\ WalkIs(search) => search.op = "walk"
         /\ GeneticIs(search) => search.op = "genetic"
  BY DEF TryingIs, WalkIs, GeneticIs, NoSearch

\* The results only grow, so that what was recorded stays recorded.
LEMMA OthersStay ==
  ASSUME OptimizerInv, fit' = fit, results' = results
  PROVE  /\ fit' \in [Params -> Fitnesses \cup {Fails}]
         /\ ResultsInv'
         /\ \A s : TryingIs(s) => TryingIs(s)'
         /\ \A s : WalkIs(s) => WalkIs(s)'
         /\ \A s : BredIs(s) => BredIs(s)'
  <1>1. fit' \in [Params -> Fitnesses \cup {Fails}]
    BY DEF OptimizerInv
  <1>2. ResultsInv'
    BY DEF OptimizerInv, ResultsInv
  <1>3. \A b, q, n : LeadsTo(b, q, n) <=> LeadsTo(b, q, n)'
    BY DEF LeadsTo, LeadsAt
  <1>4. \A s : TryingIs(s) => TryingIs(s)'
    <2>1. \A q : AreRecorded(q) => AreRecorded(q)'
      BY DEF AreRecorded
    <2> QED BY <1>3, <2>1 DEF TryingIs
  <1>5. \A s : WalkIs(s) => WalkIs(s)'
    BY <1>3 DEF WalkIs, WindowsAre, WindowIs
  <1>6. \A s : BredIs(s) => BredIs(s)'
    BY DEF BredIs, BestIs, BestSeen, ValueOf
  <1> QED BY <1>1, <1>2, <1>4, <1>5, <1>6

LEMMA StartKeeps ==
  ASSUME OptimizerInv, NEW s, Start(s),
         TryingIs(s) \/ WalkIs(s) \/ GeneticIs(s)
  PROVE  OptimizerInv'
  <1>1. fit' = fit /\ results' = results /\ search' = s /\ outcome' = None
    BY DEF Start
  <1>2. \A r : GeneticIs(r) => GeneticIs(r)'
    <2>1. Individuals' = Individuals
      BY <1>1 DEF Individuals, ValueOf
    <2>2. \A b, p : BestIs(b, p) <=> BestIs(b, p)'
      BY <1>1 DEF BestIs, ValueOf
    <2>3. \A m, p, w : BestSeen(m, p, w) <=> BestSeen(m, p, w)'
      BY <1>1 DEF BestSeen, ValueOf
    <2>4. \A m, g, b, t, n, w : LeadIs(m, g, b, t, n, w) => LeadIs(m, g, b, t, n, w)'
      BY <2>2, <2>3 DEF LeadIs
    <2> QED BY <2>1, <2>4 DEF GeneticIs
  <1>3. TryingIs(s)' \/ WalkIs(s)' \/ GeneticIs(s)'
    BY <1>1, <1>2, OthersStay
  <1>4. (TryingIs(search) \/ WalkIs(search) \/ GeneticIs(search))'
    <2>1. search' = s
      BY <1>1
    <2> QED BY <1>3, <2>1 DEF TryingIs, WalkIs, GeneticIs
  <1> QED BY <1>1, <1>4, OthersStay DEF OptimizerInv

LEMMA SearchesStart ==
  ASSUME OptimizerInv, GridSearch \/ RandomSearch \/ WalkForward \/ Genetic
  PROVE  OptimizerInv'
  <1>1. ASSUME NEW op \in {"grid", "random"}
        PROVE  TryingIs([op |-> op, tried |-> <<>>, best |-> None])
    <2>1. LeadsTo(None, <<>>, Len(<<>>))
      BY DEF LeadsTo
    <2>2. AreRecorded(<<>>)
      BY DEF AreRecorded
    <2>3. <<>> \in Seq(Params)
      OBVIOUS
    <2> QED BY <2>1, <2>2, <2>3 DEF TryingIs
  <1>2. CASE GridSearch
    BY <1>1, <1>2, StartKeeps DEF GridSearch
  <1>3. CASE RandomSearch
    BY <1>1, <1>3, StartKeeps DEF RandomSearch
  <1>4. CASE WalkForward
    <2>1. WindowsAre(<<>>)
      BY DEF WindowsAre
    <2>2. WalkIs([op |-> "walk", windows |-> <<>>])
      BY <2>1 DEF WalkIs
    <2> QED BY <1>4, <2>2, StartKeeps DEF WalkForward
  <1>5. CASE Genetic
    <2>1. PICK maximize \in BOOLEAN, first \in [1..Population -> Params] :
            Start([op |-> "genetic", maximize |-> maximize, generation |-> 0, best |-> None,
                   population |-> [i \in 1..Population |-> Individual(first[i])], next |-> <<>>,
                   seen |-> {}])
      BY <1>5 DEF Genetic
    <2>2. \A p \in Params : Individual(p) \in Individuals
      BY DEF Individual, Individuals
    <2>3. [i \in 1..Population |-> Individual(first[i])] \in [1..Population -> Individuals]
      BY <2>1, <2>2
    <2>4. LeadIs(maximize, 0, None, [i \in 1..Population |-> Individual(first[i])], <<>>, {})
      BY DEF LeadIs
    <2>5. GeneticIs([op |-> "genetic", maximize |-> maximize, generation |-> 0, best |-> None,
                     population |-> [i \in 1..Population |-> Individual(first[i])], next |-> <<>>,
                     seen |-> {}])
      <3>1. <<>> \in Seq(Individuals) /\ 0 \in Nat
        OBVIOUS
      <3> QED BY <2>1, <2>3, <2>4, <3>1 DEF GeneticIs
    <2> QED BY <2>1, <2>5, StartKeeps
  <1> QED BY <1>2, <1>3, <1>4, <1>5

\* What was recorded stays recorded, and so does what is new.
LEMMA RecordsGrow ==
  ASSUME OptimizerInv, fit' = fit, NEW p \in Params, results' = results \o Recorded(p)
  PROVE  /\ ResultsInv'
         /\ \A q : AreRecorded(q) => AreRecorded(q)'
         /\ fit[p] # Fails => \E j \in DOMAIN results' : results'[j].fitness = fit[p]
  <1>1. fit[p] # Fails => fit[p] \in Int
    BY FitIs DEF OptimizerInv
  <1>2. results \in Seq(ResultRecord) /\ \A j \in DOMAIN results : results[j].fitness = fit[results[j].params]
    BY DEF OptimizerInv, ResultsInv
  <1>3. CASE fit[p] = Fails
    <2>1. results' = results
      BY <1>2, <1>3 DEF Recorded
    <2> QED BY <1>2, <1>3, <2>1 DEF ResultsInv, AreRecorded
  <1>4. CASE fit[p] # Fails
    <2>1. PICK r, n : r = [params |-> p, fitness |-> fit[p]] /\ n = Len(results)
      OBVIOUS
    <2>2. r \in ResultRecord /\ r.fitness = fit[r.params] /\ r.fitness = fit[p]
      BY <1>1, <1>4, <2>1 DEF ResultRecord
    <2>3. results' = Append(results, r)
      BY <1>2, <1>4, <2>1, <2>2 DEF Recorded
    <2>4. /\ results' \in Seq(ResultRecord) /\ n \in Nat
          /\ DOMAIN results' = 1..(n + 1) /\ DOMAIN results = 1..n
          /\ results'[n + 1] = r /\ \A j \in 1..n : results'[j] = results[j]
      BY <1>2, <2>1, <2>2, <2>3
    <2>5. ResultsInv'
      <3>1. \A j \in DOMAIN results' : results'[j].fitness = fit[results'[j].params]
        <4> SUFFICES ASSUME NEW j \in DOMAIN results'
                     PROVE  results'[j].fitness = fit[results'[j].params]
          OBVIOUS
        <4>1. j = n + 1 \/ j \in 1..n
          BY <2>4
        <4> QED BY <1>2, <2>2, <2>4, <4>1
      <3> QED BY <2>4, <3>1 DEF ResultsInv, ResultRecord
    <2>6. \A q : AreRecorded(q) => AreRecorded(q)'
      <3>1. \A j \in DOMAIN results : j \in DOMAIN results' /\ results'[j] = results[j]
        BY <2>4
      <3> QED BY <3>1 DEF AreRecorded
    <2>7. n + 1 \in DOMAIN results'
      BY <2>4
    <2> QED BY <2>2, <2>4, <2>5, <2>6, <2>7
  <1> QED BY <1>3, <1>4

LEMMA TryKeeps ==
  ASSUME OptimizerInv, NEW p \in Params, TryingIs(search), Try(p)
  PROVE  OptimizerInv'
  <1>1. PICK op, tried, best :
          /\ op \in {"grid", "random"} /\ tried \in Seq(Params)
          /\ search = [op |-> op, tried |-> tried, best |-> best]
          /\ LeadsTo(best, tried, Len(tried))
          /\ AreRecorded(tried)
    BY DEF TryingIs
  <1>2. /\ fit' = fit /\ outcome' = outcome /\ results' = results \o Recorded(p)
        /\ search' = [op |-> op, tried |-> Append(tried, p), best |-> Improve(best, p)]
    BY <1>1 DEF Try
  <1>3. fit \in [Params -> Fitnesses \cup {Fails}] /\ fit' \in [Params -> Fitnesses \cup {Fails}]
    BY <1>2 DEF OptimizerInv
  <1>4. PICK longer, better : longer = Append(tried, p) /\ better = Improve(best, p)
    OBVIOUS
  <1>5. \A b, q, n : LeadsTo(b, q, n) <=> LeadsTo(b, q, n)'
    BY <1>2 DEF LeadsTo, LeadsAt
  <1>6. LeadsTo(better, longer, Len(longer))'
    BY <1>1, <1>3, <1>4, <1>5, TriedOneMore
  <1>7. AreRecorded(longer)'
    <2>1. AreRecorded(tried)'
      BY <1>1, <1>2, RecordsGrow
    <2>2. DOMAIN longer = 1..(Len(tried) + 1) /\ Len(tried) \in Nat /\ DOMAIN tried = 1..Len(tried)
      BY <1>1, <1>4
    <2>3. longer[Len(tried) + 1] = p /\ \A k \in 1..Len(tried) : longer[k] = tried[k]
      BY <1>1, <1>4
    <2>4. fit[p] # Fails => \E j \in DOMAIN results' : results'[j].fitness = fit[p]
      BY <1>2, RecordsGrow
    <2>5. \A k \in DOMAIN longer : k = Len(tried) + 1 \/ k \in DOMAIN tried
      BY <2>2
    <2> QED BY <1>2, <2>1, <2>2, <2>3, <2>4, <2>5 DEF AreRecorded
  <1>8. TryingIs([op |-> op, tried |-> longer, best |-> better])'
    <2>1. longer \in Seq(Params) /\ op \in {"grid", "random"}
      BY <1>1, <1>4
    <2> QED BY <1>6, <1>7, <2>1 DEF TryingIs
  <1>9. search' = [op |-> op, tried |-> longer, best |-> better]
    BY <1>2, <1>4
  <1>10. TryingIs(search)'
    BY <1>8, <1>9 DEF TryingIs
  <1>11. (outcome = None \/ TryingIs(outcome) \/ WalkIs(outcome) \/ BredIs(outcome))'
    <2>1. \A q : AreRecorded(q) => AreRecorded(q)'
      BY <1>2, RecordsGrow
    <2>2. \A s : TryingIs(s) => TryingIs(s)'
      BY <1>5, <2>1 DEF TryingIs
    <2>3. \A s : WalkIs(s) => WalkIs(s)'
      BY <1>5 DEF WalkIs, WindowsAre, WindowIs
    <2>4. \A s : BredIs(s) => BredIs(s)'
      BY <1>2 DEF BredIs, BestIs, BestSeen, ValueOf
    <2>5. PICK o : o = outcome
      OBVIOUS
    <2>6. o = None \/ TryingIs(o)' \/ WalkIs(o)' \/ BredIs(o)'
      BY <2>2, <2>3, <2>4, <2>5 DEF OptimizerInv
    <2>7. outcome' = o
      BY <1>2, <2>5
    <2> QED BY <2>6, <2>7 DEF TryingIs, WalkIs, BredIs
  <1>12. ResultsInv'
    BY <1>2, RecordsGrow
  <1> QED BY <1>3, <1>10, <1>11, <1>12 DEF OptimizerInv

\* What a search ends with is kept in its outcome.
LEMMA SearchesTry ==
  ASSUME OptimizerInv, GridStep \/ RandomStep \/ SearchEnds
  PROVE  OptimizerInv'
  <1>1. TryingIs(search)
    <2>1. search.op \in {"grid", "random"}
      BY DEF GridStep, RandomStep, SearchEnds
    <2> QED BY <2>1, SearchKinds DEF OptimizerInv
  <1>2. CASE GridStep
    <2>1. PICK n : n = Len(search.tried) + 1
      OBVIOUS
    <2>2. PICK p : p = Grid[n]
      OBVIOUS
    <2>3. n \in 1..Len(Grid)
      <3>1. Len(search.tried) \in Nat
        BY <1>1 DEF TryingIs
      <3>2. Len(Grid) \in Nat
        BY GridIs
      <3> QED BY <1>2, <2>1, <3>1, <3>2 DEF GridStep
    <2>4. p \in Params
      BY <2>2, <2>3, GridIs
    <2>5. Try(p)
      BY <1>2, <2>1, <2>2 DEF GridStep, Try, Recorded, Improve
    <2> QED BY <1>1, <2>4, <2>5, TryKeeps
  <1>3. CASE RandomStep
    <2>1. PICK p \in Params : Try(p)
      BY <1>3 DEF RandomStep
    <2> QED BY <1>1, <2>1, TryKeeps
  <1>4. CASE SearchEnds
    <2>1. PICK op, tried, best :
            /\ op \in {"grid", "random"} /\ tried \in Seq(Params)
            /\ search = [op |-> op, tried |-> tried, best |-> best]
            /\ LeadsTo(best, tried, Len(tried))
            /\ AreRecorded(tried)
      BY <1>1 DEF TryingIs
    <2>2. PICK s : s = [op |-> op, tried |-> tried, best |-> best]
      OBVIOUS
    <2>3. TryingIs(s)
      BY <2>1, <2>2 DEF TryingIs
    <2>4. fit' = fit /\ results' = results /\ search' = NoSearch /\ outcome' = s
      BY <1>4, <2>1, <2>2 DEF SearchEnds
    <2>5. TryingIs(s)'
      BY <2>3, <2>4, OthersStay
    <2>6. TryingIs(outcome)'
      BY <2>4, <2>5 DEF TryingIs
    <2> QED BY <2>4, <2>6, OthersStay DEF OptimizerInv
  <1> QED BY <1>2, <1>3, <1>4

LEMMA WalkSteps ==
  ASSUME OptimizerInv, WalkStep \/ WalkEnds
  PROVE  OptimizerInv'
  <1>1. WalkIs(search)
    <2>1. search.op = "walk"
      BY DEF WalkStep, WalkEnds
    <2> QED BY <2>1, SearchKinds DEF OptimizerInv
  <1>2. PICK ws : search = [op |-> "walk", windows |-> ws] /\ WindowsAre(ws)
    BY <1>1 DEF WalkIs
  <1>3. fit' = fit /\ results' = results
    BY DEF WalkStep, WalkEnds
  <1>4. CASE search' = NoSearch /\ outcome' = None
    BY <1>3, <1>4, OthersStay DEF OptimizerInv
  <1>5. CASE WalkEnds
    <2>1. PICK s : s = [op |-> "walk", windows |-> ws]
      OBVIOUS
    <2>2. search' = NoSearch /\ outcome' = s
      BY <1>2, <1>5, <2>1 DEF WalkEnds
    <2>3. WalkIs(s)'
      BY <1>1, <1>2, <1>3, <2>1, OthersStay
    <2>4. WalkIs(outcome)'
      BY <2>2, <2>3 DEF WalkIs
    <2> QED BY <1>3, <2>2, <2>4, OthersStay DEF OptimizerInv
  <1>6. ASSUME WalkStep, ~(search' = NoSearch /\ outcome' = None) PROVE OptimizerInv'
    <2>1. PICK a : a = WalkStart
      OBVIOUS
    <2>2. PICK best : best = Searched[Len(Grid)]
      OBVIOUS
    <2>3. PICK w : w = [train |-> <<a, a + TrainDays>>,
                        test |-> <<a + TrainDays, a + TrainDays + TestDays>>, best |-> best]
      OBVIOUS
    <2>4. w = Window
      BY <2>1, <2>2, <2>3 DEF Window
    <2>5. /\ best.found /\ a + TrainDays + TestDays <= DataDays
          /\ search' = [op |-> "walk", windows |-> Append(ws, w)]
          /\ outcome' = outcome
      <3>1. Window.best = best
        BY <2>3, <2>4
      <3>2. best.found /\ search' = [search EXCEPT !.windows = Append(@, Window)] /\ outcome' = outcome
        BY <1>6, <3>1 DEF WalkStep
      <3>3. a + TrainDays + TestDays <= DataDays
        BY <1>6, <2>1 DEF WalkStep, MoreWindows
      <3> QED BY <1>2, <2>4, <3>2, <3>3
    <2>6. PICK n : n = Len(ws)
      OBVIOUS
    <2>7. PICK S : ws \in Seq(S)
      BY <1>2 DEF WindowsAre
    <2>8. n \in Nat /\ DOMAIN ws = 1..n
      BY <2>6, <2>7
    <2>9. /\ \A i \in 1..n : WindowIs(ws[i])
          /\ \A i, j \in 1..n : i < j => ws[j].train[1] >= ws[i].test[2]
      BY <1>2, <2>6 DEF WindowsAre
    <2>10. \A i \in 1..n : /\ ws[i].test[2] \in Nat /\ ws[i].train[1] \in Nat
                           /\ ws[i].train[1] <= ws[i].test[2]
      <3> SUFFICES ASSUME NEW i \in 1..n
                   PROVE  /\ ws[i].test[2] \in Nat /\ ws[i].train[1] \in Nat
                          /\ ws[i].train[1] <= ws[i].test[2]
        OBVIOUS
      <3>1. PICK b \in Nat : /\ ws[i].train = <<b, b + TrainDays>>
                             /\ ws[i].test = <<b + TrainDays, b + TrainDays + TestDays>>
        <4>1. WindowIs(ws[i])
          BY <2>9
        <4>2. PICK b, r :
                /\ b \in Nat
                /\ ws[i] = [train |-> <<b, b + TrainDays>>,
                            test |-> <<b + TrainDays, b + TrainDays + TestDays>>, best |-> r]
          BY <4>1 DEF WindowIs
        <4> QED BY <4>2
      <3>2. TrainDays \in Nat /\ TestDays \in Nat
        BY OptimizerAssumption
      <3>3. ws[i].train[1] = b /\ ws[i].test[2] = b + TrainDays + TestDays
        BY <3>1
      <3> QED BY <3>2, <3>3
    <2>11. a \in Nat /\ \A i \in 1..n : ws[i].test[2] <= a
      <3>1. CASE ws = <<>>
        BY <1>2, <2>1, <2>6, <3>1 DEF WalkStart
      <3>2. CASE ws # <<>>
        <4>1. n \in 1..n
          BY <2>6, <2>7, <3>2
        <4>2. a = ws[n].test[2]
          BY <1>2, <2>1, <2>6, <3>2 DEF WalkStart, Last
        <4>3. ASSUME NEW i \in 1..n, i < n PROVE ws[i].test[2] <= a
          <5>1. ws[n].train[1] >= ws[i].test[2]
            BY <2>9, <4>1, <4>3
          <5>2. ws[n].train[1] <= ws[n].test[2]
            BY <2>10, <4>1
          <5> QED BY <2>10, <4>1, <4>2, <5>1, <5>2
        <4>4. a \in Nat
          BY <2>10, <4>1, <4>2
        <4>5. \A i \in 1..n : i = n \/ i < n
          BY <2>8
        <4> QED BY <4>2, <4>3, <4>4, <4>5
      <3> QED BY <3>1, <3>2
    <2>12. WindowIs(w)
      <3>1. LeadsTo(best, Grid, Len(Grid))
        BY <2>2, SearchedLeads DEF OptimizerInv
      <3> QED BY <2>3, <2>5, <2>11, <3>1 DEF WindowIs
    <2>13. PICK v : v = Append(ws, w)
      OBVIOUS
    <2>14. /\ v \in Seq(S \cup {w}) /\ Len(v) = n + 1 /\ v[n + 1] = w
           /\ \A i \in 1..n : v[i] = ws[i]
      <3>1. ws \in Seq(S \cup {w}) /\ w \in S \cup {w}
        BY <2>7
      <3> QED BY <2>6, <2>13, <3>1
    <2>15. \A i \in 1..Len(v) : i = n + 1 \/ i \in 1..n
      BY <2>8, <2>14
    <2>16. WindowsAre(v)
      <3>1. \A i \in 1..Len(v) : WindowIs(v[i])
        BY <2>9, <2>12, <2>14, <2>15
      <3>2. ASSUME NEW i \in 1..Len(v), NEW j \in 1..Len(v), i < j
            PROVE  v[j].train[1] >= v[i].test[2]
        <4>1. i \in 1..n
          BY <2>8, <2>14, <3>2
        <4>2. CASE j = n + 1
          <5>1. v[j].train[1] = a /\ v[i].test[2] = ws[i].test[2]
            BY <2>3, <2>14, <4>1, <4>2
          <5> QED BY <2>10, <2>11, <4>1, <5>1
        <4>3. CASE j \in 1..n
          BY <2>9, <2>14, <3>2, <4>1, <4>3
        <4> QED BY <2>15, <4>2, <4>3
      <3> QED BY <2>14, <3>1, <3>2 DEF WindowsAre
    <2>17. PICK s : s = [op |-> "walk", windows |-> v]
      OBVIOUS
    <2>18. WalkIs(s)'
      <3>1. WalkIs(s)
        BY <2>16, <2>17 DEF WalkIs
      <3> QED BY <1>3, <3>1, OthersStay
    <2>19. search' = s
      BY <2>5, <2>13, <2>17
    <2>20. WalkIs(search)'
      BY <2>18, <2>19 DEF WalkIs
    <2>21. (outcome = None \/ TryingIs(outcome) \/ WalkIs(outcome) \/ BredIs(outcome))'
      <3>1. PICK o : o = outcome
        OBVIOUS
      <3>2. o = None \/ TryingIs(o)' \/ WalkIs(o)' \/ BredIs(o)'
        BY <1>3, <3>1, OthersStay DEF OptimizerInv
      <3>3. outcome' = o
        BY <2>5, <3>1
      <3> QED BY <3>2, <3>3 DEF TryingIs, WalkIs, BredIs
    <2> QED BY <1>3, <2>20, <2>21, OthersStay DEF OptimizerInv
  <1> QED BY <1>4, <1>5, <1>6

\* The first of the best of a population leads it.
LEMMA LeaderLeads ==
  ASSUME NEW maximize \in BOOLEAN, NEW people \in [1..Population -> [params : Params, fitness : Int]]
  PROVE  \E i \in 1..Population :
           /\ Leader(maximize, people) = people[i]
           /\ \A j \in 1..Population : ~Better(maximize, people[j].fitness, people[i].fitness)
           /\ (\A j \in 1..Population : ~Better(maximize, people[j].fitness, people[1].fitness)) => i = 1
  <1>1. Population \in Nat /\ Population > 0
    BY OptimizerAssumption
  <1>2. PICK F : F = {people[i].fitness : i \in 1..Population}
    OBVIOUS
  <1>3. F \subseteq Int /\ F # {}
    BY <1>1, <1>2
  <1>4. IsFiniteSet(F)
    <2>1. IsFiniteSet(1..Population)
      BY <1>1, FS_Interval
    <2>2. PICK g : g = [i \in 1..Population |-> people[i].fitness]
      OBVIOUS
    <2>3. g \in Surjection(1..Population, F)
      BY <1>2, <2>2 DEF Surjection
    <2> QED BY <2>1, <2>3, FS_Surjection
  <1>5. (\E m \in F : \A k \in F : m >= k) /\ (\E m \in F : \A k \in F : m <= k)
    BY <1>3, <1>4, ExtremesExist
  <1>6. PICK m \in F : \A k \in F : ~Better(maximize, k, m)
    <2>1. \A x, y \in Int : x >= y => ~(y > x)
      OBVIOUS
    <2>2. \A x, y \in Int : x <= y => ~(y < x)
      OBVIOUS
    <2> QED BY <1>3, <1>5, <2>1, <2>2 DEF Better
  <1>7. PICK best : best = {i \in DOMAIN people : \A j \in DOMAIN people :
                              ~Better(maximize, people[j].fitness, people[i].fitness)}
    OBVIOUS
  <1>8. best \subseteq Nat /\ best # {}
    BY <1>2, <1>6, <1>7
  <1>9. PICK i \in best : \A j \in best : i <= j
    BY <1>8, LeastNat
  <1>10. Min(best) = i
    <2>1. \A k \in best : (\A j \in best : k <= j) => k = i
      <3> SUFFICES ASSUME NEW k \in best, \A j \in best : k <= j PROVE k = i
        OBVIOUS
      <3>1. k <= i /\ i <= k /\ k \in Int /\ i \in Int
        BY <1>8, <1>9
      <3> QED BY <3>1
    <2> QED BY <1>9, <2>1 DEF Min
  <1>11. Leader(maximize, people) = people[i]
    BY <1>7, <1>10 DEF Leader
  <1>12. (\A j \in 1..Population : ~Better(maximize, people[j].fitness, people[1].fitness)) => i = 1
    <2> SUFFICES ASSUME \A j \in 1..Population : ~Better(maximize, people[j].fitness, people[1].fitness)
                 PROVE  i = 1
      OBVIOUS
    <2>1. 1 \in best
      BY <1>1, <1>7
    <2>2. i <= 1 /\ i \in 1..Population
      BY <1>7, <1>9, <2>1
    <2> QED BY <1>1, <2>2
  <1> QED BY <1>7, <1>9, <1>11, <1>12

\* An evaluated individual has the fitness of its parameters.
LEMMA EvaluatedIs ==
  ASSUME fit \in [Params -> Fitnesses \cup {Fails}], NEW x \in Individuals
  PROVE  Evaluated(x) = [params |-> x.params, fitness |-> ValueOf(x.params)]
  <1>1. x = [params |-> x.params, fitness |-> x.fitness]
    BY DEF Individuals
  <1>2. x.fitness = 0 \/ x.fitness = ValueOf(x.params)
    BY DEF Individuals
  <1>3. PICK p, v : p = x.params /\ v = x.fitness
    OBVIOUS
  <1>4. CASE v = 0
    BY <1>1, <1>3, <1>4 DEF Evaluated, ValueOf
  <1>5. CASE v # 0
    BY <1>1, <1>2, <1>3, <1>5 DEF Evaluated
  <1> QED BY <1>4, <1>5

LEMMA ValueIsInt ==
  ASSUME fit \in [Params -> Fitnesses \cup {Fails}], NEW p \in Params
  PROVE  ValueOf(p) \in Int
  BY FitIs DEF ValueOf, Worst

\* What a genetic search that goes on has to show
LEMMA GeneticGoesOn ==
  ASSUME OptimizerInv, fit' = fit, results' = results, outcome' = outcome,
         NEW s, search' = s, GeneticIs(s)
  PROVE  OptimizerInv'
  <1>1. GeneticIs(s)'
    <2>1. Individuals' = Individuals
      BY DEF Individuals, ValueOf
    <2>2. \A b, p : BestIs(b, p) <=> BestIs(b, p)'
      BY DEF BestIs, ValueOf
    <2>3. \A m, p, w : BestSeen(m, p, w) <=> BestSeen(m, p, w)'
      BY DEF BestSeen, ValueOf
    <2>4. \A m, g, b, t, n, w : LeadIs(m, g, b, t, n, w) => LeadIs(m, g, b, t, n, w)'
      BY <2>2, <2>3 DEF LeadIs
    <2> QED BY <2>1, <2>4 DEF GeneticIs
  <1>2. GeneticIs(search)'
    BY <1>1 DEF GeneticIs
  <1>3. (outcome = None \/ TryingIs(outcome) \/ WalkIs(outcome) \/ BredIs(outcome))'
    <2>1. PICK o : o = outcome
      OBVIOUS
    <2>2. o = None \/ TryingIs(o)' \/ WalkIs(o)' \/ BredIs(o)'
      BY <2>1, OthersStay DEF OptimizerInv
    <2>3. outcome' = o
      BY <2>1
    <2> QED BY <2>2, <2>3 DEF TryingIs, WalkIs, BredIs
  <1> QED BY <1>2, <1>3, OthersStay DEF OptimizerInv

\* p is the best after a generation of people that leader leads.
KeepsBest(maximize, best, saw, people, leader, p) ==
  /\ BestIs(IF ~best.found \/ Better(maximize, leader.fitness, best.fitness)
              THEN [found |-> TRUE, params |-> leader.params, fitness |-> leader.fitness]
              ELSE best, p)
  /\ BestSeen(maximize, p, saw \cup {people[i].params : i \in 1..Population})
  /\ leader.params = p

\* A generation keeps the best seen, the first of the next one.
LEMMA BestIsKept ==
  ASSUME fit \in [Params -> Fitnesses \cup {Fails}],
         NEW maximize \in BOOLEAN, NEW generation \in Nat, NEW best, NEW saw,
         NEW old \in [1..Population -> Individuals],
         NEW people \in [1..Population -> Individuals],
         \A i \in 1..Population : people[i] = Evaluated(old[i]),
         NEW leader, leader = Leader(maximize, people),
         LeadIs(maximize, generation, best, old, <<>>, saw)
  PROVE  \E p \in Params : KeepsBest(maximize, best, saw, people, leader, p)
  <1>1. Population \in Nat /\ 1 \in 1..Population
    BY OptimizerAssumption
  <1>2. \A i \in 1..Population : /\ people[i] = [params |-> old[i].params, fitness |-> ValueOf(old[i].params)]
                                 /\ old[i].params \in Params
    BY EvaluatedIs DEF Individuals
  <1>3. \A i \in 1..Population : /\ people[i].params = old[i].params
                                 /\ people[i].params \in Params
                                 /\ people[i].fitness = ValueOf(people[i].params)
                                 /\ people[i].fitness \in Int
    BY <1>2, ValueIsInt
  <1>4. people \in [1..Population -> [params : Params, fitness : Int]]
    BY DEF Individuals
  <1>5. PICK i \in 1..Population :
          /\ leader = people[i]
          /\ \A j \in 1..Population : ~Better(maximize, people[j].fitness, people[i].fitness)
          /\ (\A j \in 1..Population : ~Better(maximize, people[j].fitness, people[1].fitness)) => i = 1
    BY <1>4, LeaderLeads
  <1>6. PICK p : p = leader.params
    OBVIOUS
  <1>7. p \in Params /\ leader.fitness = ValueOf(p) /\ ValueOf(p) \in Int
    BY <1>3, <1>5, <1>6
  <1>8. PICK more : more = {people[j].params : j \in 1..Population}
    OBVIOUS
  <1>9. more \subseteq Params /\ p \in more /\ \A q \in more : ~Better(maximize, ValueOf(q), ValueOf(p))
    BY <1>3, <1>5, <1>6, <1>8
  <1>10. CASE best = None /\ saw = {}
    <2>1. ~best.found
      BY <1>10 DEF None
    <2>2. BestIs([found |-> TRUE, params |-> leader.params, fitness |-> leader.fitness], p)
      BY <1>6, <1>7 DEF BestIs
    <2>3. BestSeen(maximize, p, saw \cup more)
      BY <1>9, <1>10 DEF BestSeen
    <2> QED BY <1>6, <1>7, <1>8, <2>1, <2>2, <2>3 DEF KeepsBest
  <1>11. ASSUME NEW b \in Params, BestIs(best, b), BestSeen(maximize, b, saw), old[1].params = b
         PROVE  /\ BestIs(IF ~best.found \/ Better(maximize, leader.fitness, best.fitness)
                            THEN [found |-> TRUE, params |-> leader.params, fitness |-> leader.fitness]
                            ELSE best, p)
                /\ BestSeen(maximize, p, saw \cup more)
    <2>1. best.found = TRUE /\ best.fitness = ValueOf(b) /\ ValueOf(b) \in Int
      BY <1>11, ValueIsInt DEF BestIs
    <2>2. people[1].fitness = ValueOf(b) /\ people[1].params = b
      BY <1>1, <1>3, <1>11
    <2>3. ~Better(maximize, ValueOf(b), ValueOf(p))
      BY <1>1, <1>3, <1>5, <1>6, <2>2
    <2>4. \A q \in saw : q \in Params /\ ValueOf(q) \in Int /\ ~Better(maximize, ValueOf(q), ValueOf(b))
      BY <1>11, ValueIsInt DEF BestSeen
    <2>5. \A q \in saw : ~Better(maximize, ValueOf(q), ValueOf(p))
      <3> SUFFICES ASSUME NEW q \in saw PROVE ~Better(maximize, ValueOf(q), ValueOf(p))
        OBVIOUS
      <3>1. PICK x \in Int, y \in Int, z \in Int : x = ValueOf(q) /\ y = ValueOf(b) /\ z = ValueOf(p)
        BY <1>7, <2>1, <2>4
      <3>2. ~Better(maximize, x, y) /\ ~Better(maximize, y, z)
        BY <2>3, <2>4, <3>1
      <3>3. ~Better(maximize, x, z)
        BY <3>2 DEF Better
      <3> QED BY <3>1, <3>3
    <2>6. BestSeen(maximize, p, saw \cup more)
      BY <1>9, <2>4, <2>5 DEF BestSeen
    <2>7. CASE Better(maximize, leader.fitness, best.fitness)
      BY <1>6, <1>7, <2>1, <2>6, <2>7 DEF BestIs
    <2>8. CASE ~Better(maximize, leader.fitness, best.fitness)
      <3>1. ~Better(maximize, ValueOf(p), ValueOf(b))
        BY <1>7, <2>1, <2>8
      <3>2. ValueOf(p) = ValueOf(b)
        <4>1. PICK y \in Int, z \in Int : y = ValueOf(b) /\ z = ValueOf(p)
          BY <1>7, <2>1
        <4>2. ~Better(maximize, z, y) /\ ~Better(maximize, y, z)
          BY <2>3, <3>1, <4>1
        <4> QED BY <4>1, <4>2 DEF Better
      <3>3. i = 1
        <4>1. people[1].fitness = people[i].fitness
          BY <1>5, <1>7, <2>2, <3>2
        <4> QED BY <1>5, <4>1
      <3>4. p = b
        BY <1>5, <1>6, <2>2, <3>3
      <3> QED BY <1>11, <2>1, <2>6, <2>8, <3>4
    <2> QED BY <2>7, <2>8
  <1>12. (best = None /\ saw = {})
         \/ \E b \in Params : BestIs(best, b) /\ BestSeen(maximize, b, saw) /\ old[1].params = b
    BY DEF LeadIs
  <1>13. CASE \E b \in Params : BestIs(best, b) /\ BestSeen(maximize, b, saw) /\ old[1].params = b
    BY <1>6, <1>7, <1>8, <1>11, <1>13 DEF KeepsBest
  <1> QED BY <1>10, <1>12, <1>13

LEMMA GeneticSteps ==
  ASSUME OptimizerInv, Evaluate \/ Breed \/ NextGeneration \/ GeneticEnds
  PROVE  OptimizerInv'
  <1>1. GeneticIs(search)
    <2>1. search.op = "genetic"
      BY DEF Evaluate, Breed, NextGeneration, GeneticEnds
    <2> QED BY <2>1, SearchKinds DEF OptimizerInv
  <1>2. PICK maximize, generation, population, next, best, saw :
          /\ maximize \in BOOLEAN /\ generation \in Nat
          /\ population \in [1..Population -> Individuals] /\ next \in Seq(Individuals)
          /\ search = [op |-> "genetic", maximize |-> maximize, generation |-> generation,
                       best |-> best, population |-> population, next |-> next, seen |-> saw]
          /\ LeadIs(maximize, generation, best, population, next, saw)
    BY <1>1 DEF GeneticIs
  <1>3. fit \in [Params -> Fitnesses \cup {Fails}]
    BY DEF OptimizerInv
  <1>4. fit' = fit /\ results' = results
    BY DEF Evaluate, Breed, NextGeneration, GeneticEnds
  <1>5. Population \in Nat /\ 1 \in 1..Population
    BY OptimizerAssumption
  <1>6. CASE Evaluate
    <2>1. PICK people : people = [i \in DOMAIN search.population |-> Evaluated(search.population[i])]
      OBVIOUS
    <2>2. PICK leader : leader = Leader(maximize, people)
      OBVIOUS
    <2>3. PICK more : more = {people[i].params : i \in DOMAIN people}
      OBVIOUS
    <2>4. PICK better :
            better = IF ~best.found \/ Better(maximize, leader.fitness, best.fitness)
                       THEN [found |-> TRUE, params |-> leader.params, fitness |-> leader.fitness]
                       ELSE best
      OBVIOUS
    <2>5. PICK s : s = [op |-> "genetic", maximize |-> maximize, generation |-> generation + 1,
                        best |-> better, population |-> people, next |-> <<leader>>,
                        seen |-> saw \cup more]
      OBVIOUS
    <2>6. search.next = <<>> /\ next = <<>> /\ outcome' = outcome
      BY <1>2, <1>6 DEF Evaluate
    <2>7. search' = s
      <3>1. /\ search.population = population /\ search.maximize = maximize
            /\ search.best = best /\ search.seen = saw /\ search.generation = generation
        BY <1>2
      <3>2. search' = [search EXCEPT !.population = people, !.generation = generation + 1,
                                     !.next = <<leader>>, !.seen = saw \cup more, !.best = better]
        BY <1>6, <2>1, <2>2, <2>3, <2>4, <3>1, Zenon DEF Evaluate
      <3>3. PICK n, w : n = <<leader>> /\ w = saw \cup more
        OBVIOUS
      <3>4. PICK g : g = generation + 1
        OBVIOUS
      <3>5. search' = [search EXCEPT !.population = people, !.generation = g,
                                     !.next = n, !.seen = w, !.best = better]
        BY <3>2, <3>3, <3>4
      <3>6. search' = [op |-> "genetic", maximize |-> maximize, generation |-> g, best |-> better,
                       population |-> people, next |-> n, seen |-> w]
        BY <1>2, <3>5
      <3> QED BY <2>5, <3>3, <3>4, <3>6
    <2>8. DOMAIN people = 1..Population /\ \A i \in 1..Population : people[i] = Evaluated(population[i])
      BY <1>2, <2>1
    <2>9. \A i \in 1..Population :
            /\ people[i] = [params |-> population[i].params, fitness |-> ValueOf(population[i].params)]
            /\ population[i].params \in Params /\ ValueOf(population[i].params) \in Int
      BY <1>2, <1>3, <2>8, EvaluatedIs, ValueIsInt DEF Individuals
    <2>10. \A i \in 1..Population : people[i] \in Individuals
      <3> SUFFICES ASSUME NEW i \in 1..Population PROVE people[i] \in Individuals
        OBVIOUS
      <3>1. PICK x, v : x = population[i].params /\ v = ValueOf(x)
        OBVIOUS
      <3>2. people[i] = [params |-> x, fitness |-> v] /\ x \in Params /\ v \in Int
        BY <2>9, <3>1
      <3> QED BY <3>1, <3>2 DEF Individuals
    <2>11. people \in [1..Population -> Individuals]
      <3>1. people = [i \in 1..Population |-> people[i]]
        BY <1>2, <2>1
      <3> QED BY <2>10, <3>1
    <2>12. leader \in Individuals
      <3>1. people \in [1..Population -> [params : Params, fitness : Int]]
        BY <2>11 DEF Individuals
      <3> QED BY <1>2, <2>2, <2>10, <3>1, LeaderLeads
    <2>13. PICK p \in Params : BestIs(better, p) /\ BestSeen(maximize, p, saw \cup more) /\ leader.params = p
      <3>1. LeadIs(maximize, generation, best, population, <<>>, saw)
        BY <1>2, <2>6
      <3>2. more = {people[i].params : i \in 1..Population}
        BY <2>3, <2>8
      <3>3. \A i \in 1..Population : people[i] = Evaluated(population[i])
        BY <2>8
      <3>4. \E p \in Params : KeepsBest(maximize, best, saw, people, leader, p)
        BY <1>2, <1>3, <2>2, <2>11, <3>1, <3>3, BestIsKept
      <3> QED BY <2>4, <3>2, <3>4 DEF KeepsBest
    <2>14. LeadIs(maximize, generation + 1, better, people, <<leader>>, saw \cup more)
      <3>1. <<leader>> # <<>> /\ <<leader>>[1].params = p
        BY <2>13
      <3> QED BY <2>13, <3>1 DEF LeadIs
    <2>15. GeneticIs(s)
      <3>1. <<leader>> \in Seq(Individuals) /\ generation + 1 \in Nat
        BY <1>2, <2>12
      <3> QED BY <1>2, <2>5, <2>11, <2>14, <3>1 DEF GeneticIs
    <2> QED BY <1>4, <2>6, <2>7, <2>15, GeneticGoesOn
  <1>7. CASE Breed
    <2>1. search.next # <<>> /\ next # <<>> /\ outcome' = outcome
      BY <1>2, <1>7 DEF Breed
    <2>2. \E child \in Individuals : search' = [search EXCEPT !.next = Append(@, child)]
      <3> DEFINE Crossed(i, j) == {Individual(c) : c \in Crossover(search.population[i].params,
                                                                  search.population[j].params)}
                 Children(i, j) ==
                   {search.population[i]} \cup Crossed(i, j)
                     \cup {Individual(c) : c \in UNION {Mutations(z.params) :
                              z \in {search.population[i]} \cup Crossed(i, j)}}
      <3>a. \E i, j \in DOMAIN search.population : \E child \in Children(i, j) :
              search' = [search EXCEPT !.next = Append(@, child)]
        BY <1>7 DEF Breed
      <3>b. PICK i \in DOMAIN search.population, j \in DOMAIN search.population :
              \E child \in Children(i, j) : search' = [search EXCEPT !.next = Append(@, child)]
        BY <3>a
      <3>c. PICK crossed : crossed = Crossed(i, j)
        OBVIOUS
      <3>1. PICK child :
              /\ child \in {search.population[i]} \cup crossed
                    \cup {Individual(c) : c \in UNION {Mutations(z.params) :
                                                         z \in {search.population[i]} \cup crossed}}
              /\ search' = [search EXCEPT !.next = Append(@, child)]
        BY <3>b, <3>c
      <3>2. search.population[i] \in Individuals
        BY <1>2, <3>1
      <3>3. \A c \in Params : Individual(c) \in Individuals
        BY DEF Individual, Individuals
      <3>4. crossed \subseteq Individuals
        BY <3>3, <3>c DEF Crossover
      <3>5. \A z \in Individuals : Mutations(z.params) \subseteq Params
        BY DEF Mutations, Individuals, Params
      <3>6. child \in Individuals
        BY <3>1, <3>2, <3>3, <3>4, <3>5
      <3> QED BY <3>1, <3>6
    <2>3. PICK child \in Individuals : search' = [search EXCEPT !.next = Append(@, child)]
      BY <2>2
    <2>4. PICK longer : longer = Append(next, child)
      OBVIOUS
    <2>5. longer \in Seq(Individuals) /\ longer # <<>> /\ longer[1] = next[1]
      BY <1>2, <2>1, <2>4
    <2>6. PICK s : s = [op |-> "genetic", maximize |-> maximize, generation |-> generation,
                        best |-> best, population |-> population, next |-> longer, seen |-> saw]
      OBVIOUS
    <2>7. search' = s
      <3>1. search.next = next
        BY <1>2
      <3>2. search' = [search EXCEPT !.next = longer]
        BY <2>3, <2>4, <3>1
      <3> QED BY <1>2, <2>6, <3>2
    <2>8. LeadIs(maximize, generation, best, population, longer, saw)
      BY <1>2, <2>1, <2>5 DEF LeadIs
    <2>9. GeneticIs(s)
      BY <1>2, <2>5, <2>6, <2>8 DEF GeneticIs
    <2> QED BY <1>4, <2>1, <2>7, <2>9, GeneticGoesOn
  <1>8. CASE NextGeneration
    <2>1. Len(next) = Population /\ outcome' = outcome
      BY <1>2, <1>8 DEF NextGeneration
    <2>2. next \in [1..Population -> Individuals] /\ next # <<>>
      BY <1>2, <1>5, <2>1
    <2>3. PICK s : s = [op |-> "genetic", maximize |-> maximize, generation |-> generation,
                        best |-> best, population |-> next, next |-> <<>>, seen |-> saw]
      OBVIOUS
    <2>4. search' = s
      <3>1. search' = [search EXCEPT !.population = next, !.next = <<>>]
        BY <1>2, <1>8 DEF NextGeneration
      <3>2. PICK n : n = <<>>
        OBVIOUS
      <3>3. search' = [search EXCEPT !.population = next, !.next = n]
        BY <3>1, <3>2
      <3>4. search' = [op |-> "genetic", maximize |-> maximize, generation |-> generation,
                       best |-> best, population |-> next, next |-> n, seen |-> saw]
        BY <1>2, <3>3
      <3> QED BY <2>3, <3>2, <3>4
    <2>5. LeadIs(maximize, generation, best, next, <<>>, saw)
      BY <1>2, <2>2 DEF LeadIs
    <2>6. GeneticIs(s)
      <3>1. <<>> \in Seq(Individuals)
        OBVIOUS
      <3> QED BY <1>2, <2>2, <2>3, <2>5, <3>1 DEF GeneticIs
    <2> QED BY <1>4, <2>1, <2>4, <2>6, GeneticGoesOn
  <1>9. CASE GeneticEnds
    <2>1. next = <<>> /\ generation = Generations
      BY <1>2, <1>9 DEF GeneticEnds
    <2>2. generation # 0
      BY <2>1, OptimizerAssumption
    <2>3. PICK s : s = [op |-> "genetic", maximize |-> maximize, best |-> best, seen |-> saw]
      OBVIOUS
    <2>4. search' = NoSearch /\ outcome' = s
      BY <1>2, <1>9, <2>3 DEF GeneticEnds
    <2>5. BredIs(s)
      BY <1>2, <2>2, <2>3 DEF LeadIs, BredIs
    <2>6. BredIs(s)'
      BY <1>4, <2>5, OthersStay
    <2>7. BredIs(outcome)'
      BY <2>4, <2>6 DEF BredIs
    <2> QED BY <1>4, <2>4, <2>7, OthersStay DEF OptimizerInv
  <1> QED BY <1>6, <1>7, <1>8, <1>9

LEMMA OptimizerSteps == OptimizerInv /\ [OptimizerNext]_optimizerVars => OptimizerInv'
  <1> SUFFICES ASSUME OptimizerInv, [OptimizerNext]_optimizerVars PROVE OptimizerInv'
    OBVIOUS
  <1>1. CASE GridSearch \/ RandomSearch \/ WalkForward \/ Genetic
    BY <1>1, SearchesStart
  <1>2. CASE GridStep \/ RandomStep \/ SearchEnds
    BY <1>2, SearchesTry
  <1>3. CASE WalkStep \/ WalkEnds
    BY <1>3, WalkSteps
  <1>4. CASE Evaluate \/ Breed \/ NextGeneration \/ GeneticEnds
    BY <1>4, GeneticSteps
  <1>5. CASE UNCHANGED optimizerVars
    <2>1. fit' = fit /\ results' = results /\ search' = search /\ outcome' = outcome
      BY <1>5 DEF optimizerVars
    <2>2. (search = NoSearch \/ TryingIs(search) \/ WalkIs(search))' \/ GeneticIs(search)
      <3>1. PICK s : s = search
        OBVIOUS
      <3>2. s = NoSearch \/ TryingIs(s)' \/ WalkIs(s)' \/ GeneticIs(s)
        BY <2>1, <3>1, OthersStay DEF OptimizerInv
      <3>3. search' = s
        BY <2>1, <3>1
      <3> QED BY <3>1, <3>2, <3>3 DEF TryingIs, WalkIs
    <2>3. CASE GeneticIs(search)
      <3>1. PICK s : s = search
        OBVIOUS
      <3>2. search' = s /\ GeneticIs(s)
        BY <2>1, <2>3, <3>1
      <3> QED BY <2>1, <3>2, GeneticGoesOn
    <2>4. (outcome = None \/ TryingIs(outcome) \/ WalkIs(outcome) \/ BredIs(outcome))'
      <3>1. PICK o : o = outcome
        OBVIOUS
      <3>2. o = None \/ TryingIs(o)' \/ WalkIs(o)' \/ BredIs(o)'
        BY <2>1, <3>1, OthersStay DEF OptimizerInv
      <3>3. outcome' = o
        BY <2>1, <3>1
      <3> QED BY <3>2, <3>3 DEF TryingIs, WalkIs, BredIs
    <2> QED BY <2>1, <2>2, <2>3, <2>4, OthersStay DEF OptimizerInv
  <1> QED BY <1>1, <1>2, <1>3, <1>4, <1>5 DEF OptimizerNext

\* A result that stands above the others is there once something worked.
LEMMA TopIsAbove ==
  ASSUME OptimizerInv, NEW j \in DOMAIN results
  PROVE  TopResult.params \in Params /\ fit[TopResult.params] \in Int
         /\ fit[TopResult.params] >= results[j].fitness
  <1>1. results \in Seq(ResultRecord) /\ \A k \in DOMAIN results : results[k].fitness = fit[results[k].params]
    BY DEF OptimizerInv, ResultsInv
  <1>2. PICK n \in Nat : n = Len(results) /\ DOMAIN results = 1..n
    BY <1>1
  <1>3. PICK S : S = ToSet(results)
    OBVIOUS
  <1>4. /\ S = {results[k] : k \in DOMAIN results}
        /\ \A r \in S : r \in ResultRecord /\ r.fitness = fit[r.params]
    BY <1>1, <1>3 DEF ToSet
  <1>5. PICK F : F = {results[k].fitness : k \in DOMAIN results}
    OBVIOUS
  <1>6. F \subseteq Int /\ F # {}
    <2>1. \A k \in DOMAIN results : results[k] \in ResultRecord
      BY <1>1
    <2>2. \A k \in DOMAIN results : results[k].fitness \in Int
      BY <2>1 DEF ResultRecord
    <2> QED BY <1>5, <2>2
  <1>7. IsFiniteSet(F)
    <2>1. IsFiniteSet(1..n)
      BY <1>2, FS_Interval
    <2>2. PICK g : g = [k \in 1..n |-> results[k].fitness]
      OBVIOUS
    <2>3. g \in Surjection(1..n, F)
      BY <1>2, <1>5, <2>2 DEF Surjection
    <2> QED BY <2>1, <2>3, FS_Surjection
  <1>8. PICK m \in F : \A k \in F : m >= k
    BY <1>6, <1>7, ExtremesExist
  <1>9. \E r \in S : \A s \in S : s.fitness <= r.fitness
    <2>1. PICK k \in DOMAIN results : results[k].fitness = m
      BY <1>5, <1>8
    <2>2. \A i \in DOMAIN results : results[i].fitness <= m
      BY <1>5, <1>6, <1>8
    <2> QED BY <1>4, <2>1, <2>2
  <1>10. TopResult \in S /\ \A s \in S : s.fitness <= TopResult.fitness
    BY <1>3, <1>9 DEF TopResult
  <1>11. PICK top : top = TopResult
    OBVIOUS
  <1>12. /\ top \in ResultRecord /\ top.fitness = fit[top.params]
         /\ results[j].fitness <= top.fitness /\ results[j] \in ResultRecord
    BY <1>1, <1>4, <1>10, <1>11
  <1> QED BY <1>11, <1>12 DEF ResultRecord

LEMMA TriedPromises ==
  ASSUME OptimizerInv, NEW op \in {"grid", "random"}, NEW tried \in Seq(Params), NEW best,
         LeadsTo(best, tried, Len(tried)), AreRecorded(tried)
  PROVE  /\ best.found <=> Works(ToSet(tried)) # {}
         /\ best.found =>
              LET i == Min({k \in DOMAIN tried : /\ tried[k] \in Works(ToSet(tried))
                                                 /\ IsBest(tried[k], ToSet(tried), TRUE)})
              IN /\ best.params = tried[i]
                 /\ fit[TopResult.params] >= best.fitness
  <1>1. PICK n \in Nat : n = Len(tried) /\ DOMAIN tried = 1..n
    OBVIOUS
  <1>2. PICK S : S = ToSet(tried)
    OBVIOUS
  <1>3. S = {tried[k] : k \in 1..n} /\ \A k \in 1..n : tried[k] \in Params /\ tried[k] \in S
    BY <1>1, <1>2 DEF ToSet
  <1>4. fit \in [Params -> Fitnesses \cup {Fails}]
    BY DEF OptimizerInv
  <1>5. \A k \in 1..n : fit[tried[k]] # Fails => fit[tried[k]] \in Int
    BY <1>3, <1>4, FitIs
  <1>6. CASE best = None /\ \A k \in 1..n : fit[tried[k]] = Fails
    <2>1. ~best.found
      BY <1>6 DEF None
    <2>2. Works(S) = {}
      BY <1>3, <1>6 DEF Works
    <2> QED BY <1>2, <2>1, <2>2
  <1>7. ASSUME NEW i \in 1..n, LeadsAt(best, tried, n, i)
        PROVE  /\ best.found <=> Works(S) # {}
               /\ Min({k \in DOMAIN tried : tried[k] \in Works(S) /\ IsBest(tried[k], S, TRUE)}) = i
               /\ best.params = tried[i]
               /\ fit[TopResult.params] >= best.fitness
    <2>1. best.found = TRUE /\ best.params = tried[i] /\ best.fitness = fit[tried[i]] /\ fit[tried[i]] # Fails
      BY <1>7 DEF LeadsAt
    <2>2. /\ \A k \in 1..n : fit[tried[k]] # Fails => fit[tried[k]] <= fit[tried[i]]
          /\ \A k \in 1..(i - 1) : fit[tried[k]] # Fails => fit[tried[k]] < fit[tried[i]]
      BY <1>7 DEF LeadsAt
    <2>3. tried[i] \in Works(S)
      BY <1>3, <1>7, <2>1 DEF Works
    <2>4. PICK T : T = {k \in DOMAIN tried : tried[k] \in Works(S) /\ IsBest(tried[k], S, TRUE)}
      OBVIOUS
    <2>5. i \in T
      <3>1. \A q \in Works(S) : ~Better(TRUE, fit[q], fit[tried[i]])
        <4> SUFFICES ASSUME NEW q \in Works(S) PROVE ~(fit[q] > fit[tried[i]])
          BY DEF Better
        <4>1. PICK k \in 1..n : q = tried[k] /\ fit[tried[k]] # Fails
          BY <1>3 DEF Works
        <4> QED BY <1>5, <1>7, <2>1, <2>2, <4>1
      <3> QED BY <1>1, <1>7, <2>3, <2>4, <3>1 DEF IsBest
    <2>6. \A k \in T : k \in Nat /\ i <= k
      <3> SUFFICES ASSUME NEW k \in T PROVE k \in Nat /\ i <= k
        OBVIOUS
      <3>1. k \in 1..n /\ fit[tried[k]] # Fails /\ ~(fit[tried[i]] > fit[tried[k]])
        BY <1>1, <2>3, <2>4 DEF Works, IsBest, Better
      <3>2. fit[tried[k]] \in Int /\ fit[tried[i]] \in Int
        BY <1>5, <1>7, <2>1, <3>1
      <3>3. k \notin 1..(i - 1)
        BY <2>2, <3>1, <3>2
      <3> QED BY <1>7, <3>1, <3>3
    <2>7. Min(T) = i
      <3>1. \A k \in T : (\A j \in T : k <= j) => k = i
        <4> SUFFICES ASSUME NEW k \in T, \A j \in T : k <= j PROVE k = i
          OBVIOUS
        <4>1. k <= i /\ i <= k /\ k \in Int /\ i \in Int
          BY <1>7, <2>5, <2>6
        <4> QED BY <4>1
      <3> QED BY <2>5, <2>6, <3>1 DEF Min
    <2>8. fit[TopResult.params] >= best.fitness
      <3>1. PICK j \in DOMAIN results : results[j].fitness = fit[tried[i]]
        BY <1>1, <1>7, <2>1 DEF AreRecorded
      <3> QED BY <2>1, <3>1, TopIsAbove
    <2> QED BY <2>1, <2>3, <2>4, <2>7, <2>8
  <1>8. CASE \E i \in 1..n : LeadsAt(best, tried, n, i)
    <2>1. PICK i \in 1..n : LeadsAt(best, tried, n, i)
      BY <1>8
    <2>2. /\ best.found <=> Works(S) # {}
          /\ Min({k \in DOMAIN tried : tried[k] \in Works(S) /\ IsBest(tried[k], S, TRUE)}) = i
          /\ best.params = tried[i]
          /\ fit[TopResult.params] >= best.fitness
      BY <1>7, <2>1
    <2> HIDE DEF Works, IsBest
    <2> QED BY <1>2, <2>2, Zenon
  <1> QED BY <1>1, <1>6, <1>8 DEF LeadsTo

LEMMA WindowsPromise ==
  ASSUME OptimizerInv, NEW ws, WindowsAre(ws)
  PROVE  \A i \in DOMAIN ws :
           LET w == ws[i] IN
           /\ w.train[1] < w.train[2] /\ w.train[2] = w.test[1] /\ w.test[2] <= DataDays
           /\ \A j \in 1..i - 1 : ws[j].test[2] <= w.train[1]
           /\ IsBest(w.best.params, Params, TRUE)
  <1>1. PICK n \in Nat : n = Len(ws) /\ DOMAIN ws = 1..n
    BY DEF WindowsAre
  <1> SUFFICES ASSUME NEW i \in 1..n
               PROVE  /\ ws[i].train[1] < ws[i].train[2] /\ ws[i].train[2] = ws[i].test[1]
                      /\ ws[i].test[2] <= DataDays
                      /\ \A j \in 1..i - 1 : ws[j].test[2] <= ws[i].train[1]
                      /\ IsBest(ws[i].best.params, Params, TRUE)
    BY <1>1
  <1>2. \A k \in 1..n : \E b \in Nat : ws[k].train[1] = b /\ ws[k].test[2] = b + TrainDays + TestDays
    <2> SUFFICES ASSUME NEW k \in 1..n
                 PROVE  \E b \in Nat : ws[k].train[1] = b /\ ws[k].test[2] = b + TrainDays + TestDays
      OBVIOUS
    <2>1. WindowIs(ws[k])
      BY <1>1 DEF WindowsAre
    <2>2. PICK b, r :
            /\ b \in Nat
            /\ ws[k] = [train |-> <<b, b + TrainDays>>,
                        test |-> <<b + TrainDays, b + TrainDays + TestDays>>, best |-> r]
      BY <2>1 DEF WindowIs
    <2> QED BY <2>2
  <1>3. WindowIs(ws[i])
    BY <1>1 DEF WindowsAre
  <1>4. PICK a, best :
          /\ a \in Nat
          /\ ws[i] = [train |-> <<a, a + TrainDays>>,
                      test |-> <<a + TrainDays, a + TrainDays + TestDays>>, best |-> best]
          /\ a + TrainDays + TestDays <= DataDays
          /\ best.found /\ LeadsTo(best, Grid, Len(Grid))
    BY <1>3 DEF WindowIs
  <1>5. TrainDays \in Nat /\ TrainDays > 0 /\ TestDays \in Nat
    BY OptimizerAssumption
  <1>6. /\ ws[i].train[1] = a /\ ws[i].train[2] = a + TrainDays /\ ws[i].test[1] = a + TrainDays
        /\ ws[i].test[2] = a + TrainDays + TestDays /\ ws[i].best = best
    BY <1>4
  <1>7. \A j \in 1..i - 1 : ws[j].test[2] <= ws[i].train[1]
    <2> SUFFICES ASSUME NEW j \in 1..i - 1 PROVE ws[j].test[2] <= ws[i].train[1]
      OBVIOUS
    <2>1. j \in 1..n /\ j < i
      OBVIOUS
    <2>2. ws[i].train[1] >= ws[j].test[2]
      BY <1>1, <2>1 DEF WindowsAre
    <2> QED BY <1>2, <1>5, <2>1, <2>2
  <1>8. IsBest(best.params, Params, TRUE)
    <2>1. PICK top : top = Len(Grid)
      OBVIOUS
    <2>2. top \in Nat /\ DOMAIN Grid = 1..top
      BY <2>1, GridIs
    <2>3. PICK k \in 1..top : LeadsAt(best, Grid, top, k)
      BY <1>4, <2>1 DEF LeadsTo, None
    <2>4. best.params = Grid[k] /\ fit[Grid[k]] # Fails
      BY <2>3 DEF LeadsAt
    <2>5. fit \in [Params -> Fitnesses \cup {Fails}]
      BY DEF OptimizerInv
    <2>6. ASSUME NEW q \in Works(Params) PROVE ~(fit[q] > fit[Grid[k]])
      <3>1. q \in Params /\ fit[q] # Fails
        BY DEF Works
      <3>2. PICK j \in 1..top : Grid[j] = q
        BY <2>2, <3>1, GridIs
      <3>3. fit[q] <= fit[Grid[k]]
        BY <2>3, <3>1, <3>2 DEF LeadsAt
      <3>4. Grid[k] \in Params
        BY <2>2, GridIs
      <3>5. fit[q] \in Int /\ fit[Grid[k]] \in Int
        BY <2>4, <2>5, <3>1, <3>4, FitIs
      <3> QED BY <3>3, <3>5
    <2> QED BY <2>4, <2>6 DEF IsBest, Better
  <1>9. IsBest(ws[i].best.params, Params, TRUE)
    BY <1>6, <1>8
  <1>10. a < a + TrainDays
    BY <1>4, <1>5
  <1> QED BY <1>4, <1>6, <1>7, <1>9, <1>10

LEMMA BestSeenPromises ==
  ASSUME OptimizerInv, NEW maximize \in BOOLEAN, NEW p \in Params, NEW saw, BestSeen(maximize, p, saw)
  PROVE  /\ p \in saw
         /\ maximize /\ Works(saw) # {} => p \in Works(saw) /\ IsBest(p, saw, TRUE)
         /\ ~maximize /\ Works(saw) = saw => IsBest(p, saw, FALSE)
  <1>1. p \in saw /\ saw \subseteq Params /\ \A q \in saw : ~Better(maximize, ValueOf(q), ValueOf(p))
    BY DEF BestSeen
  <1>2. fit \in [Params -> Fitnesses \cup {Fails}]
    BY DEF OptimizerInv
  <1>3. \A q \in Params : fit[q] # Fails => ValueOf(q) = fit[q] /\ fit[q] \in Int /\ fit[q] > Worst
    BY <1>2, FitIs DEF ValueOf
  <1>4. ASSUME maximize, Works(saw) # {} PROVE p \in Works(saw) /\ IsBest(p, saw, TRUE)
    <2>1. PICK q \in Works(saw) : TRUE
      BY <1>4
    <2>2. q \in saw /\ fit[q] # Fails /\ q \in Params
      BY <1>1, <2>1 DEF Works
    <2>3. fit[p] # Fails
      <3>1. ~(fit[q] > ValueOf(p))
        BY <1>1, <1>3, <1>4, <2>2 DEF Better
      <3>2. fit[p] = Fails => ValueOf(p) = Worst
        BY DEF ValueOf
      <3> QED BY <1>3, <2>2, <3>1, <3>2
    <2>4. IsBest(p, saw, TRUE)
      BY <1>1, <1>3, <1>4, <2>3 DEF IsBest, Works, Better
    <2> QED BY <1>1, <2>3, <2>4 DEF Works
  <1>5. ASSUME ~maximize, Works(saw) = saw PROVE IsBest(p, saw, FALSE)
    <2>1. \A q \in saw : fit[q] # Fails /\ q \in Params
      BY <1>1, <1>5 DEF Works
    <2>2. \A q \in saw : ~(fit[q] < fit[p])
      BY <1>1, <1>3, <1>5, <2>1 DEF Better
    <2> QED BY <1>5, <2>2 DEF IsBest, Better
  <1> QED BY <1>1, <1>4, <1>5

LEMMA OptimizerPromise == OptimizerInv => SearchFindsBest
  <1> SUFFICES ASSUME OptimizerInv PROVE SearchFindsBest
    OBVIOUS
  <1>1. ASSUME search.op = "genetic", search.best.found, search.next = <<>>
        PROVE  search.population[1].params = search.best.params
    <2>1. GeneticIs(search)
      BY <1>1, SearchKinds DEF OptimizerInv
    <2>2. PICK maximize, generation, population, next, best, saw :
            /\ maximize \in BOOLEAN /\ generation \in Nat
            /\ population \in [1..Population -> Individuals] /\ next \in Seq(Individuals)
            /\ search = [op |-> "genetic", maximize |-> maximize, generation |-> generation,
                         best |-> best, population |-> population, next |-> next, seen |-> saw]
            /\ LeadIs(maximize, generation, best, population, next, saw)
      BY <2>1 DEF GeneticIs
    <2>3. best.found /\ next = <<>>
      BY <1>1, <2>2
    <2>4. \E p \in Params : BestIs(best, p) /\ population[1].params = p
      BY <2>2, <2>3 DEF LeadIs, None
    <2>5. population[1].params = best.params
      BY <2>4 DEF BestIs
    <2> QED BY <2>2, <2>5
  <1> DEFINE Tried ==
               LET tried == ToSet(outcome.tried) IN
               /\ outcome.best.found <=> Works(tried) # {}
               /\ outcome.best.found =>
                    LET i == Min({k \in DOMAIN outcome.tried :
                                    /\ outcome.tried[k] \in Works(tried)
                                    /\ IsBest(outcome.tried[k], tried, TRUE)})
                    IN /\ outcome.best.params = outcome.tried[i]
                       /\ fit[TopResult.params] >= outcome.best.fitness
             Walked ==
               \A i \in DOMAIN outcome.windows :
                 LET w == outcome.windows[i] IN
                 /\ w.train[1] < w.train[2] /\ w.train[2] = w.test[1] /\ w.test[2] <= DataDays
                 /\ \A j \in 1..i - 1 : outcome.windows[j].test[2] <= w.train[1]
                 /\ IsBest(w.best.params, Params, TRUE)
             Bred ==
               LET best == outcome.best.params IN
               /\ best \in outcome.seen
               /\ (outcome.maximize /\ Works(outcome.seen) # {}) =>
                    best \in Works(outcome.seen) /\ IsBest(best, outcome.seen, TRUE)
               /\ (~outcome.maximize /\ Works(outcome.seen) = outcome.seen) =>
                    IsBest(best, outcome.seen, FALSE)
  <1>2. ASSUME TryingIs(outcome) PROVE outcome.op \in {"grid", "random"} /\ Tried
    <2>1. PICK op, tried, best :
            /\ op \in {"grid", "random"} /\ tried \in Seq(Params)
            /\ outcome = [op |-> op, tried |-> tried, best |-> best]
            /\ LeadsTo(best, tried, Len(tried))
            /\ AreRecorded(tried)
      BY <1>2 DEF TryingIs
    <2>2. outcome.op = op /\ outcome.tried = tried /\ outcome.best = best
      BY <2>1
    <2>3. /\ best.found <=> Works(ToSet(tried)) # {}
          /\ best.found =>
               LET i == Min({k \in DOMAIN tried : /\ tried[k] \in Works(ToSet(tried))
                                                  /\ IsBest(tried[k], ToSet(tried), TRUE)})
               IN /\ best.params = tried[i]
                  /\ fit[TopResult.params] >= best.fitness
      BY <2>1, TriedPromises
    <2>4. Tried
      BY <2>2, <2>3, Zenon
    <2> HIDE DEF Tried
    <2> QED BY <2>1, <2>2, <2>4
  <1>3. ASSUME WalkIs(outcome) PROVE outcome.op = "walk" /\ Walked
    <2>1. PICK ws : outcome = [op |-> "walk", windows |-> ws] /\ WindowsAre(ws)
      BY <1>3 DEF WalkIs
    <2>2. outcome.op = "walk" /\ outcome.windows = ws
      BY <2>1
    <2>3. Walked
      BY <2>1, <2>2, WindowsPromise, Zenon
    <2> HIDE DEF Walked
    <2> QED BY <2>2, <2>3
  <1>4. ASSUME BredIs(outcome) PROVE outcome.op = "genetic" /\ Bred
    <2>1. PICK maximize, p, best, saw :
            /\ maximize \in BOOLEAN /\ p \in Params
            /\ outcome = [op |-> "genetic", maximize |-> maximize, best |-> best, seen |-> saw]
            /\ BestIs(best, p) /\ BestSeen(maximize, p, saw)
      BY <1>4 DEF BredIs
    <2>2. /\ outcome.op = "genetic" /\ outcome.maximize = maximize
          /\ outcome.best.params = p /\ outcome.seen = saw
      BY <2>1 DEF BestIs
    <2>3. /\ p \in saw
          /\ maximize /\ Works(saw) # {} => p \in Works(saw) /\ IsBest(p, saw, TRUE)
          /\ ~maximize /\ Works(saw) = saw => IsBest(p, saw, FALSE)
      BY <2>1, BestSeenPromises
    <2>4. Bred
      BY <2>2, <2>3, Zenon
    <2> HIDE DEF Bred
    <2> QED BY <2>2, <2>4
  <1>5. ASSUME outcome # None
        PROVE  CASE outcome.op \in {"grid", "random"} -> Tried
                 [] outcome.op = "walk" -> Walked
                 [] outcome.op = "genetic" -> Bred
    <2>1. \/ outcome.op \in {"grid", "random"} /\ Tried
          \/ outcome.op = "walk" /\ Walked
          \/ outcome.op = "genetic" /\ Bred
      <3> HIDE DEF Tried, Walked, Bred
      <3> QED BY <1>2, <1>3, <1>4, <1>5 DEF OptimizerInv
    <2> HIDE DEF Tried, Walked, Bred
    <2>2. CASE outcome.op \in {"grid", "random"} /\ Tried
      BY <2>2
    <2>3. CASE outcome.op = "walk" /\ Walked
      BY <2>3
    <2>4. CASE outcome.op = "genetic" /\ Bred
      BY <2>4
    <2> QED BY <2>1, <2>2, <2>3, <2>4
  <1> QED BY <1>1, <1>5, Zenon DEF SearchFindsBest

-----------------------------------------------------------------------------
(* The signals of the indicators                                           *)

\* A value of every bar, from the first on
OfBars(s, n) == s = [i \in 1..n |-> s[i]]
Agree(s, t, n) == \A i \in 1..n : s[i] = t[i]

LEMMA BarsAreSeq ==
  ASSUME NEW n \in Nat, NEW s, OfBars(s, n)
  PROVE  \E S : s \in Seq(S) /\ Len(s) = n /\ DOMAIN s = 1..n
  <1> DEFINE S == {s[i] : i \in 1..n}
  <1>1. s \in [1..n -> S]
    BY DEF OfBars
  <1> HIDE DEF S
  <1>2. s \in Seq(S) /\ Len(s) = n /\ DOMAIN s = 1..n
    BY <1>1
  <1> QED BY <1>2

\* Values that agree on the earlier bars make a prefix.
LEMMA PrefixIs ==
  ASSUME NEW n \in Nat, NEW s, NEW t, OfBars(s, n), OfBars(t, n + 1), Agree(s, t, n)
  PROVE  IsPrefix(s, t)
  <1>1. PICK S : s \in Seq(S) /\ Len(s) = n /\ DOMAIN s = 1..n
    BY BarsAreSeq
  <1>2. PICK T : t \in Seq(T) /\ Len(t) = n + 1 /\ DOMAIN t = 1..(n + 1)
    <2>1. n + 1 \in Nat
      OBVIOUS
    <2> QED BY <2>1, BarsAreSeq
  <1>3. SubSeq(s, 1, n) = [i \in 1..n |-> s[i]]
    BY <1>1
  <1>4. SubSeq(t, 1, n) = [i \in 1..n |-> t[i]]
    BY <1>2
  <1>5. [i \in 1..n |-> s[i]] = [i \in 1..n |-> t[i]]
    BY DEF Agree
  <1> QED BY <1>1, <1>2, <1>3, <1>4, <1>5 DEF IsPrefix

\* The windows of the earlier bars are the same (rolling).
LEMMA WindowsAgree ==
  ASSUME NEW n \in Nat, NEW m \in Nat, n <= m, NEW s, NEW t, OfBars(s, n), OfBars(t, m),
         Agree(s, t, n), NEW p \in Nat, p >= 1, NEW i \in 1..n
  PROVE  Rolling(s, p, i) = Rolling(t, p, i)
  <1>1. PICK first : first = Max({1, i - p + 1})
    OBVIOUS
  <1>2. first \in 1..i
    <2>1. i - p + 1 <= i /\ i - p + 1 \in Int /\ i \in Nat /\ 1 <= i
      OBVIOUS
    <2>2. first = IF i - p + 1 >= 1 THEN i - p + 1 ELSE 1
      BY <1>1, <2>1 DEF Max
    <2> QED BY <2>1, <2>2
  <1>3. PICK S : s \in Seq(S) /\ Len(s) = n /\ DOMAIN s = 1..n
    BY BarsAreSeq
  <1>4. PICK T : t \in Seq(T) /\ Len(t) = m /\ DOMAIN t = 1..m
    BY BarsAreSeq
  <1>5. SubSeq(s, first, i) = [k \in 1..(i - first + 1) |-> s[first + k - 1]]
    BY <1>2, <1>3
  <1>6. SubSeq(t, first, i) = [k \in 1..(i - first + 1) |-> t[first + k - 1]]
    BY <1>2, <1>4
  <1>7. \A k \in 1..(i - first + 1) : s[first + k - 1] = t[first + k - 1]
    <2> TAKE k \in 1..(i - first + 1)
    <2>1. first + k - 1 \in 1..n
      BY <1>2
    <2> QED BY <2>1 DEF Agree
  <1>8. [k \in 1..(i - first + 1) |-> s[first + k - 1]] = [k \in 1..(i - first + 1) |-> t[first + k - 1]]
    BY <1>7
  <1> QED BY <1>1, <1>5, <1>6, <1>8 DEF Rolling

EMAStep(value, before, p) ==
  LET sum == Plus(Scaled(value, 2), Scaled(before, p - 1)) IN [sum EXCEPT !.d = @ * (p + 1)]

\* An exponential average is made of the value of its bar and the average before.
LEMMA EMAUnfolds ==
  ASSUME NEW n \in Nat, NEW s, OfBars(s, n), NEW p
  PROVE  EMA(s, p) = [i \in 1..n |-> IF i = 1 THEN s[1] ELSE EMAStep(s[i], EMA(s, p)[i - 1], p)]
  <1> DEFINE Step(h, i) == IF i = 1 THEN s[1] ELSE EMAStep(s[i], h[i - 1], p)
             Upto(m) == \E h : h = [i \in 1..m |-> Step(h, i)]
             Bad == {m \in Nat : ~Upto(m)}
  <1>1. DOMAIN s = 1..n
    BY DEF OfBars
  <1>2. Upto(n)
    <2>1. SUFFICES ASSUME Bad # {} PROVE FALSE
      OBVIOUS
    <2>2. PICK m \in Bad : \A k \in Bad : m <= k
      <3> HIDE DEF Bad
      <3>1. Bad \subseteq Nat
        BY DEF Bad
      <3> QED BY <2>1, <3>1, LeastNat
    <2>3. m # 0
      <3>1. PICK h : h = [i \in 1..0 |-> s[1]]
        OBVIOUS
      <3>2. h = [i \in 1..0 |-> Step(h, i)]
        BY <3>1
      <3> QED BY <2>2, <3>2
    <2>4. m - 1 \in Nat /\ m - 1 \notin Bad
      <3>1. m \in Nat
        BY <2>2
      <3> HIDE DEF Bad
      <3> QED BY <2>2, <2>3, <3>1
    <2>5. PICK h : h = [i \in 1..(m - 1) |-> Step(h, i)]
      BY <2>4
    <2>6. PICK g : g = [i \in 1..m |-> IF i = m THEN Step(h, m) ELSE h[i]]
      OBVIOUS
    <2>7. \A i \in 1..(m - 1) : g[i] = h[i]
      BY <2>2, <2>6
    <2>8. \A i \in 1..m : g[i] = Step(g, i)
      <3> SUFFICES ASSUME NEW i \in 1..m PROVE g[i] = Step(g, i)
        OBVIOUS
      <3>1. CASE i = m
        <4>1. g[i] = Step(h, m)
          BY <2>6, <3>1
        <4>2. m # 1 => g[m - 1] = h[m - 1]
          BY <2>2, <2>4, <2>7
        <4> QED BY <3>1, <4>1, <4>2
      <3>2. CASE i # m
        <4>1. i \in 1..(m - 1)
          BY <2>2, <3>2
        <4>2. h[i] = Step(h, i)
          BY <2>5, <4>1
        <4>3. i # 1 => i - 1 \in 1..(m - 1)
          BY <2>2, <4>1
        <4> QED BY <2>7, <4>1, <4>2, <4>3
      <3> QED BY <3>1, <3>2
    <2>9. g = [i \in 1..m |-> Step(g, i)]
      <3>1. g = [i \in 1..m |-> g[i]]
        BY <2>6
      <3> QED BY <2>8, <3>1
    <2> QED BY <2>2, <2>9
  <1>3. EMA(s, p) = CHOOSE h : h = [i \in 1..n |-> Step(h, i)]
    BY <1>1 DEF EMA, EMAStep
  <1> HIDE DEF Step
  <1>4. EMA(s, p) = [i \in 1..n |-> Step(EMA(s, p), i)]
    BY <1>2, <1>3
  <1> QED BY <1>4 DEF Step

LEMMA EMAAgrees ==
  ASSUME NEW n \in Nat, NEW m \in Nat, n <= m, NEW s, NEW t, OfBars(s, n), OfBars(t, m),
         Agree(s, t, n), NEW p
  PROVE  OfBars(EMA(s, p), n) /\ OfBars(EMA(t, p), m) /\ Agree(EMA(s, p), EMA(t, p), n)
  <1>1. PICK e : e = EMA(s, p)
    OBVIOUS
  <1>2. PICK f : f = EMA(t, p)
    OBVIOUS
  <1>3. e = [i \in 1..n |-> IF i = 1 THEN s[1] ELSE EMAStep(s[i], e[i - 1], p)]
    BY <1>1, EMAUnfolds
  <1>4. f = [i \in 1..m |-> IF i = 1 THEN t[1] ELSE EMAStep(t[i], f[i - 1], p)]
    BY <1>2, EMAUnfolds
  <1>5. OfBars(e, n) /\ OfBars(f, m)
    BY <1>3, <1>4 DEF OfBars
  <1> DEFINE Bad == {i \in 1..n : e[i] # f[i]}
  <1>6. SUFFICES ASSUME Bad # {} PROVE FALSE
    BY <1>1, <1>2, <1>5 DEF Agree
  <1>7. PICK i \in Bad : \A k \in Bad : i <= k
    <2>1. Bad \subseteq Nat
      OBVIOUS
    <2> HIDE DEF Bad
    <2> QED BY <1>6, <2>1, LeastNat
  <1>8. i \in 1..n /\ i \in 1..m /\ e[i] # f[i] /\ s[i] = t[i] /\ (i = 1 => s[1] = t[1])
    BY <1>7 DEF Agree
  <1>9. i # 1 => i - 1 \in 1..n /\ e[i - 1] = f[i - 1]
    BY <1>7, <1>8
  <1>10. e[i] = IF i = 1 THEN s[1] ELSE EMAStep(s[i], e[i - 1], p)
    BY <1>3, <1>8
  <1>11. f[i] = IF i = 1 THEN t[1] ELSE EMAStep(t[i], f[i - 1], p)
    BY <1>4, <1>8
  <1> QED BY <1>8, <1>9, <1>10, <1>11

SmoothStep(change, before, p, i) == Power(p, i) * change + (p - 1) * before

LEMMA SmoothedUnfolds ==
  ASSUME NEW n \in Nat, NEW s, OfBars(s, n), NEW p
  PROVE  Smoothed(s, p) =
           [i \in 0..n |-> IF i = 0 THEN 0 ELSE SmoothStep(s[i], Smoothed(s, p)[i - 1], p, i)]
  <1> DEFINE Step(h, i) == IF i = 0 THEN 0 ELSE SmoothStep(s[i], h[i - 1], p, i)
             Upto(m) == \E h : h = [i \in 0..m |-> Step(h, i)]
             Bad == {m \in Nat : ~Upto(m)}
  <1>1. Len(s) = n
    BY BarsAreSeq
  <1>2. Upto(n)
    <2>1. SUFFICES ASSUME Bad # {} PROVE FALSE
      OBVIOUS
    <2>2. PICK m \in Bad : \A k \in Bad : m <= k
      <3> HIDE DEF Bad
      <3>1. Bad \subseteq Nat
        BY DEF Bad
      <3> QED BY <2>1, <3>1, LeastNat
    <2>3. m # 0
      <3>1. PICK h : h = [i \in 0..0 |-> 0]
        OBVIOUS
      <3>2. h = [i \in 0..0 |-> Step(h, i)]
        BY <3>1
      <3> QED BY <2>2, <3>2
    <2>4. m - 1 \in Nat /\ m - 1 \notin Bad
      <3>1. m \in Nat
        BY <2>2
      <3> HIDE DEF Bad
      <3> QED BY <2>2, <2>3, <3>1
    <2>5. PICK h : h = [i \in 0..(m - 1) |-> Step(h, i)]
      BY <2>4
    <2>6. PICK g : g = [i \in 0..m |-> IF i = m THEN Step(h, m) ELSE h[i]]
      OBVIOUS
    <2>7. \A i \in 0..(m - 1) : g[i] = h[i]
      BY <2>2, <2>6
    <2>8. \A i \in 0..m : g[i] = Step(g, i)
      <3> SUFFICES ASSUME NEW i \in 0..m PROVE g[i] = Step(g, i)
        OBVIOUS
      <3>1. CASE i = m
        <4>1. g[i] = Step(h, m)
          BY <2>6, <3>1
        <4>2. g[m - 1] = h[m - 1]
          BY <2>2, <2>4, <2>7
        <4> QED BY <3>1, <4>1, <4>2
      <3>2. CASE i # m
        <4>1. i \in 0..(m - 1)
          BY <2>2, <3>2
        <4>2. h[i] = Step(h, i)
          BY <2>5, <4>1
        <4>3. i # 0 => i - 1 \in 0..(m - 1)
          BY <2>2, <4>1
        <4> QED BY <2>7, <4>1, <4>2, <4>3
      <3> QED BY <3>1, <3>2
    <2>9. g = [i \in 0..m |-> Step(g, i)]
      <3>1. g = [i \in 0..m |-> g[i]]
        BY <2>6
      <3> QED BY <2>8, <3>1
    <2> QED BY <2>2, <2>9
  <1>3. Smoothed(s, p) = CHOOSE h : h = [i \in 0..n |-> Step(h, i)]
    BY <1>1 DEF Smoothed, SmoothStep
  <1> HIDE DEF Step
  <1>4. Smoothed(s, p) = [i \in 0..n |-> Step(Smoothed(s, p), i)]
    BY <1>2, <1>3
  <1> QED BY <1>4 DEF Step

LEMMA SmoothedAgrees ==
  ASSUME NEW n \in Nat, NEW m \in Nat, n <= m, NEW s, NEW t, OfBars(s, n), OfBars(t, m),
         Agree(s, t, n), NEW p
  PROVE  \A i \in 0..n : Smoothed(s, p)[i] = Smoothed(t, p)[i]
  <1>1. PICK e : e = Smoothed(s, p)
    OBVIOUS
  <1>2. PICK f : f = Smoothed(t, p)
    OBVIOUS
  <1>3. e = [i \in 0..n |-> IF i = 0 THEN 0 ELSE SmoothStep(s[i], e[i - 1], p, i)]
    BY <1>1, SmoothedUnfolds
  <1>4. f = [i \in 0..m |-> IF i = 0 THEN 0 ELSE SmoothStep(t[i], f[i - 1], p, i)]
    BY <1>2, SmoothedUnfolds
  <1> DEFINE Bad == {i \in 0..n : e[i] # f[i]}
  <1>6. SUFFICES ASSUME Bad # {} PROVE FALSE
    BY <1>1, <1>2
  <1>7. PICK i \in Bad : \A k \in Bad : i <= k
    <2>1. Bad \subseteq Nat
      OBVIOUS
    <2> HIDE DEF Bad
    <2> QED BY <1>6, <2>1, LeastNat
  <1>8. i \in 0..n /\ i \in 0..m /\ e[i] # f[i] /\ (i # 0 => s[i] = t[i])
    BY <1>7 DEF Agree
  <1>9. i # 0 => i - 1 \in 0..n /\ e[i - 1] = f[i - 1]
    BY <1>7, <1>8
  <1>10. e[i] = IF i = 0 THEN 0 ELSE SmoothStep(s[i], e[i - 1], p, i)
    BY <1>3, <1>8
  <1>11. f[i] = IF i = 0 THEN 0 ELSE SmoothStep(t[i], f[i - 1], p, i)
    BY <1>4, <1>8
  <1> QED BY <1>8, <1>9, <1>10, <1>11

\* A series of closes, and the same with one more
Extends(s, t, n) ==
  n \in Nat /\ n >= 1 /\ OfBars(s, n) /\ OfBars(t, n + 1) /\ Agree(s, t, n)

LEMMA ExtendsDomains ==
  ASSUME NEW s, NEW t, NEW n, Extends(s, t, n)
  PROVE  /\ DOMAIN s = 1..n /\ DOMAIN t = 1..(n + 1) /\ Len(s) = n /\ Len(t) = n + 1
         /\ n \in Nat /\ n + 1 \in Nat /\ n <= n + 1 /\ \A i \in 1..n : i \in 1..(n + 1)
  <1>1. n \in Nat /\ n + 1 \in Nat /\ OfBars(s, n) /\ OfBars(t, n + 1)
    BY DEF Extends
  <1>2. DOMAIN s = 1..n /\ Len(s) = n
    BY <1>1, BarsAreSeq
  <1>3. DOMAIN t = 1..(n + 1) /\ Len(t) = n + 1
    BY <1>1, BarsAreSeq
  <1> QED BY <1>1, <1>2, <1>3

\* A value made of each bar by itself: those of the earlier bars are the same.
LEMMA WholesExtend ==
  ASSUME NEW s, NEW t, NEW n, Extends(s, t, n)
  PROVE  Extends(Wholes(s), Wholes(t), n)
  <1>1. PICK a, b : a = Wholes(s) /\ b = Wholes(t)
    OBVIOUS
  <1>2. a = [i \in 1..n |-> Whole(s[i])] /\ b = [i \in 1..(n + 1) |-> Whole(t[i])]
    BY <1>1, ExtendsDomains DEF Wholes
  <1>3. OfBars(a, n) /\ OfBars(b, n + 1)
    BY <1>2 DEF OfBars
  <1>4. Agree(a, b, n)
    BY <1>2, ExtendsDomains DEF Agree, Extends
  <1> QED BY <1>1, <1>3, <1>4 DEF Extends

LEMMA SMAExtends ==
  ASSUME NEW s, NEW t, NEW n, Extends(s, t, n), NEW p \in Nat, p >= 1
  PROVE  Extends(SMA(s, p), SMA(t, p), n)
  <1>1. \A i \in 1..n : Rolling(s, p, i) = Rolling(t, p, i)
    BY ExtendsDomains, WindowsAgree DEF Extends
  <1>2. PICK a, b : a = SMA(s, p) /\ b = SMA(t, p)
    OBVIOUS
  <1>3. a = [i \in 1..n |-> Mean(Rolling(s, p, i))]
    BY <1>2, ExtendsDomains DEF SMA
  <1>4. b = [i \in 1..(n + 1) |-> Mean(Rolling(t, p, i))]
    BY <1>2, ExtendsDomains DEF SMA
  <1>5. OfBars(a, n) /\ OfBars(b, n + 1)
    BY <1>3, <1>4 DEF OfBars
  <1>6. Agree(a, b, n)
    <2> SUFFICES ASSUME NEW i \in 1..n PROVE a[i] = b[i]
      BY DEF Agree
    <2>1. i \in 1..(n + 1)
      BY ExtendsDomains
    <2>2. a[i] = Mean(Rolling(s, p, i)) /\ b[i] = Mean(Rolling(t, p, i))
      BY <1>3, <1>4, <2>1
    <2> QED BY <1>1, <2>2
  <1> QED BY <1>2, <1>5, <1>6 DEF Extends

LEMMA EMAExtends ==
  ASSUME NEW s, NEW t, NEW n, Extends(s, t, n), NEW p
  PROVE  Extends(EMA(s, p), EMA(t, p), n)
  BY ExtendsDomains, EMAAgrees DEF Extends

LEMMA MACDExtends ==
  ASSUME NEW s, NEW t, NEW n, Extends(s, t, n), NEW fast, NEW slow
  PROVE  Extends(MACDLine(s, fast, slow), MACDLine(t, fast, slow), n)
  <1>1. Extends(Wholes(s), Wholes(t), n)
    BY WholesExtend
  <1>2. PICK fs, ft, ss, st : /\ fs = EMA(Wholes(s), fast) /\ ft = EMA(Wholes(t), fast)
                              /\ ss = EMA(Wholes(s), slow) /\ st = EMA(Wholes(t), slow)
    OBVIOUS
  <1>3. Extends(fs, ft, n) /\ Extends(ss, st, n)
    BY <1>1, <1>2, EMAExtends
  <1>4. PICK a, b : a = MACDLine(s, fast, slow) /\ b = MACDLine(t, fast, slow)
    OBVIOUS
  <1>5. a = [i \in 1..n |-> Minus(fs[i], ss[i])]
    BY <1>2, <1>4, ExtendsDomains DEF MACDLine
  <1>6. b = [i \in 1..(n + 1) |-> Minus(ft[i], st[i])]
    BY <1>2, <1>4, ExtendsDomains DEF MACDLine
  <1>7. OfBars(a, n) /\ OfBars(b, n + 1)
    BY <1>5, <1>6 DEF OfBars
  <1>8. Agree(a, b, n)
    <2> SUFFICES ASSUME NEW i \in 1..n PROVE a[i] = b[i]
      BY DEF Agree
    <2>1. i \in 1..(n + 1)
      BY ExtendsDomains
    <2>2. fs[i] = ft[i] /\ ss[i] = st[i]
      BY <1>3 DEF Extends, Agree
    <2>3. a[i] = Minus(fs[i], ss[i]) /\ b[i] = Minus(ft[i], st[i])
      BY <1>5, <1>6, <2>1
    <2> QED BY <2>2, <2>3
  <1> QED BY <1>4, <1>7, <1>8 DEF Extends

Changes(close, sign) == [i \in 1..Len(close) - 1 |-> Max({0, sign * (close[i + 1] - close[i])})]
RSIValue(g, l, i, p) == IF i <= p \/ g + l = 0 THEN Whole(100) ELSE [n |-> 100 * g, d |-> g + l]

LEMMA RSIIs ==
  ASSUME NEW close, NEW p
  PROVE  RSI(close, p) =
           [i \in DOMAIN close |->
              RSIValue(Smoothed(Changes(close, 1), p)[i - 1],
                       Smoothed(Changes(close, -1), p)[i - 1], i, p)]
  BY DEF RSI, Changes, RSIValue

LEMMA ChangesAgree ==
  ASSUME NEW s, NEW t, NEW n, Extends(s, t, n), NEW sign, NEW p
  PROVE  \A i \in 1..n : Smoothed(Changes(s, sign), p)[i - 1] = Smoothed(Changes(t, sign), p)[i - 1]
  <1>1. PICK c : c = Changes(s, sign)
    OBVIOUS
  <1>2. PICK d : d = Changes(t, sign)
    OBVIOUS
  <1>3. c = [i \in 1..(n - 1) |-> Max({0, sign * (s[i + 1] - s[i])})]
    BY <1>1, ExtendsDomains DEF Changes
  <1>4. d = [i \in 1..n |-> Max({0, sign * (t[i + 1] - t[i])})]
    <2>1. n + 1 - 1 = n
      BY ExtendsDomains
    <2> QED BY <1>2, <2>1, ExtendsDomains DEF Changes
  <1>5. n - 1 \in Nat /\ n \in Nat /\ n - 1 <= n
    BY DEF Extends
  <1>6. \A i \in 1..(n - 1) : s[i + 1] = t[i + 1] /\ s[i] = t[i]
    <2> TAKE i \in 1..(n - 1)
    <2>1. i \in 1..n /\ i + 1 \in 1..n
      BY <1>5
    <2> QED BY <2>1 DEF Extends, Agree
  <1>7. OfBars(c, n - 1) /\ OfBars(d, n)
    BY <1>3, <1>4 DEF OfBars
  <1>8. Agree(c, d, n - 1)
    <2> SUFFICES ASSUME NEW i \in 1..(n - 1) PROVE c[i] = d[i]
      BY DEF Agree
    <2>1. i \in 1..n
      BY <1>5
    <2>2. c[i] = Max({0, sign * (s[i + 1] - s[i])}) /\ d[i] = Max({0, sign * (t[i + 1] - t[i])})
      BY <1>3, <1>4, <2>1
    <2> QED BY <1>6, <2>2
  <1>9. \A i \in 0..(n - 1) : Smoothed(c, p)[i] = Smoothed(d, p)[i]
    BY <1>5, <1>7, <1>8, SmoothedAgrees
  <1>10. \A i \in 1..n : i - 1 \in 0..(n - 1)
    BY <1>5
  <1> QED BY <1>1, <1>2, <1>9, <1>10

LEMMA RSIExtends ==
  ASSUME NEW s, NEW t, NEW n, Extends(s, t, n), NEW p
  PROVE  Extends(RSI(s, p), RSI(t, p), n)
  <1>1. PICK gs, gt, ls, lt : /\ gs = Smoothed(Changes(s, 1), p) /\ gt = Smoothed(Changes(t, 1), p)
                              /\ ls = Smoothed(Changes(s, -1), p) /\ lt = Smoothed(Changes(t, -1), p)
    OBVIOUS
  <1>2. \A i \in 1..n : gs[i - 1] = gt[i - 1] /\ ls[i - 1] = lt[i - 1]
    BY <1>1, ChangesAgree
  <1>3. PICK a, b : a = RSI(s, p) /\ b = RSI(t, p)
    OBVIOUS
  <1>4. a = [i \in 1..n |-> RSIValue(gs[i - 1], ls[i - 1], i, p)]
    BY <1>1, <1>3, RSIIs, ExtendsDomains
  <1>5. b = [i \in 1..(n + 1) |-> RSIValue(gt[i - 1], lt[i - 1], i, p)]
    BY <1>1, <1>3, RSIIs, ExtendsDomains
  <1>6. OfBars(a, n) /\ OfBars(b, n + 1)
    BY <1>4, <1>5 DEF OfBars
  <1>7. Agree(a, b, n)
    <2> SUFFICES ASSUME NEW i \in 1..n PROVE a[i] = b[i]
      BY DEF Agree
    <2>1. i \in 1..(n + 1)
      BY ExtendsDomains
    <2>2. /\ a[i] = RSIValue(gs[i - 1], ls[i - 1], i, p)
          /\ b[i] = RSIValue(gt[i - 1], lt[i - 1], i, p)
      BY <1>4, <1>5, <2>1
    <2> QED BY <1>2, <2>2
  <1> QED BY <1>3, <1>6, <1>7 DEF Extends

LEMMA SidesExtend ==
  ASSUME NEW s, NEW t, NEW n, Extends(s, t, n), NEW u, NEW v, Extends(u, v, n)
  PROVE  Extends(SidesOf(s, u), SidesOf(t, v), n)
  <1>1. PICK a, b : a = SidesOf(s, u) /\ b = SidesOf(t, v)
    OBVIOUS
  <1>2. a = [i \in 1..n |-> SideOf(s[i], u[i])]
    BY <1>1, ExtendsDomains DEF SidesOf
  <1>3. b = [i \in 1..(n + 1) |-> SideOf(t[i], v[i])]
    BY <1>1, ExtendsDomains DEF SidesOf
  <1>4. OfBars(a, n) /\ OfBars(b, n + 1)
    BY <1>2, <1>3 DEF OfBars
  <1>5. Agree(a, b, n)
    <2> SUFFICES ASSUME NEW i \in 1..n PROVE a[i] = b[i]
      BY DEF Agree
    <2>1. i \in 1..(n + 1)
      BY ExtendsDomains
    <2>2. s[i] = t[i] /\ u[i] = v[i]
      BY DEF Extends, Agree
    <2>3. a[i] = SideOf(s[i], u[i]) /\ b[i] = SideOf(t[i], v[i])
      BY <1>2, <1>3, <2>1
    <2> QED BY <2>2, <2>3
  <1> QED BY <1>1, <1>4, <1>5 DEF Extends

\* A crossing is between a bar and the one before it.
CrossingAt(side, before, i) == IF i > 1 /\ side * before = -1 THEN side ELSE 0

LEMMA CrossingsExtend ==
  ASSUME NEW s, NEW t, NEW n, Extends(s, t, n)
  PROVE  Extends(Crossing(s), Crossing(t), n)
  <1>1. PICK a, b : a = Crossing(s) /\ b = Crossing(t)
    OBVIOUS
  <1>2. a = [i \in 1..n |-> CrossingAt(s[i], s[i - 1], i)]
    BY <1>1, ExtendsDomains DEF Crossing, CrossingAt
  <1>3. b = [i \in 1..(n + 1) |-> CrossingAt(t[i], t[i - 1], i)]
    BY <1>1, ExtendsDomains DEF Crossing, CrossingAt
  <1>4. OfBars(a, n) /\ OfBars(b, n + 1)
    BY <1>2, <1>3 DEF OfBars
  <1>5. Agree(a, b, n)
    <2> SUFFICES ASSUME NEW i \in 1..n PROVE a[i] = b[i]
      BY DEF Agree
    <2>1. i \in 1..(n + 1) /\ i \in Nat
      BY ExtendsDomains
    <2>2. s[i] = t[i]
      BY DEF Extends, Agree
    <2>3. a[i] = CrossingAt(s[i], s[i - 1], i) /\ b[i] = CrossingAt(t[i], t[i - 1], i)
      BY <1>2, <1>3, <2>1
    <2>4. CASE i > 1
      <3>1. i - 1 \in 1..n
        BY <2>4, ExtendsDomains
      <3>2. s[i - 1] = t[i - 1]
        BY <3>1 DEF Extends, Agree
      <3> QED BY <2>2, <2>3, <3>2
    <2>5. CASE ~(i > 1)
      BY <2>3, <2>5 DEF CrossingAt
    <2> QED BY <2>4, <2>5
  <1> QED BY <1>1, <1>4, <1>5 DEF Extends

\* A series a bar longer derives, for the bars before, the signals it derived.
LEMMA AveragesSignal ==
  ASSUME NEW s, NEW t, NEW n, Extends(s, t, n), NEW p \in Nat, p >= 1
  PROVE  /\ Extends(SMASignals(s, p), SMASignals(t, p), n)
         /\ Extends(EMASignals(s, p), EMASignals(t, p), n)
  <1>1. Extends(Wholes(s), Wholes(t), n)
    BY WholesExtend
  <1>2. Extends(SMA(s, p), SMA(t, p), n)
    BY SMAExtends
  <1>3. Extends(EMA(Wholes(s), p), EMA(Wholes(t), p), n)
    BY <1>1, EMAExtends
  <1>4. Extends(SMASignals(s, p), SMASignals(t, p), n)
    BY <1>1, <1>2, SidesExtend, CrossingsExtend DEF SMASignals
  <1>5. Extends(EMASignals(s, p), EMASignals(t, p), n)
    BY <1>1, <1>3, SidesExtend, CrossingsExtend DEF EMASignals
  <1> QED BY <1>4, <1>5

LEMMA MACDSignal ==
  ASSUME NEW s, NEW t, NEW n, Extends(s, t, n), NEW ps
  PROVE  Extends(MACDSignals(s, ps), MACDSignals(t, ps), n)
  <1>1. PICK a, b : a = MACDLine(s, ps[1], ps[2]) /\ b = MACDLine(t, ps[1], ps[2])
    OBVIOUS
  <1>2. Extends(a, b, n)
    BY <1>1, MACDExtends
  <1>3. Extends(EMA(a, ps[3]), EMA(b, ps[3]), n)
    BY <1>2, EMAExtends
  <1>4. Extends(Crossing(SidesOf(a, EMA(a, ps[3]))), Crossing(SidesOf(b, EMA(b, ps[3]))), n)
    BY <1>2, <1>3, SidesExtend, CrossingsExtend
  <1> QED BY <1>1, <1>4 DEF MACDSignals

LEMMA MomentumSignal ==
  ASSUME NEW s, NEW t, NEW n, Extends(s, t, n), NEW p \in Nat, p >= 1
  PROVE  Extends(MomentumSignals(s, p), MomentumSignals(t, p), n)
  <1>1. PICK a, b : /\ a = [i \in 1..n |-> MomentumSide(s, p, i)]
                    /\ b = [i \in 1..(n + 1) |-> MomentumSide(t, p, i)]
    OBVIOUS
  <1>2. OfBars(a, n) /\ OfBars(b, n + 1)
    BY <1>1 DEF OfBars
  <1>3. Agree(a, b, n)
    <2> SUFFICES ASSUME NEW i \in 1..n PROVE a[i] = b[i]
      BY DEF Agree
    <2>1. i \in 1..(n + 1) /\ i \in Nat
      BY ExtendsDomains
    <2>2. s[i] = t[i]
      BY DEF Extends, Agree
    <2>3. a[i] = MomentumSide(s, p, i) /\ b[i] = MomentumSide(t, p, i)
      BY <1>1, <2>1
    <2>4. CASE i > p
      <3>1. i - p \in 1..n
        BY <2>4, ExtendsDomains
      <3>2. s[i - p] = t[i - p]
        BY <3>1 DEF Extends, Agree
      <3> QED BY <2>2, <2>3, <3>2 DEF MomentumSide
    <2>5. CASE ~(i > p)
      <3>1. i <= p
        BY <2>1, <2>5
      <3> QED BY <2>3, <3>1 DEF MomentumSide
    <2> QED BY <2>4, <2>5
  <1>4. Extends(a, b, n)
    BY <1>2, <1>3 DEF Extends
  <1>5. MomentumSignals(s, p) = Crossing(a) /\ MomentumSignals(t, p) = Crossing(b)
    BY <1>1, ExtendsDomains DEF MomentumSignals
  <1> QED BY <1>4, <1>5, CrossingsExtend

\* Leaving a zone, by the values of a bar and of the one before it
ZoneLeft(value, before, i) ==
  IF i = 1 THEN 0
  ELSE IF ~Below(before, Whole(Overbought)) /\ Below(value, Whole(Overbought)) THEN -1
  ELSE IF ~Below(Whole(Oversold), before) /\ Below(Whole(Oversold), value) THEN 1 ELSE 0

LEMMA RSISignal ==
  ASSUME NEW s, NEW t, NEW n, Extends(s, t, n), NEW p
  PROVE  Extends(RSISignals(s, p), RSISignals(t, p), n)
  <1>1. PICK f, g : f = RSI(s, p) /\ g = RSI(t, p)
    OBVIOUS
  <1>2. Extends(f, g, n)
    BY <1>1, RSIExtends
  <1>3. PICK a, b : a = RSISignals(s, p) /\ b = RSISignals(t, p)
    OBVIOUS
  <1>4. a = [i \in 1..n |-> ZoneLeft(f[i], f[i - 1], i)]
    BY <1>1, <1>3, ExtendsDomains, Zenon DEF RSISignals, ZoneLeft
  <1>5. b = [i \in 1..(n + 1) |-> ZoneLeft(g[i], g[i - 1], i)]
    BY <1>1, <1>3, ExtendsDomains, Zenon DEF RSISignals, ZoneLeft
  <1>6. OfBars(a, n) /\ OfBars(b, n + 1)
    BY <1>4, <1>5 DEF OfBars
  <1>7. Agree(a, b, n)
    <2> SUFFICES ASSUME NEW i \in 1..n PROVE a[i] = b[i]
      BY DEF Agree
    <2>1. i \in 1..(n + 1) /\ i \in Nat
      BY ExtendsDomains
    <2>2. f[i] = g[i]
      BY <1>2 DEF Extends, Agree
    <2>3. a[i] = ZoneLeft(f[i], f[i - 1], i) /\ b[i] = ZoneLeft(g[i], g[i - 1], i)
      BY <1>4, <1>5, <2>1
    <2>4. CASE i # 1
      <3>1. i - 1 \in 1..n
        BY <2>4, ExtendsDomains
      <3>2. f[i - 1] = g[i - 1]
        BY <1>2, <3>1 DEF Extends, Agree
      <3> QED BY <2>2, <2>3, <3>2
    <2>5. CASE i = 1
      BY <2>3, <2>5 DEF ZoneLeft
    <2> QED BY <2>4, <2>5
  <1> QED BY <1>3, <1>6, <1>7 DEF Extends

\* Where a price lies, by its window
Placed(w, price) ==
  LET k == Len(w)
      off == k * price - SumFunction(w)
      spread == k * SumFunction(Squares(w)) - SumFunction(w) * SumFunction(w)
      outside == off * off * (k - 1) >= Multiplier * Multiplier * k * spread
  IN IF spread = 0 THEN "none"
     ELSE IF outside /\ off > 0 THEN "upper"
     ELSE IF outside /\ off < 0 THEN "lower" ELSE "within"

Reached(before, place, i) ==
  IF i = 1 THEN 0
  ELSE IF place = "lower" /\ before \in {"within", "upper"} THEN 1
  ELSE IF place = "upper" /\ before \in {"within", "lower"} THEN -1 ELSE 0

LEMMA BandSignal ==
  ASSUME NEW s, NEW t, NEW n, Extends(s, t, n), NEW p \in Nat, p >= 1
  PROVE  Extends(BandSignals(s, p), BandSignals(t, p), n)
  <1>1. \A i \in 1..n : Band(s, p, i) = Band(t, p, i)
    <2> TAKE i \in 1..n
    <2>1. Rolling(s, p, i) = Rolling(t, p, i)
      BY ExtendsDomains, WindowsAgree DEF Extends
    <2>2. s[i] = t[i]
      BY DEF Extends, Agree
    <2>3. Band(s, p, i) = Placed(Rolling(s, p, i), s[i])
      BY Zenon DEF Band, Placed
    <2>4. Band(t, p, i) = Placed(Rolling(t, p, i), t[i])
      BY Zenon DEF Band, Placed
    <2> QED BY <2>1, <2>2, <2>3, <2>4
  <1>2. PICK a, b : a = BandSignals(s, p) /\ b = BandSignals(t, p)
    OBVIOUS
  <1>3. a = [i \in 1..n |-> Reached(Band(s, p, i - 1), Band(s, p, i), i)]
    BY <1>2, ExtendsDomains, Zenon DEF BandSignals, Reached
  <1>4. b = [i \in 1..(n + 1) |-> Reached(Band(t, p, i - 1), Band(t, p, i), i)]
    BY <1>2, ExtendsDomains, Zenon DEF BandSignals, Reached
  <1>5. OfBars(a, n) /\ OfBars(b, n + 1)
    BY <1>3, <1>4 DEF OfBars
  <1>6. Agree(a, b, n)
    <2> SUFFICES ASSUME NEW i \in 1..n PROVE a[i] = b[i]
      BY DEF Agree
    <2>1. i \in 1..(n + 1) /\ i \in Nat
      BY ExtendsDomains
    <2>2. a[i] = Reached(Band(s, p, i - 1), Band(s, p, i), i)
      BY <1>3
    <2>3. b[i] = Reached(Band(t, p, i - 1), Band(t, p, i), i)
      BY <1>4, <2>1
    <2>4. CASE i # 1
      <3>1. i - 1 \in 1..n
        BY <2>4, ExtendsDomains
      <3> QED BY <1>1, <2>2, <2>3, <3>1
    <2>5. CASE i = 1
      BY <2>2, <2>3, <2>5 DEF Reached
    <2> QED BY <2>4, <2>5
  <1> QED BY <1>2, <1>5, <1>6 DEF Extends

\* Whatever the indicator, the series a bar longer begins with the same signals.
LEMMA SignalsExtend ==
  ASSUME NEW s, NEW t, NEW n, Extends(s, t, n), NEW kind \in Kinds
  PROVE  IsPrefix(Signals(kind, s), Signals(kind, t))
  <1>1. /\ IndicatorPeriods[kind] \in [1..3 -> Nat \ {0}]
        /\ Period(kind) \in Nat /\ Period(kind) >= 1
    BY IndicatorAssumption DEF Period
  <1>2. \A a, b : Extends(a, b, n) => IsPrefix(a, b)
    BY PrefixIs DEF Extends
  <1>3. CASE kind = "SMA"
    <2>1. Signals(kind, s) = SMASignals(s, Period(kind)) /\ Signals(kind, t) = SMASignals(t, Period(kind))
      BY <1>3 DEF Signals
    <2> QED BY <1>1, <1>2, <2>1, AveragesSignal
  <1>4. CASE kind = "EMA"
    <2>1. Signals(kind, s) = EMASignals(s, Period(kind)) /\ Signals(kind, t) = EMASignals(t, Period(kind))
      BY <1>4 DEF Signals
    <2> QED BY <1>1, <1>2, <2>1, AveragesSignal
  <1>5. CASE kind = "MACD"
    <2>1. /\ Signals(kind, s) = MACDSignals(s, IndicatorPeriods[kind])
          /\ Signals(kind, t) = MACDSignals(t, IndicatorPeriods[kind])
      BY <1>5 DEF Signals
    <2> QED BY <1>2, <2>1, MACDSignal
  <1>6. CASE kind = "RSI"
    <2>1. Signals(kind, s) = RSISignals(s, Period(kind)) /\ Signals(kind, t) = RSISignals(t, Period(kind))
      BY <1>6 DEF Signals
    <2> QED BY <1>2, <2>1, RSISignal
  <1>7. CASE kind = "Momentum"
    <2>1. /\ Signals(kind, s) = MomentumSignals(s, Period(kind))
          /\ Signals(kind, t) = MomentumSignals(t, Period(kind))
      BY <1>7 DEF Signals
    <2> QED BY <1>1, <1>2, <2>1, MomentumSignal
  <1>8. CASE kind = "BollingerBands"
    <2>1. Signals(kind, s) = BandSignals(s, Period(kind)) /\ Signals(kind, t) = BandSignals(t, Period(kind))
      BY <1>8 DEF Signals
    <2> QED BY <1>1, <1>2, <2>1, BandSignal
  <1>9. CASE kind = "ATR"
    <2>1. Signals(kind, s) = <<>> /\ Signals(kind, t) = <<>>
      BY <1>9 DEF Signals
    <2>2. IsPrefix(<<>>, <<>>)
      BY DEF IsPrefix
    <2> QED BY <2>1, <2>2
  <1> QED BY <1>3, <1>4, <1>5, <1>6, <1>7, <1>8, <1>9 DEF Kinds

-----------------------------------------------------------------------------
(* Fractions                                                               *)

\* A number as the indicators have it: its numerator and denominator
IsFraction(x) == x \in [n : Int, d : Nat \ {0}]

\* A common denominator is a multiple of both.
LEMMA CommonIs ==
  ASSUME NEW a, NEW b, IsFraction(a), IsFraction(b)
  PROVE  \E u, v \in Nat : /\ u > 0 /\ v > 0 /\ Common(a, b) = a.d * u /\ Common(a, b) = b.d * v
                           /\ Over(a, Common(a, b)) = a.n * u /\ Over(b, Common(a, b)) = b.n * v
  <1>1. PICK x, y : x = a.d /\ y = b.d
    OBVIOUS
  <1>2. x \in Nat /\ x > 0 /\ y \in Nat /\ y > 0
    BY <1>1 DEF IsFraction
  <1>3. x \div x = 1 /\ y \div y = 1
    BY <1>2
  <1>4. CASE x % y = 0
    <2>1. PICK v \in Nat : x = y * v /\ v = x \div y
      BY <1>2, <1>4
    <2>2. v > 0
      BY <1>2, <2>1
    <2>3. Common(a, b) = x
      BY <1>1, <1>4 DEF Common
    <2>4. Over(a, x) = a.n * 1 /\ Over(b, x) = b.n * v
      BY <1>1, <1>3, <2>1 DEF Over
    <2>5. x = x * 1 /\ 1 > 0
      BY <1>2
    <2>6. /\ 1 > 0 /\ v > 0 /\ Common(a, b) = a.d * 1 /\ Common(a, b) = b.d * v
          /\ Over(a, Common(a, b)) = a.n * 1 /\ Over(b, Common(a, b)) = b.n * v
      BY <1>1, <2>1, <2>2, <2>3, <2>4, <2>5, Zenon
    <2> QED BY <2>6
  <1>5. CASE x % y # 0 /\ y % x = 0
    <2>1. PICK u \in Nat : y = x * u /\ u = y \div x
      BY <1>2, <1>5
    <2>2. u > 0
      BY <1>2, <2>1
    <2>3. Common(a, b) = y
      BY <1>1, <1>5 DEF Common
    <2>4. Over(a, y) = a.n * u /\ Over(b, y) = b.n * 1
      BY <1>1, <1>3, <2>1 DEF Over
    <2>5. y = y * 1 /\ 1 > 0
      BY <1>2
    <2>6. /\ u > 0 /\ 1 > 0 /\ Common(a, b) = a.d * u /\ Common(a, b) = b.d * 1
          /\ Over(a, Common(a, b)) = a.n * u /\ Over(b, Common(a, b)) = b.n * 1
      BY <1>1, <2>1, <2>2, <2>3, <2>4, <2>5, Zenon
    <2> QED BY <2>6
  <1>6. CASE x % y # 0 /\ y % x # 0
    <2>1. Common(a, b) = x * y
      BY <1>1, <1>6 DEF Common
    <2>2. (x * y) \div x = y /\ (x * y) \div y = x /\ x * y = y * x
      BY <1>2
    <2>3. Over(a, x * y) = a.n * y /\ Over(b, x * y) = b.n * x
      BY <1>1, <2>2 DEF Over
    <2> QED BY <1>1, <1>2, <2>1, <2>2, <2>3
  <1> QED BY <1>4, <1>5, <1>6

\* x is v parts of D.
Parts(x, v, D) == IsFraction(x) /\ v \in Int /\ D \in Nat /\ D > 0 /\ x.n * D = v * x.d

\* A factor that is not zero can be left out.
LEMMA Cancels ==
  ASSUME NEW a \in Int, NEW b \in Int, NEW c \in Int, c > 0
  PROVE  (a * c = b * c => a = b) /\ (a * c < b * c <=> a < b)
  OBVIOUS

\* The parts of a sum are the sum of the parts.
LEMMA PlusParts ==
  ASSUME NEW a, NEW b, NEW D, NEW v, NEW w, Parts(a, v, D), Parts(b, w, D)
  PROVE  Parts(Plus(a, b), v + w, D)
  <1>1. PICK x, y, m, k, C : x = a.d /\ y = b.d /\ m = a.n /\ k = b.n /\ C = Common(a, b)
    OBVIOUS
  <1>2. /\ x \in Nat /\ x > 0 /\ y \in Nat /\ y > 0 /\ m \in Int /\ k \in Int
        /\ D \in Nat /\ D > 0 /\ v \in Int /\ w \in Int /\ m * D = v * x /\ k * D = w * y
    BY <1>1 DEF Parts, IsFraction
  <1>3. PICK s, t \in Nat : /\ s > 0 /\ t > 0 /\ C = x * s /\ C = y * t
                            /\ Over(a, C) = m * s /\ Over(b, C) = k * t
    BY <1>1, CommonIs DEF Parts
  <1>4. Plus(a, b) = [n |-> m * s + k * t, d |-> C]
    BY <1>1, <1>3 DEF Plus
  <1>5. C \in Nat /\ C > 0 /\ m * s + k * t \in Int
    BY <1>2, <1>3
  <1>6. (m * s) * D = v * C
    <2>1. (m * s) * D = (m * D) * s
      BY <1>2
    <2>2. (v * x) * s = v * (x * s)
      BY <1>2
    <2> QED BY <1>2, <1>3, <2>1, <2>2
  <1>7. (k * t) * D = w * C
    <2>1. (k * t) * D = (k * D) * t
      BY <1>2
    <2>2. (w * y) * t = w * (y * t)
      BY <1>2
    <2> QED BY <1>2, <1>3, <2>1, <2>2
  <1>8. (m * s + k * t) * D = (v + w) * C
    <2>1. (m * s + k * t) * D = (m * s) * D + (k * t) * D
      BY <1>2
    <2>2. (v + w) * C = v * C + w * C
      BY <1>2, <1>5
    <2> QED BY <1>6, <1>7, <2>1, <2>2
  <1> QED BY <1>2, <1>4, <1>5, <1>8 DEF Parts, IsFraction

\* A number times a fraction has as many more parts.
LEMMA ScaledParts ==
  ASSUME NEW a, NEW D, NEW v, Parts(a, v, D), NEW k \in Int
  PROVE  Parts(Scaled(a, k), k * v, D)
  <1>1. PICK x, m : x = a.d /\ m = a.n
    OBVIOUS
  <1>2. /\ x \in Nat /\ x > 0 /\ m \in Int
        /\ D \in Nat /\ D > 0 /\ v \in Int /\ m * D = v * x
    BY <1>1 DEF Parts, IsFraction
  <1>3. Scaled(a, k) = [n |-> k * m, d |-> x]
    BY <1>1 DEF Scaled, Parts, IsFraction
  <1>4. (k * m) * D = k * (m * D) /\ (k * v) * x = k * (v * x)
    BY <1>2
  <1> QED BY <1>2, <1>3, <1>4 DEF Parts, IsFraction

\* Which of two numbers is smaller their parts say.
LEMMA BelowParts ==
  ASSUME NEW a, NEW b, NEW D, NEW v, NEW w, Parts(a, v, D), Parts(b, w, D)
  PROVE  Below(a, b) <=> v < w
  <1>1. PICK x, y, m, k, C : x = a.d /\ y = b.d /\ m = a.n /\ k = b.n /\ C = Common(a, b)
    OBVIOUS
  <1>2. /\ x \in Nat /\ x > 0 /\ y \in Nat /\ y > 0 /\ m \in Int /\ k \in Int
        /\ D \in Nat /\ D > 0 /\ v \in Int /\ w \in Int /\ m * D = v * x /\ k * D = w * y
    BY <1>1 DEF Parts, IsFraction
  <1>3. PICK s, t \in Nat : /\ s > 0 /\ t > 0 /\ C = x * s /\ C = y * t
                            /\ Over(a, C) = m * s /\ Over(b, C) = k * t
    BY <1>1, CommonIs DEF Parts
  <1>4. Below(a, b) <=> m * s < k * t
    BY <1>1, <1>3 DEF Below
  <1>5. C \in Nat /\ C > 0 /\ m * s \in Int /\ k * t \in Int
    BY <1>2, <1>3
  <1>6. (m * s) * D = v * C
    <2>1. (m * s) * D = (m * D) * s
      BY <1>2
    <2>2. (v * x) * s = v * (x * s)
      BY <1>2
    <2> QED BY <1>2, <1>3, <2>1, <2>2
  <1>7. (k * t) * D = w * C
    <2>1. (k * t) * D = (k * D) * t
      BY <1>2
    <2>2. (w * y) * t = w * (y * t)
      BY <1>2
    <2> QED BY <1>2, <1>3, <2>1, <2>2
  <1>8. m * s < k * t <=> (m * s) * D < (k * t) * D
    BY <1>2, <1>5, Cancels
  <1>9. v * C < w * C <=> v < w
    BY <1>2, <1>5, Cancels
  <1> QED BY <1>4, <1>6, <1>7, <1>8, <1>9

-----------------------------------------------------------------------------
(* Powers                                                                  *)

\* The powers of b up to the k-th
PowersUpTo(h, b, k) == h = [i \in 0..k |-> IF i = 0 THEN 1 ELSE b * h[i - 1]]

\* The powers exist: the smallest exponent without them would have them.
LEMMA PowersExist ==
  ASSUME NEW b, NEW k \in Nat
  PROVE  \E h : PowersUpTo(h, b, k)
  <1> DEFINE Bad == {m \in Nat : ~\E h : PowersUpTo(h, b, m)}
  <1>1. SUFFICES ASSUME Bad # {} PROVE FALSE
    OBVIOUS
  <1>2. PICK m \in Bad : \A j \in Bad : m <= j
    <2> HIDE DEF Bad
    <2>1. Bad \subseteq Nat
      BY DEF Bad
    <2> QED BY <1>1, <2>1, LeastNat
  <1>3. m \in Nat /\ ~\E h : PowersUpTo(h, b, m)
    BY <1>2
  <1>4. m # 0
    <2>1. PICK h : h = [i \in 0..0 |-> 1]
      OBVIOUS
    <2>2. PowersUpTo(h, b, 0)
      BY <2>1 DEF PowersUpTo
    <2> QED BY <1>3, <2>2
  <1>5. m - 1 \in Nat /\ m - 1 \notin Bad
    <2> HIDE DEF Bad
    <2> QED BY <1>2, <1>3, <1>4
  <1>6. PICK h : PowersUpTo(h, b, m - 1)
    BY <1>5
  <1>7. PICK g : g = [i \in 0..m |-> IF i = m THEN b * h[m - 1] ELSE h[i]]
    OBVIOUS
  <1>8. \A i \in 0..(m - 1) : i \in 0..m /\ i # m /\ g[i] = h[i]
    BY <1>3, <1>7
  <1>9. \A i \in 0..m : g[i] = IF i = 0 THEN 1 ELSE b * g[i - 1]
    <2> SUFFICES ASSUME NEW i \in 0..m PROVE g[i] = IF i = 0 THEN 1 ELSE b * g[i - 1]
      OBVIOUS
    <2>1. CASE i = m
      <3>1. g[i] = b * h[m - 1] /\ m - 1 \in 0..(m - 1)
        BY <1>3, <1>5, <1>7, <2>1
      <3>2. g[m - 1] = h[m - 1]
        BY <1>8, <3>1
      <3> QED BY <1>4, <2>1, <3>1, <3>2
    <2>2. CASE i # m
      <3>1. i \in 0..(m - 1) /\ (i # 0 => i - 1 \in 0..(m - 1))
        BY <1>3, <2>2
      <3>2. h[i] = IF i = 0 THEN 1 ELSE b * h[i - 1]
        BY <1>6, <3>1 DEF PowersUpTo
      <3> QED BY <1>8, <3>1, <3>2
    <2> QED BY <2>1, <2>2
  <1>10. PowersUpTo(g, b, m)
    <2>1. g = [i \in 0..m |-> g[i]]
      BY <1>7
    <2> QED BY <1>9, <2>1 DEF PowersUpTo
  <1> QED BY <1>3, <1>10

\* The powers up to two exponents agree as far as both go.
LEMMA PowersAgree ==
  ASSUME NEW b, NEW k \in Nat, NEW m \in Nat, k <= m,
         NEW g, NEW h, PowersUpTo(g, b, k), PowersUpTo(h, b, m)
  PROVE  \A i \in 0..k : g[i] = h[i]
  <1> DEFINE Bad == {i \in 0..k : g[i] # h[i]}
  <1>1. SUFFICES ASSUME Bad # {} PROVE FALSE
    OBVIOUS
  <1>2. PICK i \in Bad : \A j \in Bad : i <= j
    <2>1. Bad \subseteq Nat
      OBVIOUS
    <2> HIDE DEF Bad
    <2> QED BY <1>1, <2>1, LeastNat
  <1>3. i \in 0..k /\ i \in 0..m /\ g[i] # h[i]
    BY <1>2
  <1>4. i # 0 => i - 1 \in 0..k /\ g[i - 1] = h[i - 1]
    BY <1>2, <1>3
  <1>5. g[i] = IF i = 0 THEN 1 ELSE b * g[i - 1]
    BY <1>3 DEF PowersUpTo
  <1>6. h[i] = IF i = 0 THEN 1 ELSE b * h[i - 1]
    BY <1>3 DEF PowersUpTo
  <1> QED BY <1>3, <1>4, <1>5, <1>6

\* Power has the last of them.
LEMMA PowerIs ==
  ASSUME NEW b, NEW k \in Nat
  PROVE  \E h : PowersUpTo(h, b, k) /\ Power(b, k) = h[k]
  <1>1. Power(b, k) = (CHOOSE h : PowersUpTo(h, b, k))[k]
    BY DEF Power, PowersUpTo
  <1>2. PICK h : h = CHOOSE g : PowersUpTo(g, b, k)
    OBVIOUS
  <1>3. PowersUpTo(h, b, k)
    BY <1>2, PowersExist
  <1> QED BY <1>1, <1>2, <1>3

\* What a power is, exponent by exponent
LEMMA PowerZero == ASSUME NEW b PROVE Power(b, 0) = 1
  <1>1. PICK h : PowersUpTo(h, b, 0) /\ Power(b, 0) = h[0]
    BY PowerIs
  <1> QED BY <1>1 DEF PowersUpTo

LEMMA PowerNext ==
  ASSUME NEW b, NEW k \in Nat
  PROVE  Power(b, k + 1) = b * Power(b, k)
  <1>1. PICK g : PowersUpTo(g, b, k) /\ Power(b, k) = g[k]
    BY PowerIs
  <1>2. k + 1 \in Nat
    OBVIOUS
  <1>3. PICK h : PowersUpTo(h, b, k + 1) /\ Power(b, k + 1) = h[k + 1]
    BY <1>2, PowerIs
  <1>4. k \in 0..k /\ k + 1 \in 0..(k + 1) /\ k + 1 # 0 /\ (k + 1) - 1 = k /\ k <= k + 1
    OBVIOUS
  <1>5. g[k] = h[k]
    BY <1>1, <1>2, <1>3, <1>4, PowersAgree
  <1>6. h[k + 1] = b * h[k]
    BY <1>3, <1>4 DEF PowersUpTo
  <1> QED BY <1>1, <1>3, <1>5, <1>6

\* A power of a natural number is one, and positive if the number is.
LEMMA PowerNat ==
  ASSUME NEW b \in Nat, NEW k \in Nat
  PROVE  Power(b, k) \in Nat /\ (b > 0 => Power(b, k) > 0)
  <1> DEFINE Bad == {m \in Nat : ~(Power(b, m) \in Nat /\ (b > 0 => Power(b, m) > 0))}
  <1>1. SUFFICES ASSUME Bad # {} PROVE FALSE
    OBVIOUS
  <1>2. PICK m \in Bad : \A j \in Bad : m <= j
    <2> HIDE DEF Bad
    <2>1. Bad \subseteq Nat
      BY DEF Bad
    <2> QED BY <1>1, <2>1, LeastNat
  <1>3. m \in Nat /\ ~(Power(b, m) \in Nat /\ (b > 0 => Power(b, m) > 0))
    BY <1>2
  <1>4. m # 0
    BY <1>3, PowerZero
  <1>5. m - 1 \in Nat /\ m - 1 \notin Bad
    <2> HIDE DEF Bad
    <2> QED BY <1>2, <1>3, <1>4
  <1>6. Power(b, m - 1) \in Nat /\ (b > 0 => Power(b, m - 1) > 0)
    BY <1>5
  <1>7. Power(b, m) = b * Power(b, m - 1)
    <2>1. Power(b, (m - 1) + 1) = b * Power(b, m - 1)
      BY <1>5, PowerNext
    <2>2. (m - 1) + 1 = m
      BY <1>3
    <2> QED BY <2>1, <2>2
  <1>8. PICK c \in Nat : c = Power(b, m - 1)
    BY <1>6
  <1>9. b * c \in Nat /\ (b > 0 /\ c > 0 => b * c > 0)
    OBVIOUS
  <1> QED BY <1>3, <1>6, <1>7, <1>8, <1>9

\* The powers of two exponents multiply to that of their sum.
LEMMA PowerSum ==
  ASSUME NEW b \in Nat, NEW j \in Nat, NEW k \in Nat
  PROVE  Power(b, j + k) = Power(b, j) * Power(b, k)
  <1> DEFINE Bad == {m \in Nat : Power(b, j + m) # Power(b, j) * Power(b, m)}
  <1>1. SUFFICES ASSUME Bad # {} PROVE FALSE
    OBVIOUS
  <1>2. PICK m \in Bad : \A i \in Bad : m <= i
    <2> HIDE DEF Bad
    <2>1. Bad \subseteq Nat
      BY DEF Bad
    <2> QED BY <1>1, <2>1, LeastNat
  <1>3. m \in Nat /\ Power(b, j + m) # Power(b, j) * Power(b, m)
    BY <1>2
  <1>4. PICK c \in Nat : c = Power(b, j)
    BY PowerNat
  <1>5. m # 0
    <2>1. j + 0 = j /\ c * 1 = c
      OBVIOUS
    <2> QED BY <1>3, <1>4, <2>1, PowerZero
  <1>6. m - 1 \in Nat /\ m - 1 \notin Bad
    <2> HIDE DEF Bad
    <2> QED BY <1>2, <1>3, <1>5
  <1>7. PICK d \in Nat : d = Power(b, m - 1)
    BY <1>6, PowerNat
  <1>8. Power(b, j + (m - 1)) = c * d
    BY <1>4, <1>6, <1>7
  <1>9. Power(b, m) = b * d
    <2>1. (m - 1) + 1 = m
      BY <1>3
    <2> QED BY <1>6, <1>7, <2>1, PowerNext
  <1>10. Power(b, j + m) = b * (c * d)
    <2>1. (j + (m - 1)) + 1 = j + m /\ j + (m - 1) \in Nat
      BY <1>3, <1>6
    <2> QED BY <1>8, <2>1, PowerNext
  <1>11. b * (c * d) = c * (b * d)
    OBVIOUS
  <1> QED BY <1>3, <1>4, <1>9, <1>10, <1>11

-----------------------------------------------------------------------------
(* Exponential averages as fractions                                       *)

\* One step of an exponential average
LEMMA StepIs ==
  ASSUME NEW x \in Int, NEW N \in Int, NEW D \in Nat, D > 0, NEW p \in Nat
  PROVE  EMAStep(Whole(x), [n |-> N, d |-> D], p) =
           [n |-> 2 * x * D + (p - 1) * N, d |-> D * (p + 1)]
  <1>1. PICK a : a = [n |-> 2 * x, d |-> 1]
    OBVIOUS
  <1>2. PICK b : b = [n |-> (p - 1) * N, d |-> D]
    OBVIOUS
  <1>3. Scaled(Whole(x), 2) = a /\ Scaled([n |-> N, d |-> D], p - 1) = b
    BY <1>1, <1>2 DEF Scaled, Whole
  <1>4. Common(a, b) = D
    <2>1. 1 % D = 0 => D = 1
      OBVIOUS
    <2>2. D % 1 = 0
      OBVIOUS
    <2> QED BY <1>1, <1>2, <2>1, <2>2 DEF Common
  <1>5. D \div 1 = D /\ D \div D = 1
    OBVIOUS
  <1>6. Over(a, D) = (2 * x) * D /\ Over(b, D) = ((p - 1) * N) * 1
    BY <1>1, <1>2, <1>5 DEF Over
  <1>7. ((p - 1) * N) * 1 = (p - 1) * N
    OBVIOUS
  <1>8. Plus(a, b) = [n |-> 2 * x * D + (p - 1) * N, d |-> D]
    BY <1>4, <1>6, <1>7 DEF Plus
  <1> QED BY <1>3, <1>8 DEF EMAStep

\* The whole numbers of a series are its prices over one.
LEMMA WholesAre ==
  ASSUME NEW n \in Nat, NEW x, OfBars(x, n)
  PROVE  OfBars(Wholes(x), n) /\ \A i \in 1..n : Wholes(x)[i] = Whole(x[i])
  <1>1. DOMAIN x = 1..n
    BY BarsAreSeq
  <1>2. PICK w : w = Wholes(x)
    OBVIOUS
  <1>3. w = [i \in 1..n |-> Whole(x[i])]
    BY <1>1, <1>2 DEF Wholes
  <1>4. OfBars(w, n) /\ \A i \in 1..n : w[i] = Whole(x[i])
    BY <1>3 DEF OfBars
  <1> QED BY <1>2, <1>4

\* The average e of a series x: numerators over the powers of p + 1
Averages(e, x, n, p) ==
  \A i \in 1..n :
    /\ e[i] = [n |-> e[i].n, d |-> Power(p + 1, i - 1)] /\ e[i].n \in Int
    /\ i = 1 => e[i].n = x[1]
    /\ i > 1 => e[i].n = 2 * x[i] * Power(p + 1, i - 2) + (p - 1) * e[i - 1].n

\* EMA has the averages, each the one before and its value weighed.
LEMMA AveragesAre ==
  ASSUME NEW n \in Nat, NEW x, OfBars(x, n), \A i \in 1..n : x[i] \in Int, NEW p \in Nat
  PROVE  Averages(EMA(Wholes(x), p), x, n, p)
  <1>1. PICK w : w = Wholes(x)
    OBVIOUS
  <1>2. OfBars(w, n) /\ \A i \in 1..n : w[i] = Whole(x[i])
    BY <1>1, WholesAre
  <1>3. PICK e : e = EMA(w, p)
    OBVIOUS
  <1>4. e = [i \in 1..n |-> IF i = 1 THEN w[1] ELSE EMAStep(w[i], e[i - 1], p)]
    BY <1>2, <1>3, EMAUnfolds
  <1> DEFINE Fits(i) == e[i] = [n |-> e[i].n, d |-> Power(p + 1, i - 1)] /\ e[i].n \in Int
  <1>5. ASSUME NEW i \in 1..n, i = 1 PROVE Fits(i) /\ e[i].n = x[1]
    <2>1. e[i] = Whole(x[1])
      BY <1>2, <1>4, <1>5
    <2>2. Power(p + 1, i - 1) = 1
      BY <1>5, PowerZero
    <2>3. x[1] \in Int
      BY <1>5
    <2> QED BY <2>1, <2>2, <2>3 DEF Whole
  <1>6. ASSUME NEW i \in 1..n, i > 1, Fits(i - 1)
        PROVE  Fits(i) /\ e[i].n = 2 * x[i] * Power(p + 1, i - 2) + (p - 1) * e[i - 1].n
    <2>1. PICK N \in Int : N = e[i - 1].n
      BY <1>6
    <2>2. p + 1 \in Nat /\ p + 1 > 0 /\ i - 2 \in Nat /\ (i - 1) - 1 = i - 2 /\ (i - 2) + 1 = i - 1
      BY <1>6
    <2>3. PICK D \in Nat : D = Power(p + 1, i - 2) /\ D > 0
      BY <2>2, PowerNat
    <2>4. e[i - 1] = [n |-> N, d |-> D]
      BY <1>6, <2>1, <2>2, <2>3
    <2>5. e[i] = EMAStep(Whole(x[i]), e[i - 1], p)
      <3>1. e[i] = IF i = 1 THEN w[1] ELSE EMAStep(w[i], e[i - 1], p)
        BY <1>4, <1>6, Zenon
      <3>2. i # 1 /\ w[i] = Whole(x[i])
        BY <1>2, <1>6
      <3> QED BY <3>1, <3>2
    <2>6. PICK y \in Int : y = x[i]
      BY <1>6
    <2>7. e[i] = [n |-> 2 * y * D + (p - 1) * N, d |-> D * (p + 1)]
      BY <2>3, <2>4, <2>5, <2>6, StepIs
    <2>8. Power(p + 1, i - 1) = D * (p + 1)
      <3>1. Power(p + 1, (i - 2) + 1) = (p + 1) * D
        BY <2>2, <2>3, PowerNext
      <3>2. (p + 1) * D = D * (p + 1)
        OBVIOUS
      <3> QED BY <2>2, <3>1, <3>2
    <2>9. 2 * y * D + (p - 1) * N \in Int
      OBVIOUS
    <2>10. e[i].n = 2 * y * D + (p - 1) * N
      BY <2>7
    <2>11. Fits(i)
      BY <2>7, <2>8, <2>9
    <2> QED BY <2>1, <2>3, <2>6, <2>10, <2>11
  <1>7. \A i \in 1..n : Fits(i)
    <2> DEFINE Bad == {i \in 1..n : ~Fits(i)}
    <2> SUFFICES ASSUME Bad # {} PROVE FALSE
      OBVIOUS
    <2>1. PICK i \in Bad : \A j \in Bad : i <= j
      <3> HIDE DEF Bad
      <3>1. Bad \subseteq Nat
        BY DEF Bad
      <3> QED BY <3>1, LeastNat
    <2> HIDE DEF Fits
    <2>2. i \in 1..n /\ ~Fits(i)
      BY <2>1
    <2>3. i # 1
      BY <1>5, <2>2
    <2>4. i > 1 /\ i - 1 \in 1..n /\ ~(i <= i - 1)
      BY <2>2, <2>3
    <2>5. Fits(i - 1)
      BY <2>1, <2>4
    <2> QED BY <1>6, <2>2, <2>4, <2>5
  <1>8. \A i \in 1..n : i > 1 => i - 1 \in 1..n
    OBVIOUS
  <1>9. Averages(e, x, n, p)
    <2> SUFFICES ASSUME NEW i \in 1..n
                 PROVE  /\ Fits(i)
                        /\ i = 1 => e[i].n = x[1]
                        /\ i > 1 => e[i].n = 2 * x[i] * Power(p + 1, i - 2) + (p - 1) * e[i - 1].n
      BY DEF Averages
    <2> HIDE DEF Fits
    <2> QED BY <1>5, <1>6, <1>7, <1>8
  <1> QED BY <1>1, <1>3, <1>9

\* An average is between the least and the largest value.
LEMMA AverageWithin ==
  ASSUME NEW n \in Nat, NEW x, OfBars(x, n), NEW p \in Nat, p >= 1, NEW e, Averages(e, x, n, p),
         NEW lo \in Int, NEW hi \in Int, \A i \in 1..n : x[i] \in Int /\ lo <= x[i] /\ x[i] <= hi
  PROVE  \A i \in 1..n : lo * Power(p + 1, i - 1) <= e[i].n /\ e[i].n <= hi * Power(p + 1, i - 1)
  <1> DEFINE Within(i) == lo * Power(p + 1, i - 1) <= e[i].n /\ e[i].n <= hi * Power(p + 1, i - 1)
             Bad == {i \in 1..n : ~Within(i)}
  <1>1. SUFFICES ASSUME Bad # {} PROVE FALSE
    OBVIOUS
  <1>2. PICK i \in Bad : \A j \in Bad : i <= j
    <2> HIDE DEF Bad
    <2>1. Bad \subseteq Nat
      BY DEF Bad
    <2> QED BY <1>1, <2>1, LeastNat
  <1>3. i \in 1..n /\ ~Within(i)
    BY <1>2
  <1>4. i # 1
    <2>1. SUFFICES ASSUME i = 1 PROVE FALSE
      OBVIOUS
    <2>2. e[i].n = x[1]
      BY <1>3, <2>1 DEF Averages
    <2>4. Power(p + 1, i - 1) = 1
      <3>1. i - 1 = 0
        BY <2>1
      <3> QED BY <3>1, PowerZero
    <2>3. x[1] \in Int /\ lo <= x[1] /\ x[1] <= hi
      BY <1>3, <2>1
    <2>5. lo * 1 = lo /\ hi * 1 = hi
      OBVIOUS
    <2> QED BY <1>3, <2>2, <2>3, <2>4, <2>5
  <1>5. i > 1 /\ i - 1 \in 1..n /\ ~(i <= i - 1) /\ i - 2 \in Nat /\ (i - 1) - 1 = i - 2
        /\ (i - 2) + 1 = i - 1
    BY <1>3, <1>4
  <1>6. Within(i - 1)
    <2> HIDE DEF Within
    <2> QED BY <1>2, <1>5
  <1>7. PICK D \in Nat : D = Power(p + 1, i - 2)
    BY <1>5, PowerNat
  <1>8. Power(p + 1, i - 1) = (p + 1) * D
    BY <1>5, <1>7, PowerNext
  <1>9. PICK N \in Int : N = e[i - 1].n
    BY <1>5 DEF Averages
  <1>10. PICK y \in Int : y = x[i] /\ lo <= y /\ y <= hi
    BY <1>3
  <1>11. e[i].n = 2 * y * D + (p - 1) * N
    BY <1>3, <1>5, <1>7, <1>9, <1>10 DEF Averages
  <1>12. lo * D <= N /\ N <= hi * D
    BY <1>5, <1>6, <1>7, <1>9
  <1>13. (lo * D) * (p - 1) <= N * (p - 1) /\ N * (p - 1) <= (hi * D) * (p - 1)
    BY <1>12
  <1>14. lo * D <= y * D /\ y * D <= hi * D
    BY <1>10
  <1>15. /\ 2 * y * D = 2 * (y * D) /\ (p - 1) * N = N * (p - 1)
         /\ lo * ((p + 1) * D) = 2 * (lo * D) + (lo * D) * (p - 1)
         /\ hi * ((p + 1) * D) = 2 * (hi * D) + (hi * D) * (p - 1)
    OBVIOUS
  <1>16. lo * ((p + 1) * D) <= 2 * y * D + (p - 1) * N
    BY <1>13, <1>14, <1>15
  <1>17. 2 * y * D + (p - 1) * N <= hi * ((p + 1) * D)
    BY <1>13, <1>14, <1>15
  <1> QED BY <1>3, <1>8, <1>11, <1>16, <1>17

\* Two averages that share the last c bars come closer with every one of them.
LEMMA AveragesMeet ==
  ASSUME NEW r \in Nat, NEW c \in Nat, NEW x, OfBars(x, r + c), NEW y, OfBars(y, c),
         \A j \in 1..c : y[j] = x[r + j], NEW p \in Nat, p >= 1,
         NEW e, Averages(e, x, r + c, p), NEW f, Averages(f, y, c, p),
         NEW lo \in Int, NEW hi \in Int,
         \A i \in 1..(r + c) : x[i] \in Int /\ lo <= x[i] /\ x[i] <= hi
  PROVE  \A j \in 1..c :
           /\ e[r + j].n - Power(p + 1, r) * f[j].n <= Power(p - 1, j - 1) * (hi - lo) * Power(p + 1, r)
           /\ Power(p + 1, r) * f[j].n - e[r + j].n <= Power(p - 1, j - 1) * (hi - lo) * Power(p + 1, r)
  <1>1. PICK Q \in Nat : Q = Power(p + 1, r)
    BY PowerNat
  <1> DEFINE Close(j) ==
               /\ e[r + j].n - Q * f[j].n <= Power(p - 1, j - 1) * (hi - lo) * Q
               /\ Q * f[j].n - e[r + j].n <= Power(p - 1, j - 1) * (hi - lo) * Q
             Bad == {j \in 1..c : ~Close(j)}
  <1>2. SUFFICES ASSUME Bad # {} PROVE FALSE
    BY <1>1
  <1>3. PICK j \in Bad : \A k \in Bad : j <= k
    <2> HIDE DEF Bad
    <2>1. Bad \subseteq Nat
      BY DEF Bad
    <2> QED BY <1>2, <2>1, LeastNat
  <1>4. j \in 1..c /\ r + j \in 1..(r + c) /\ ~Close(j)
    BY <1>3
  <1>5. y[j] = x[r + j] /\ x[r + j] \in Int
    BY <1>4
  <1>6. PICK E \in Int, F \in Int : E = e[r + j].n /\ F = f[j].n
    BY <1>4 DEF Averages
  <1>7. j # 1
    <2>1. SUFFICES ASSUME j = 1 PROVE FALSE
      OBVIOUS
    <2>2. F = y[1]
      BY <1>4, <1>6, <2>1 DEF Averages
    <2>3. (r + j) - 1 = r /\ j - 1 = 0
      BY <2>1
    <2>4. lo * Q <= E /\ E <= hi * Q
      <3>1. PICK n \in Nat : n = r + c
        OBVIOUS
      <3>2. \A i \in 1..n : lo * Power(p + 1, i - 1) <= e[i].n /\ e[i].n <= hi * Power(p + 1, i - 1)
        BY <3>1, AverageWithin
      <3> QED BY <1>1, <1>4, <1>6, <2>3, <3>1, <3>2
    <2>5. PICK v \in Int : v = F /\ lo <= v /\ v <= hi
      BY <1>4, <1>5, <2>1, <2>2
    <2>6. lo * Q <= v * Q /\ v * Q <= hi * Q
      BY <2>5
    <2>7. Power(p - 1, j - 1) * (hi - lo) * Q = hi * Q - lo * Q
      <3>1. Power(p - 1, j - 1) = 1
        BY <2>3, PowerZero
      <3>2. 1 * (hi - lo) * Q = hi * Q - lo * Q
        OBVIOUS
      <3> QED BY <3>1, <3>2
    <2>8. Q * v = v * Q
      OBVIOUS
    <2>9. E - Q * v <= hi * Q - lo * Q /\ Q * v - E <= hi * Q - lo * Q
      BY <2>4, <2>6, <2>8
    <2> QED BY <1>4, <1>6, <2>5, <2>7, <2>9
  <1>8. /\ j > 1 /\ j - 1 \in 1..c /\ ~(j <= j - 1) /\ j - 2 \in Nat /\ (j - 1) - 1 = j - 2
        /\ (j - 2) + 1 = j - 1 /\ r + j > 1 /\ (r + j) - 2 = r + (j - 2) /\ (r + j) - 1 = r + (j - 1)
        /\ r + (j - 1) \in 1..(r + c)
    BY <1>4, <1>7
  <1>9. Close(j - 1)
    <2> HIDE DEF Close
    <2> QED BY <1>3, <1>8
  <1>10. PICK D \in Nat : D = Power(p + 1, j - 2)
    BY <1>8, PowerNat
  <1>11. Power(p + 1, (r + j) - 2) = Q * D
    BY <1>1, <1>8, <1>10, PowerSum
  <1>12. PICK M \in Int, N \in Int : M = e[r + (j - 1)].n /\ N = f[j - 1].n
    BY <1>8 DEF Averages
  <1>13. PICK v \in Int : v = y[j]
    BY <1>5
  <1>14. F = 2 * v * D + (p - 1) * N
    BY <1>4, <1>6, <1>8, <1>10, <1>12, <1>13 DEF Averages
  <1>15. E = 2 * v * (Q * D) + (p - 1) * M
    <2>1. e[r + j].n = 2 * x[r + j] * Power(p + 1, (r + j) - 2) + (p - 1) * e[(r + j) - 1].n
      BY <1>4, <1>8 DEF Averages
    <2> QED BY <1>5, <1>6, <1>8, <1>11, <1>12, <1>13, <2>1
  <1>16. p - 1 \in Nat
    OBVIOUS
  <1>17. PICK P \in Nat : P = Power(p - 1, j - 2)
    BY <1>8, <1>16, PowerNat
  <1>18. Power(p - 1, j - 1) = (p - 1) * P
    BY <1>8, <1>16, <1>17, PowerNext
  <1>19. M - Q * N <= P * (hi - lo) * Q /\ Q * N - M <= P * (hi - lo) * Q
    BY <1>8, <1>9, <1>12, <1>17
  <1>20. E - Q * F = (p - 1) * (M - Q * N) /\ Q * F - E = (p - 1) * (Q * N - M)
    <2>1. Q * F = 2 * v * (Q * D) + (p - 1) * (Q * N)
      <3>1. Q * F = Q * (2 * v * D) + Q * ((p - 1) * N)
        BY <1>14
      <3>2. Q * (2 * v * D) = 2 * v * (Q * D) /\ Q * ((p - 1) * N) = (p - 1) * (Q * N)
        OBVIOUS
      <3> QED BY <3>1, <3>2
    <2>2. /\ (p - 1) * (M - Q * N) = (p - 1) * M - (p - 1) * (Q * N)
          /\ (p - 1) * (Q * N - M) = (p - 1) * (Q * N) - (p - 1) * M
      OBVIOUS
    <2> QED BY <1>15, <2>1, <2>2
  <1>21. ((p - 1) * P) * (hi - lo) * Q = (p - 1) * (P * (hi - lo) * Q)
    OBVIOUS
  <1>22. PICK B \in Int : B = P * (hi - lo) * Q
    OBVIOUS
  <1>23. (p - 1) * (M - Q * N) <= (p - 1) * B /\ (p - 1) * (Q * N - M) <= (p - 1) * B
    BY <1>16, <1>19, <1>22
  <1> QED BY <1>4, <1>6, <1>18, <1>20, <1>21, <1>22, <1>23

\* What an average over the last c of r + c bars can be off, over any denominator that
\* serves for both
Off(p, c, spread) == [n |-> Power(p - 1, c - 1) * spread, d |-> Power(p + 1, c - 1)]

\* y is the last c of the r + c bars of x, which lie between lo and hi.
LastOf(x, y, r, c, lo, hi) ==
  /\ r \in Nat /\ c \in Nat /\ c >= 1 /\ lo \in Int /\ hi \in Int
  /\ OfBars(x, r + c) /\ OfBars(y, c) /\ \A j \in 1..c : y[j] = x[r + j]
  /\ \A i \in 1..(r + c) : x[i] \in Int /\ lo <= x[i] /\ x[i] <= hi

\* In parts of D, the averages over all bars and over the last ones differ by no more
\* than Off.
NearEnough(x, y, r, c, lo, hi, p, D) ==
  \E v, w, b \in Int :
     /\ Parts(EMA(Wholes(x), p)[r + c], v, D) /\ Parts(EMA(Wholes(y), p)[c], w, D)
     /\ Parts(Off(p, c, hi - lo), b, D) /\ v - w <= b /\ w - v <= b

\* So they do: they start within hi - lo of each other, and share c - 1 steps.
LEMMA AverageIsOff ==
  ASSUME NEW x, NEW y, NEW r, NEW c, NEW lo, NEW hi, LastOf(x, y, r, c, lo, hi),
         NEW p \in Nat, p >= 1, NEW C \in Nat, C > 0, NEW D, D = Power(p + 1, (r + c) - 1) * C
  PROVE  NearEnough(x, y, r, c, lo, hi, p, D)
  <1> USE DEF LastOf
  <1>1. PICK e, f : e = EMA(Wholes(x), p) /\ f = EMA(Wholes(y), p)
    OBVIOUS
  <1>2. PICK k \in Nat : k = r + c
    OBVIOUS
  <1>3. k \in 1..k /\ c \in 1..c /\ k - 1 \in Nat /\ c - 1 \in Nat /\ k - 1 = r + (c - 1)
    BY <1>2
  <1>4. \A j \in 1..c : r + j \in 1..k
    BY <1>2
  <1>5. \A j \in 1..c : y[j] \in Int
    BY <1>2, <1>4
  <1>6. Averages(e, x, k, p)
    BY <1>1, <1>2, AveragesAre
  <1>7. Averages(f, y, c, p)
    BY <1>1, <1>5, AveragesAre
  <1>8. PICK Q \in Nat, S \in Nat, P \in Nat :
          /\ Q = Power(p + 1, r) /\ Q > 0 /\ S = Power(p + 1, c - 1) /\ S > 0
          /\ P = Power(p - 1, c - 1)
    <2>1. p + 1 \in Nat /\ p + 1 > 0 /\ p - 1 \in Nat
      OBVIOUS
    <2>2. Power(p + 1, r) \in Nat /\ Power(p + 1, r) > 0
      BY <2>1, PowerNat
    <2>3. Power(p + 1, c - 1) \in Nat /\ Power(p + 1, c - 1) > 0
      BY <1>3, <2>1, PowerNat
    <2>4. Power(p - 1, c - 1) \in Nat
      BY <1>3, <2>1, PowerNat
    <2> QED BY <2>2, <2>3, <2>4
  <1>9. Power(p + 1, k - 1) = Q * S
    BY <1>3, <1>8, PowerSum
  <1>10. PICK E \in Int, F \in Int : E = e[k].n /\ F = f[c].n
    BY <1>3, <1>6, <1>7 DEF Averages
  <1>11. e[k] = [n |-> E, d |-> Q * S] /\ f[c] = [n |-> F, d |-> S]
    BY <1>3, <1>6, <1>7, <1>8, <1>9, <1>10 DEF Averages
  <1>12. E - Q * F <= P * (hi - lo) * Q /\ Q * F - E <= P * (hi - lo) * Q
    BY <1>2, <1>3, <1>6, <1>7, <1>8, <1>10, AveragesMeet
  <1>13. D = (Q * S) * C /\ D \in Nat /\ D > 0 /\ Q * S \in Nat /\ Q * S > 0
    BY <1>2, <1>8, <1>9
  <1>14. Parts(e[k], E * C, D)
    <2>1. E * ((Q * S) * C) = (E * C) * (Q * S)
      BY <1>8
    <2> QED BY <1>8, <1>11, <1>13, <2>1 DEF Parts, IsFraction
  <1>15. Parts(f[c], F * (Q * C), D)
    <2>1. F * ((Q * S) * C) = (F * (Q * C)) * S
      BY <1>8
    <2> QED BY <1>8, <1>11, <1>13, <2>1 DEF Parts, IsFraction
  <1>16. PICK G \in Int : G = P * (hi - lo)
    OBVIOUS
  <1>17. Parts(Off(p, c, hi - lo), G * (Q * C), D)
    <2>1. G * ((Q * S) * C) = (G * (Q * C)) * S
      BY <1>8
    <2>2. Off(p, c, hi - lo) = [n |-> G, d |-> S]
      BY <1>8, <1>16 DEF Off
    <2> QED BY <1>8, <1>13, <1>16, <2>1, <2>2 DEF Parts, IsFraction
  <1>18. E * C - F * (Q * C) <= G * (Q * C) /\ F * (Q * C) - E * C <= G * (Q * C)
    <2>1. (E - Q * F) * C <= (G * Q) * C /\ (Q * F - E) * C <= (G * Q) * C
      BY <1>12, <1>16
    <2>2. /\ (E - Q * F) * C = E * C - F * (Q * C) /\ (Q * F - E) * C = F * (Q * C) - E * C
          /\ (G * Q) * C = G * (Q * C)
      OBVIOUS
    <2> QED BY <2>1, <2>2
  <1>19. E * C \in Int /\ F * (Q * C) \in Int /\ G * (Q * C) \in Int
    OBVIOUS
  <1> QED BY <1>1, <1>2, <1>14, <1>15, <1>17, <1>18, <1>19 DEF NearEnough

\* The parts of a difference are the difference of the parts.
LEMMA MinusParts ==
  ASSUME NEW a, NEW b, NEW D, NEW v, NEW w, Parts(a, v, D), Parts(b, w, D)
  PROVE  Parts(Minus(a, b), v - w, D)
  <1>1. v \in Int /\ w \in Int /\ -1 \in Int
    BY DEF Parts
  <1>2. Parts(Scaled(b, -1), (-1) * w, D)
    BY <1>1, ScaledParts
  <1>3. Parts(Plus(a, Scaled(b, -1)), v + (-1) * w, D)
    BY <1>2, PlusParts
  <1>4. v + (-1) * w = v - w
    BY <1>1
  <1> QED BY <1>3, <1>4 DEF Minus

\* The distance of two numbers is no more than a third that their differences are not.
LEMMA DistanceBelow ==
  ASSUME NEW a, NEW b, NEW o, NEW D, NEW v, NEW w, NEW g,
         Parts(a, v, D), Parts(b, w, D), Parts(o, g, D), v - w <= g, w - v <= g
  PROVE  ~Below(o, Distance(a, b))
  <1>1. PICK m : m = Minus(a, b)
    OBVIOUS
  <1>2. Parts(m, v - w, D)
    BY <1>1, MinusParts
  <1>3. v \in Int /\ w \in Int /\ g \in Int /\ D \in Nat /\ D > 0
    BY DEF Parts
  <1>4. PICK n \in Int, d \in Nat : m = [n |-> n, d |-> d] /\ d > 0 /\ n * D = (v - w) * d
    BY <1>2 DEF Parts, IsFraction
  <1>5. Distance(a, b) = [n |-> IF n < 0 THEN -n ELSE n, d |-> d]
    BY <1>1, <1>4 DEF Distance
  <1>6. CASE n < 0
    <2>1. (-n) * D = (w - v) * d /\ -n \in Int
      BY <1>3, <1>4
    <2>2. Parts(Distance(a, b), w - v, D)
      BY <1>3, <1>4, <1>5, <1>6, <2>1 DEF Parts, IsFraction
    <2>3. Below(o, Distance(a, b)) <=> g < w - v
      BY <2>2, BelowParts
    <2> QED BY <1>3, <2>3
  <1>7. CASE ~(n < 0)
    <2>2. Parts(Distance(a, b), v - w, D)
      BY <1>3, <1>4, <1>5, <1>7 DEF Parts, IsFraction
    <2>3. Below(o, Distance(a, b)) <=> g < v - w
      BY <2>2, BelowParts
    <2> QED BY <1>3, <2>3
  <1> QED BY <1>6, <1>7

\* A number is as far from itself as 0 is.
LEMMA NoDistance ==
  ASSUME NEW a, IsFraction(a) PROVE ~Below(Whole(0), Distance(a, a)) /\ Same(a, a)
  <1>1. PICK n \in Int, d \in Nat : a = [n |-> n, d |-> d] /\ d > 0
    BY DEF IsFraction
  <1>2. Parts(a, n, d)
    BY <1>1 DEF Parts, IsFraction
  <1>3. 0 * d = 0 * 1
    OBVIOUS
  <1>4. Parts(Whole(0), 0, d)
    BY <1>1, <1>3 DEF Parts, IsFraction, Whole
  <1>5. n - n <= 0
    OBVIOUS
  <1>6. ~Below(Whole(0), Distance(a, a))
    BY <1>2, <1>4, <1>5, DistanceBelow
  <1>7. ~Below(a, a)
    <2>1. Below(a, a) <=> n < n
      BY <1>2, BelowParts
    <2> QED BY <2>1
  <1> QED BY <1>6, <1>7 DEF Same

\* Two fractions can be counted in the same parts.
LEMMA PartsOf ==
  ASSUME NEW a, NEW b, IsFraction(a), IsFraction(b)
  PROVE  \E D, v, w : Parts(a, v, D) /\ Parts(b, w, D)
  <1>1. PICK x, y, m, k : x = a.d /\ y = b.d /\ m = a.n /\ k = b.n
    OBVIOUS
  <1>2. x \in Nat /\ x > 0 /\ y \in Nat /\ y > 0 /\ m \in Int /\ k \in Int
    BY <1>1 DEF IsFraction
  <1>3. x * y \in Nat /\ x * y > 0 /\ m * y \in Int /\ k * x \in Int
    BY <1>2
  <1>4. m * (x * y) = (m * y) * x /\ k * (x * y) = (k * x) * y
    BY <1>2
  <1>5. Parts(a, m * y, x * y) /\ Parts(b, k * x, x * y)
    BY <1>1, <1>3, <1>4 DEF Parts
  <1> QED BY <1>5

\* A difference of fractions is one, and so is a step of an average.
LEMMA FractionsStay ==
  ASSUME NEW a, NEW b, IsFraction(a), IsFraction(b), NEW p \in Nat
  PROVE  IsFraction(Minus(a, b)) /\ IsFraction(EMAStep(a, b, p))
  <1>1. PICK D, v, w : Parts(a, v, D) /\ Parts(b, w, D)
    BY PartsOf
  <1>2. IsFraction(Minus(a, b))
    BY <1>1, MinusParts DEF Parts
  <1>3. 2 \in Int /\ p - 1 \in Int
    OBVIOUS
  <1>4. Parts(Scaled(a, 2), 2 * v, D) /\ Parts(Scaled(b, p - 1), (p - 1) * w, D)
    BY <1>1, <1>3, ScaledParts
  <1>5. PICK s : s = Plus(Scaled(a, 2), Scaled(b, p - 1))
    OBVIOUS
  <1>6. IsFraction(s)
    BY <1>4, <1>5, PlusParts DEF Parts
  <1>7. PICK n \in Int, d \in Nat : s = [n |-> n, d |-> d] /\ d > 0
    BY <1>6 DEF IsFraction
  <1>8. EMAStep(a, b, p) = [n |-> n, d |-> d * (p + 1)]
    BY <1>5, <1>7 DEF EMAStep
  <1>9. d * (p + 1) \in Nat /\ d * (p + 1) > 0
    BY <1>7
  <1> QED BY <1>2, <1>8, <1>9 DEF IsFraction

\* An exponential average of fractions is a fraction.
LEMMA EMAFractions ==
  ASSUME NEW n \in Nat, NEW s, OfBars(s, n), \A i \in 1..n : IsFraction(s[i]), NEW p \in Nat
  PROVE  \A i \in 1..n : IsFraction(EMA(s, p)[i])
  <1>1. PICK e : e = EMA(s, p)
    OBVIOUS
  <1>2. e = [i \in 1..n |-> IF i = 1 THEN s[1] ELSE EMAStep(s[i], e[i - 1], p)]
    BY <1>1, EMAUnfolds
  <1> DEFINE Bad == {i \in 1..n : ~IsFraction(e[i])}
  <1>3. SUFFICES ASSUME Bad # {} PROVE FALSE
    BY <1>1
  <1>4. PICK i \in Bad : \A j \in Bad : i <= j
    <2> HIDE DEF Bad
    <2>1. Bad \subseteq Nat
      BY DEF Bad
    <2> QED BY <1>3, <2>1, LeastNat
  <1>5. i \in 1..n /\ ~IsFraction(e[i]) /\ IsFraction(s[i])
    BY <1>4
  <1>6. e[i] = IF i = 1 THEN s[1] ELSE EMAStep(s[i], e[i - 1], p)
    BY <1>2, <1>5, Zenon
  <1>7. i # 1
    BY <1>5, <1>6
  <1>8. i - 1 \in 1..n /\ ~(i <= i - 1)
    BY <1>5, <1>7
  <1>9. IsFraction(e[i - 1])
    BY <1>4, <1>8
  <1> QED BY <1>5, <1>6, <1>7, <1>9, FractionsStay

\* The line of MACD is the difference of two averages.
LEMMA LineIs ==
  ASSUME NEW n \in Nat, NEW x, OfBars(x, n), \A i \in 1..n : x[i] \in Int,
         NEW fast \in Nat, NEW slow \in Nat
  PROVE  /\ OfBars(MACDLine(x, fast, slow), n)
         /\ \A i \in 1..n :
              /\ IsFraction(EMA(Wholes(x), fast)[i]) /\ IsFraction(EMA(Wholes(x), slow)[i])
              /\ MACDLine(x, fast, slow)[i] = Minus(EMA(Wholes(x), fast)[i], EMA(Wholes(x), slow)[i])
              /\ IsFraction(MACDLine(x, fast, slow)[i])
  <1>1. PICK a, b, l : a = EMA(Wholes(x), fast) /\ b = EMA(Wholes(x), slow) /\ l = MACDLine(x, fast, slow)
    OBVIOUS
  <1>2. DOMAIN x = 1..n
    BY BarsAreSeq
  <1>3. l = [i \in 1..n |-> Minus(a[i], b[i])]
    BY <1>1, <1>2 DEF MACDLine
  <1>4. OfBars(Wholes(x), n) /\ \A i \in 1..n : IsFraction(Wholes(x)[i])
    <2>1. ASSUME NEW v \in Int PROVE IsFraction(Whole(v))
      BY DEF IsFraction, Whole
    <2> QED BY <2>1, WholesAre
  <1>5. \A i \in 1..n : IsFraction(a[i]) /\ IsFraction(b[i])
    BY <1>1, <1>4, EMAFractions
  <1>6. OfBars(l, n) /\ \A i \in 1..n : l[i] = Minus(a[i], b[i])
    BY <1>3 DEF OfBars
  <1>7. \A i \in 1..n : IsFraction(l[i])
    BY <1>5, <1>6, FractionsStay
  <1> QED BY <1>1, <1>5, <1>6, <1>7

\* An average and a MACD over the last c bars are off by no more than what the bars
\* before can weigh.
LEMMA LastBarsAreClose ==
  ASSUME NEW x, NEW y, NEW r, NEW c, NEW lo, NEW hi, LastOf(x, y, r, c, lo, hi),
         NEW p \in Nat, p >= 1, NEW q \in Nat, q >= 1
  PROVE  /\ ~Below(Off(p, c, hi - lo), Distance(EMA(Wholes(y), p)[c], EMA(Wholes(x), p)[r + c]))
         /\ ~Below(Plus(Off(p, c, hi - lo), Off(q, c, hi - lo)),
                   Distance(MACDLine(y, p, q)[c], MACDLine(x, p, q)[r + c]))
  <1>1. PICK k \in Nat : k = r + c /\ k >= 1
    BY DEF LastOf
  <1>2. k - 1 \in Nat /\ c \in 1..c /\ k \in 1..k /\ \A j \in 1..c : r + j \in 1..k
    BY <1>1 DEF LastOf
  <1>3. \A j \in 1..c : y[j] \in Int
    BY <1>1, <1>2 DEF LastOf
  <1>4. PICK S \in Nat : S = Power(p + 1, k - 1) /\ S > 0
    <2>1. p + 1 \in Nat /\ p + 1 > 0
      OBVIOUS
    <2>2. Power(p + 1, k - 1) \in Nat /\ Power(p + 1, k - 1) > 0
      BY <1>2, <2>1, PowerNat
    <2> QED BY <2>2
  <1>5. PICK T \in Nat : T = Power(q + 1, k - 1) /\ T > 0
    <2>1. q + 1 \in Nat /\ q + 1 > 0
      OBVIOUS
    <2>2. Power(q + 1, k - 1) \in Nat /\ Power(q + 1, k - 1) > 0
      BY <1>2, <2>1, PowerNat
    <2> QED BY <2>2
  <1>6. PICK D : D = S * T
    OBVIOUS
  <1>7. D = T * S
    BY <1>6
  <1>8. D = Power(p + 1, (r + c) - 1) * T /\ D = Power(q + 1, (r + c) - 1) * S
    BY <1>1, <1>4, <1>5, <1>6, <1>7
  <1>9. PICK v \in Int, w \in Int, b \in Int :
          /\ Parts(EMA(Wholes(x), p)[r + c], v, D) /\ Parts(EMA(Wholes(y), p)[c], w, D)
          /\ Parts(Off(p, c, hi - lo), b, D) /\ v - w <= b /\ w - v <= b
    <2>1. NearEnough(x, y, r, c, lo, hi, p, D)
      BY <1>5, <1>8, AverageIsOff
    <2> QED BY <2>1 DEF NearEnough
  <1>10. PICK vq \in Int, wq \in Int, bq \in Int :
          /\ Parts(EMA(Wholes(x), q)[r + c], vq, D) /\ Parts(EMA(Wholes(y), q)[c], wq, D)
          /\ Parts(Off(q, c, hi - lo), bq, D) /\ vq - wq <= bq /\ wq - vq <= bq
    <2>1. NearEnough(x, y, r, c, lo, hi, q, D)
      BY <1>4, <1>8, AverageIsOff
    <2> QED BY <2>1 DEF NearEnough
  <1>11. ~Below(Off(p, c, hi - lo), Distance(EMA(Wholes(y), p)[c], EMA(Wholes(x), p)[r + c]))
    BY <1>9, DistanceBelow
  <1>12. /\ MACDLine(x, p, q)[k] = Minus(EMA(Wholes(x), p)[k], EMA(Wholes(x), q)[k])
         /\ MACDLine(y, p, q)[c] = Minus(EMA(Wholes(y), p)[c], EMA(Wholes(y), q)[c])
    BY <1>1, <1>2, <1>3, LineIs DEF LastOf
  <1>13. Parts(MACDLine(x, p, q)[k], v - vq, D) /\ Parts(MACDLine(y, p, q)[c], w - wq, D)
    BY <1>1, <1>9, <1>10, <1>12, MinusParts
  <1>14. Parts(Plus(Off(p, c, hi - lo), Off(q, c, hi - lo)), b + bq, D)
    BY <1>9, <1>10, PlusParts
  <1>15. (v - vq) - (w - wq) <= b + bq /\ (w - wq) - (v - vq) <= b + bq
    BY <1>9, <1>10
  <1>16. ~Below(Plus(Off(p, c, hi - lo), Off(q, c, hi - lo)),
                Distance(MACDLine(y, p, q)[c], MACDLine(x, p, q)[k]))
    BY <1>13, <1>14, <1>15, DistanceBelow
  <1> QED BY <1>1, <1>11, <1>16

-----------------------------------------------------------------------------
(* RSI, and windows moved along a series                                   *)

\* What is smoothed is zero as long as there was nothing to smooth.
LEMMA SmoothedZero ==
  ASSUME NEW m \in Nat, NEW s, OfBars(s, m), \A i \in 1..m : s[i] \in Nat, NEW p \in Nat, p >= 2
  PROVE  \A i \in 0..m : /\ Smoothed(s, p)[i] \in Nat
                         /\ Smoothed(s, p)[i] = 0 <=> \A j \in 1..i : s[j] = 0
  <1>1. PICK e : e = Smoothed(s, p)
    OBVIOUS
  <1>2. e = [i \in 0..m |-> IF i = 0 THEN 0 ELSE SmoothStep(s[i], e[i - 1], p, i)]
    BY <1>1, SmoothedUnfolds
  <1> DEFINE Fits(i) == e[i] \in Nat /\ (e[i] = 0 <=> \A j \in 1..i : s[j] = 0)
             Bad == {i \in 0..m : ~Fits(i)}
  <1>3. SUFFICES ASSUME Bad # {} PROVE FALSE
    BY <1>1
  <1>4. PICK i \in Bad : \A j \in Bad : i <= j
    <2> HIDE DEF Bad
    <2>1. Bad \subseteq Nat
      BY DEF Bad
    <2> QED BY <1>3, <2>1, LeastNat
  <1>5. i \in 0..m /\ ~Fits(i)
    BY <1>4
  <1>6. e[i] = IF i = 0 THEN 0 ELSE SmoothStep(s[i], e[i - 1], p, i)
    BY <1>2, <1>5, Zenon
  <1>7. i # 0
    <2>1. i = 0 => e[i] = 0 /\ \A j \in 1..i : s[j] = 0
      BY <1>6
    <2> QED BY <1>5, <2>1
  <1>8. i \in 1..m /\ i \in Nat /\ i - 1 \in 0..m /\ ~(i <= i - 1)
    BY <1>5, <1>7
  <1>9. Fits(i - 1)
    <2> HIDE DEF Fits
    <2> QED BY <1>4, <1>8
  <1>10. PICK P \in Nat : P = Power(p, i) /\ P > 0
    <2>1. p > 0
      OBVIOUS
    <2> QED BY <1>8, <2>1, PowerNat
  <1>11. PICK f \in Nat, v \in Nat : f = e[i - 1] /\ v = s[i]
    BY <1>8, <1>9
  <1>12. e[i] = P * v + (p - 1) * f
    BY <1>6, <1>7, <1>10, <1>11 DEF SmoothStep
  <1>13. P * v \in Nat /\ (p - 1) * f \in Nat /\ (P * v = 0 <=> v = 0) /\ ((p - 1) * f = 0 <=> f = 0)
    <2>1. P * v \in Nat /\ (v # 0 => P * v > 0) /\ P * 0 = 0
      BY <1>10
    <2>2. (p - 1) * f \in Nat /\ (f # 0 => (p - 1) * f > 0) /\ (p - 1) * 0 = 0
      OBVIOUS
    <2> QED BY <2>1, <2>2
  <1>14. e[i] \in Nat /\ (e[i] = 0 <=> v = 0 /\ f = 0)
    BY <1>12, <1>13
  <1>15. (\A j \in 1..i : s[j] = 0) <=> (v = 0 /\ \A j \in 1..(i - 1) : s[j] = 0)
    <2>1. \A j \in 1..i : j = i \/ j \in 1..(i - 1)
      BY <1>8
    <2>2. i \in 1..i /\ \A j \in 1..(i - 1) : j \in 1..i
      BY <1>8
    <2> QED BY <1>11, <2>1, <2>2
  <1> QED BY <1>5, <1>9, <1>11, <1>14, <1>15

\* The gains and losses that RSI smooths
LEMMA ChangesAre ==
  ASSUME NEW c \in Nat, c >= 1, NEW y, OfBars(y, c), \A j \in 1..c : y[j] \in Int,
         NEW sign \in {-1, 1}
  PROVE  /\ OfBars(Changes(y, sign), c - 1)
         /\ \A i \in 1..(c - 1) :
              Changes(y, sign)[i] \in Nat /\ (Changes(y, sign)[i] = 0 <=> sign * (y[i + 1] - y[i]) <= 0)
  <1>1. PICK d : d = Changes(y, sign)
    OBVIOUS
  <1>2. Len(y) = c
    BY BarsAreSeq
  <1>3. d = [i \in 1..(c - 1) |-> Max({0, sign * (y[i + 1] - y[i])})]
    BY <1>1, <1>2 DEF Changes
  <1>4. ASSUME NEW v \in Int PROVE Max({0, v}) \in Nat /\ (Max({0, v}) = 0 <=> v <= 0)
    <2>1. Max({0, v}) = IF v <= 0 THEN 0 ELSE v
      BY DEF Max
    <2> QED BY <2>1
  <1>5. ASSUME NEW i \in 1..(c - 1)
        PROVE  d[i] \in Nat /\ (d[i] = 0 <=> sign * (y[i + 1] - y[i]) <= 0)
    <2>1. i \in 1..c /\ i + 1 \in 1..c
      OBVIOUS
    <2>2. PICK a \in Int, b \in Int : a = y[i] /\ b = y[i + 1]
      BY <2>1
    <2>3. sign * (b - a) \in Int
      OBVIOUS
    <2>4. d[i] = Max({0, sign * (b - a)})
      BY <1>3, <2>2
    <2> QED BY <1>4, <2>2, <2>3, <2>4
  <1>6. OfBars(d, c - 1)
    BY <1>3 DEF OfBars
  <1> QED BY <1>1, <1>5, <1>6

\* Once it is defined, RSI is between 0 and 100, and 100 when no price fell.
LEMMA RSIWithin ==
  ASSUME NEW c \in Nat, c >= 1, NEW y, OfBars(y, c), \A j \in 1..c : y[j] \in Int,
         NEW p \in Nat, p >= 2, p < c
  PROVE  /\ IsFraction(RSI(y, p)[c])
         /\ ~Below(RSI(y, p)[c], Whole(0)) /\ ~Below(Whole(100), RSI(y, p)[c])
         /\ Same(RSI(y, p)[c], Whole(100)) <=> \A i \in 2..c : y[i - 1] <= y[i]
  <1>1. PICK v : v = RSI(y, p)[c]
    OBVIOUS
  <1>2. c - 1 \in Nat /\ c - 1 \in 0..(c - 1) /\ c \in 1..c /\ ~(c <= p)
    OBVIOUS
  <1>3. DOMAIN y = 1..c
    BY BarsAreSeq
  <1>4. PICK up, down : up = Changes(y, 1) /\ down = Changes(y, -1)
    OBVIOUS
  <1>5. OfBars(up, c - 1) /\ \A i \in 1..(c - 1) : up[i] \in Nat
    BY <1>4, ChangesAre
  <1>6. /\ OfBars(down, c - 1)
        /\ \A i \in 1..(c - 1) : down[i] \in Nat /\ (down[i] = 0 <=> (-1) * (y[i + 1] - y[i]) <= 0)
    BY <1>4, ChangesAre
  <1>7. PICK g \in Nat : g = Smoothed(up, p)[c - 1]
    BY <1>2, <1>5, SmoothedZero
  <1>8. PICK l \in Nat : l = Smoothed(down, p)[c - 1] /\ (l = 0 <=> \A j \in 1..(c - 1) : down[j] = 0)
    BY <1>2, <1>6, SmoothedZero
  <1>9. v = RSIValue(g, l, c, p)
    BY <1>1, <1>2, <1>3, <1>4, <1>7, <1>8, RSIIs
  <1>10. v = IF g + l = 0 THEN Whole(100) ELSE [n |-> 100 * g, d |-> g + l]
    BY <1>2, <1>9 DEF RSIValue
  <1>11. l = 0 <=> \A i \in 2..c : y[i - 1] <= y[i]
    <2>1. ASSUME NEW i \in 2..c
          PROVE  i - 1 \in 1..(c - 1) /\ (down[i - 1] = 0 <=> y[i - 1] <= y[i])
      <3>1. i - 1 \in 1..(c - 1) /\ (i - 1) + 1 = i /\ i \in 1..c /\ i - 1 \in 1..c
        OBVIOUS
      <3>2. PICK a \in Int, b \in Int : a = y[i - 1] /\ b = y[i]
        BY <3>1
      <3>3. (-1) * (b - a) <= 0 <=> a <= b
        OBVIOUS
      <3> QED BY <1>6, <3>1, <3>2, <3>3
    <2>2. ASSUME NEW j \in 1..(c - 1) PROVE j + 1 \in 2..c /\ (j + 1) - 1 = j
      OBVIOUS
    <2> QED BY <1>8, <2>1, <2>2
  <1>12. PICK n \in Nat, d \in Nat : /\ v = [n |-> n, d |-> d] /\ d > 0
                                     /\ n <= 100 * d /\ (n = 100 * d <=> l = 0)
    <2>1. CASE g + l = 0
      <3>1. v = [n |-> 100, d |-> 1] /\ l = 0
        BY <1>10, <2>1 DEF Whole
      <3>2. 100 \in Nat /\ 1 \in Nat /\ 1 > 0 /\ 100 = 100 * 1
        OBVIOUS
      <3> QED BY <3>1, <3>2
    <2>2. CASE g + l # 0
      <3>1. v = [n |-> 100 * g, d |-> g + l]
        BY <1>10, <2>2
      <3>2. /\ 100 * g \in Nat /\ g + l \in Nat /\ g + l > 0 /\ 100 * g <= 100 * (g + l)
            /\ 100 * g = 100 * (g + l) <=> l = 0
        BY <2>2
      <3> QED BY <3>1, <3>2
    <2> QED BY <2>1, <2>2
  <1>13. Parts(v, n, d)
    BY <1>12 DEF Parts, IsFraction
  <1>14. Parts(Whole(0), 0, d)
    BY <1>12 DEF Parts, IsFraction, Whole
  <1>15. Parts(Whole(100), 100 * d, d)
    <2>1. 100 * d = (100 * d) * 1 /\ 100 * d \in Int
      BY <1>12
    <2> QED BY <1>12, <2>1 DEF Parts, IsFraction, Whole
  <1>16. Below(v, Whole(0)) <=> n < 0
    BY <1>13, <1>14, BelowParts
  <1>17. Below(Whole(100), v) <=> 100 * d < n
    BY <1>13, <1>15, BelowParts
  <1>18. Below(v, Whole(100)) <=> n < 100 * d
    BY <1>13, <1>15, BelowParts
  <1>19. ~Below(v, Whole(0)) /\ ~Below(Whole(100), v)
    BY <1>12, <1>16, <1>17
  <1>20. Same(v, Whole(100)) <=> l = 0
    BY <1>12, <1>17, <1>18 DEF Same
  <1>21. IsFraction(v)
    BY <1>13 DEF Parts
  <1> QED BY <1>1, <1>11, <1>19, <1>20, <1>21

\* A sum over a window is the sum over the bars it is of.
LEMMA SumMoves ==
  ASSUME NEW a \in Nat, NEW m \in Nat, NEW w, NEW x, \A j \in 1..m : w[j] = x[a + j] /\ w[j] \in Int
  PROVE  SumFunctionOnSet(w, 1..m) = SumFunctionOnSet(x, (a + 1)..(a + m))
  <1> DEFINE Equal(k) == SumFunctionOnSet(w, 1..k) = SumFunctionOnSet(x, (a + 1)..(a + k))
             Bad == {k \in 0..m : ~Equal(k)}
  <1>1. SUFFICES ASSUME Bad # {} PROVE FALSE
    <2>1. m \in 0..m
      OBVIOUS
    <2> QED BY <2>1
  <1>2. PICK k \in Bad : \A j \in Bad : k <= j
    <2> HIDE DEF Bad
    <2>1. Bad \subseteq Nat
      BY DEF Bad
    <2> QED BY <1>1, <2>1, LeastNat
  <1>3. k \in 0..m /\ ~Equal(k)
    BY <1>2
  <1>4. k # 0
    <2>1. 1..0 = {} /\ (a + 1)..(a + 0) = {}
      OBVIOUS
    <2>2. Equal(0)
      BY <2>1, SumEmpty
    <2> QED BY <1>3, <2>2
  <1>5. k - 1 \in 0..m /\ ~(k <= k - 1) /\ k \in 1..m
    BY <1>3, <1>4
  <1>6. Equal(k - 1)
    <2> HIDE DEF Equal
    <2> QED BY <1>2, <1>5
  <1>7. PICK S, T : S = 1..(k - 1) /\ T = (a + 1)..(a + (k - 1))
    OBVIOUS
  <1>8. 1..k = S \cup {k} /\ k \notin S /\ (a + 1)..(a + k) = T \cup {a + k} /\ a + k \notin T
    BY <1>3, <1>5, <1>7
  <1>9. IsFiniteSet(S) /\ IsFiniteSet(T)
    BY <1>3, <1>5, <1>7, FS_Interval
  <1>10. \A j \in S \cup {k} : w[j] \in Int
    BY <1>3, <1>5, <1>7
  <1>11. \A j \in T \cup {a + k} : x[j] \in Int
    <2> SUFFICES ASSUME NEW j \in T \cup {a + k} PROVE x[j] \in Int
      OBVIOUS
    <2>1. j - a \in 1..m /\ a + (j - a) = j
      BY <1>3, <1>5, <1>7
    <2> QED BY <2>1
  <1>12. SumFunctionOnSet(w, S \cup {k}) = SumFunctionOnSet(w, S) + w[k]
    <2>1. IsFiniteSet(S) /\ k \notin S
      BY <1>8, <1>9
    <2> QED BY <1>10, <2>1, SumAdd, Zenon
  <1>13. SumFunctionOnSet(x, T \cup {a + k}) = SumFunctionOnSet(x, T) + x[a + k]
    <2>1. PICK i : i = a + k
      OBVIOUS
    <2>2. IsFiniteSet(T) /\ i \notin T /\ \A j \in T \cup {i} : x[j] \in Int
      BY <1>8, <1>9, <1>11, <2>1
    <2>3. SumFunctionOnSet(x, T \cup {i}) = SumFunctionOnSet(x, T) + x[i]
      BY <2>2, SumAdd, Zenon
    <2> QED BY <2>1, <2>3
  <1>14. w[k] = x[a + k]
    BY <1>5
  <1> QED BY <1>3, <1>6, <1>7, <1>8, <1>12, <1>13, <1>14

-----------------------------------------------------------------------------
(* A node and the prices it keeps                                          *)

\* Prices have a least and a largest.
LEMMA PricesWithin ==
  ASSUME NEW x \in Seq(Nat), Len(x) >= 1
  PROVE  /\ Min(ToSet(x)) \in Nat /\ Max(ToSet(x)) \in Nat
         /\ \A i \in 1..Len(x) : Min(ToSet(x)) <= x[i] /\ x[i] <= Max(ToSet(x))
  <1>1. PICK k \in Nat : k = Len(x) /\ k >= 1
    OBVIOUS
  <1>2. \A i \in 1..k : x[i] \in Nat
    BY <1>1
  <1> DEFINE Bounded(m) == \E b \in Nat : \A i \in 1..m : x[i] <= b
             Bad == {m \in 0..k : ~Bounded(m)}
  <1>3. Bounded(k)
    <2>1. SUFFICES ASSUME Bad # {} PROVE FALSE
      <3>1. k \in 0..k
        BY <1>1
      <3> QED BY <3>1
    <2>2. PICK m \in Bad : \A j \in Bad : m <= j
      <3> HIDE DEF Bad
      <3>1. Bad \subseteq Nat
        BY DEF Bad
      <3> QED BY <2>1, <3>1, LeastNat
    <2>3. m \in 0..k /\ ~Bounded(m)
      BY <2>2
    <2>4. m # 0
      <3>1. \A i \in 1..0 : x[i] <= 0
        OBVIOUS
      <3> QED BY <2>3, <3>1
    <2>5. m - 1 \in 0..k /\ m \in 1..k /\ ~(m <= m - 1)
      BY <1>1, <2>3, <2>4
    <2>6. Bounded(m - 1)
      <3> HIDE DEF Bounded
      <3> QED BY <2>2, <2>5
    <2>7. PICK b \in Nat : \A i \in 1..(m - 1) : x[i] <= b
      BY <2>6
    <2>8. PICK v \in Nat : v = x[m]
      BY <1>2, <2>5
    <2>9. \A i \in 1..m : i \in 1..(m - 1) \/ i = m
      BY <2>5
    <2>10. ASSUME NEW i \in 1..m PROVE x[i] <= b + v
      <3>1. i \in 1..k
        BY <2>5
      <3>2. PICK u \in Nat : u = x[i]
        BY <1>2, <3>1
      <3>3. u <= b \/ u = v
        BY <2>7, <2>8, <2>9, <3>2
      <3>4. u <= b + v
        BY <3>3
      <3> QED BY <3>2, <3>4
    <2>11. b + v \in Nat
      OBVIOUS
    <2> QED BY <2>3, <2>10, <2>11
  <1>4. PICK b \in Nat : \A i \in 1..k : x[i] <= b
    BY <1>3
  <1>5. PICK T : T = ToSet(x)
    OBVIOUS
  <1>6. /\ T \subseteq Nat /\ T # {} /\ \A v \in T : v <= b
        /\ \A i \in 1..k : x[i] \in T
    BY <1>1, <1>2, <1>4, <1>5 DEF ToSet
  <1>7. PICK hi \in T : \A v \in T : v <= hi
    BY <1>6, GreatestNat
  <1>8. PICK lo \in T : \A v \in T : lo <= v
    BY <1>6, LeastNat
  <1>9. Max(T) \in T /\ \A v \in T : Max(T) >= v
    <2>1. \A v \in T : hi >= v
      BY <1>6, <1>7
    <2> QED BY <2>1 DEF Max
  <1>10. Min(T) \in T /\ \A v \in T : Min(T) <= v
    BY <1>8 DEF Min
  <1>11. \A v \in T : v <= Max(T)
    BY <1>6, <1>9
  <1> QED BY <1>1, <1>5, <1>6, <1>9, <1>10, <1>11

\* A node keeps at least twice as many prices as the longest of its periods.
LEMMA CapIs ==
  ASSUME indicator \in DOMAIN IndicatorPeriods
  PROVE  /\ Cap \in Nat
         /\ \A j \in 1..3 : /\ IndicatorPeriods[indicator][j] \in Nat
                            /\ IndicatorPeriods[indicator][j] >= 1
                            /\ 2 * IndicatorPeriods[indicator][j] <= Cap
  <1>1. PICK ps : ps = IndicatorPeriods[indicator]
    OBVIOUS
  <1>2. \A j \in 1..3 : ps[j] \in Nat /\ ps[j] >= 1
    <2>1. ps \in [1..3 -> Nat \ {0}]
      BY <1>1, IndicatorAssumption
    <2> QED BY <2>1
  <1>3. PICK S : S = {ps[j] : j \in 1..3}
    OBVIOUS
  <1>4. S \subseteq Nat /\ S # {} /\ \A j \in 1..3 : ps[j] \in S
    BY <1>2, <1>3
  <1>5. PICK b \in Nat : \A v \in S : v <= b
    <2>1. ps[1] + ps[2] + ps[3] \in Nat /\ \A j \in 1..3 : ps[j] <= ps[1] + ps[2] + ps[3]
      <3>1. 1 \in 1..3 /\ 2 \in 1..3 /\ 3 \in 1..3 /\ \A j \in 1..3 : j = 1 \/ j = 2 \/ j = 3
        OBVIOUS
      <3>2. ps[1] \in Nat /\ ps[2] \in Nat /\ ps[3] \in Nat
        BY <1>2, <3>1
      <3> QED BY <3>1, <3>2
    <2> QED BY <1>3, <2>1
  <1>6. PICK hi \in S : \A v \in S : v <= hi
    BY <1>4, <1>5, GreatestNat
  <1>7. Max(S) \in S /\ \A v \in S : Max(S) >= v
    <2>1. \A v \in S : hi >= v
      BY <1>4, <1>6
    <2> QED BY <2>1 DEF Max
  <1>8. PICK m \in Nat : m = Max(S) /\ \A j \in 1..3 : ps[j] <= m
    BY <1>2, <1>4, <1>7
  <1>9. Cap = 2 * m
    BY <1>1, <1>3, <1>8 DEF Cap
  <1>10. \A j \in 1..3 : 2 * ps[j] <= 2 * m
    BY <1>2, <1>8
  <1> QED BY <1>1, <1>2, <1>9, <1>10

\* The last c of the prices x
LastPrices(y, x, c) ==
  y \in Seq(Prices) /\ Len(y) = c /\ \A j \in 1..c : y[j] = x[(Len(x) - c) + j]

\* What is kept of a series is all of it, or as much as the cap allows.
LEMMA KeptIs ==
  ASSUME NEW x \in Seq(Prices), Cap \in Nat, Cap >= 1
  PROVE  LastPrices(Kept(x), x, IF Len(x) <= Cap THEN Len(x) ELSE Cap)
  <1>1. PICK k \in Nat, m \in Nat : k = Len(x) /\ m = Cap /\ m >= 1
    OBVIOUS
  <1>2. PICK y : y = Kept(x)
    OBVIOUS
  <1>3. Max({1, k - m + 1}) = IF k <= m THEN 1 ELSE k - m + 1
    BY <1>1 DEF Max
  <1>4. CASE k <= m
    <2>1. y = SubSeq(x, 1, k)
      BY <1>1, <1>2, <1>3, <1>4 DEF Kept
    <2>2. y \in Seq(Prices) /\ Len(y) = k /\ \A j \in 1..k : y[j] = x[j]
      BY <1>1, <2>1
    <2>3. \A j \in 1..k : (k - k) + j = j
      BY <1>1
    <2> QED BY <1>1, <1>2, <1>4, <2>2, <2>3 DEF LastPrices
  <1>5. CASE ~(k <= m)
    <2>1. y = SubSeq(x, k - m + 1, k)
      BY <1>1, <1>2, <1>3, <1>5 DEF Kept
    <2>2. k - m + 1 \in 1..k
      BY <1>1, <1>5
    <2>3. y = [j \in 1..(k - (k - m + 1) + 1) |-> x[(k - m + 1) + j - 1]]
      BY <1>1, <2>1, <2>2
    <2>4. k - (k - m + 1) + 1 = m
      BY <1>1
    <2>5. \A j \in 1..m : (k - m + 1) + j - 1 = (k - m) + j /\ (k - m) + j \in 1..k
      BY <1>1, <1>5
    <2>6. y = [j \in 1..m |-> x[(k - m) + j]]
      BY <2>3, <2>4, <2>5
    <2>7. \A j \in 1..m : x[(k - m) + j] \in Prices
      BY <1>1, <2>5
    <2>8. y \in Seq(Prices) /\ Len(y) = m /\ \A j \in 1..m : y[j] = x[(k - m) + j]
      BY <1>1, <2>6, <2>7
    <2> QED BY <1>1, <1>2, <1>5, <2>8 DEF LastPrices
  <1> QED BY <1>4, <1>5

\* To keep the last of what was kept and a new price is to keep the last of all.
LEMMA KeptGrows ==
  ASSUME NEW x \in Seq(Prices), Cap \in Nat, Cap >= 1, NEW price \in Prices
  PROVE  Kept(Append(Kept(x), price)) = Kept(Append(x, price))
  <1>1. PICK k \in Nat, m \in Nat : k = Len(x) /\ m = Cap /\ m >= 1
    OBVIOUS
  <1>2. PICK y, c : y = Kept(x) /\ c = IF k <= m THEN k ELSE m
    OBVIOUS
  <1>3. c \in Nat /\ c <= k /\ c <= m
    BY <1>1, <1>2
  <1>4. y \in Seq(Prices) /\ Len(y) = c /\ \A j \in 1..c : y[j] = x[(k - c) + j]
    BY <1>1, <1>2, KeptIs DEF LastPrices
  <1>5. PICK u, v : u = Append(y, price) /\ v = Append(x, price)
    OBVIOUS
  <1>6. /\ u \in Seq(Prices) /\ v \in Seq(Prices) /\ Len(u) = c + 1 /\ Len(v) = k + 1
        /\ u[c + 1] = price /\ v[k + 1] = price
        /\ \A j \in 1..c : u[j] = y[j]
        /\ \A j \in 1..k : v[j] = x[j]
    BY <1>1, <1>4, <1>5
  <1>7. \A j \in 1..(c + 1) : u[j] = v[(k - c) + j]
    <2> TAKE j \in 1..(c + 1)
    <2>1. CASE j = c + 1
      <3>1. (k - c) + j = k + 1
        BY <1>1, <1>3, <2>1
      <3> QED BY <1>6, <2>1, <3>1
    <2>2. CASE j # c + 1
      <3>1. j \in 1..c /\ (k - c) + j \in 1..k
        BY <1>1, <1>3, <2>2
      <3> QED BY <1>4, <1>6, <3>1
    <2> QED BY <2>1, <2>2
  <1>8. PICK a, b : a = Kept(u) /\ b = Kept(v)
    OBVIOUS
  <1>9. PICK d, e : /\ d = IF c + 1 <= m THEN c + 1 ELSE m
                    /\ e = IF k + 1 <= m THEN k + 1 ELSE m
    OBVIOUS
  <1>10. d = e /\ d \in Nat /\ d <= c + 1 /\ d <= k + 1
    BY <1>1, <1>2, <1>9
  <1>11. a \in Seq(Prices) /\ Len(a) = d /\ \A j \in 1..d : a[j] = u[((c + 1) - d) + j]
    <2>1. LastPrices(a, u, IF Len(u) <= Cap THEN Len(u) ELSE Cap)
      BY <1>6, <1>8, KeptIs
    <2>2. LastPrices(a, u, d)
      BY <1>1, <1>6, <1>9, <2>1
    <2> QED BY <1>6, <2>2 DEF LastPrices
  <1>12. b \in Seq(Prices) /\ Len(b) = d /\ \A j \in 1..d : b[j] = v[((k + 1) - d) + j]
    <2>1. LastPrices(b, v, IF Len(v) <= Cap THEN Len(v) ELSE Cap)
      BY <1>6, <1>8, KeptIs
    <2>2. LastPrices(b, v, d)
      BY <1>1, <1>6, <1>9, <1>10, <2>1
    <2> QED BY <1>6, <2>2 DEF LastPrices
  <1>13. \A j \in 1..d : a[j] = b[j]
    <2> TAKE j \in 1..d
    <2>1. /\ ((c + 1) - d) + j \in 1..(c + 1)
          /\ (k - c) + (((c + 1) - d) + j) = ((k + 1) - d) + j
      BY <1>1, <1>3, <1>10
    <2> QED BY <1>7, <1>11, <1>12, <2>1
  <1>14. a = b
    <2>1. a = [j \in 1..d |-> a[j]] /\ b = [j \in 1..d |-> b[j]]
      BY <1>11, <1>12
    <2> QED BY <1>13, <2>1
  <1> QED BY <1>2, <1>5, <1>8, <1>14

-----------------------------------------------------------------------------
(* The parts together                                                      *)

EngineInv == EngineTypes /\ BookInv /\ UseInv

ResearchInv ==
  /\ part = "engine" => EngineInv
  /\ part = "weights" => WeightsInv
  /\ part = "guard" => GuardInv
  /\ part = "portfolio" => PortfolioInv
  /\ part = "optimizer" => OptimizerInv

researchVars == <<part, money, engineOnly, bookOnly, optimizerVars, nodeVars, riskOnly>>

LEMMA ResearchStarts == ResearchInit => ResearchInv
  <1> SUFFICES ASSUME ResearchInit PROVE ResearchInv
    OBVIOUS
  <1>1. part = "engine" => BacktestInit
    BY DEF ResearchInit
  <1>2. part = "weights" => Weights!RebalanceInit
    BY DEF ResearchInit
  <1>3. part = "engine" => EngineInv
    BY <1>1, EngineTypesStart, BooksStart, UseStart DEF EngineInv
  <1>4. part = "weights" => WeightsInv
    BY <1>2, WeightsStart
  <1>5. part = "guard" => Guards!WatchInit
    BY DEF ResearchInit
  <1>6. part = "guard" => GuardInv
    BY <1>5, GuardStart
  <1>7. part = "portfolio" => Books!PortfolioInit
    BY DEF ResearchInit
  <1>8. part = "portfolio" => PortfolioInv
    BY <1>7, PortfolioStart
  <1>9. part = "optimizer" => OptimizerInit
    BY DEF ResearchInit
  <1>10. part = "optimizer" => OptimizerInv
    BY <1>9, OptimizerStart
  <1> QED BY <1>3, <1>4, <1>6, <1>8, <1>10 DEF ResearchInv

LEMMA ResearchSteps == ResearchInv /\ [ResearchNext]_researchVars => ResearchInv'
  <1> SUFFICES ASSUME ResearchInv, [ResearchNext]_researchVars PROVE ResearchInv'
    OBVIOUS
  <1>1. part' = part
    BY DEF ResearchNext, researchVars, EnginePart, PortfolioPart, OptimizerPart, NodePart, GuardPart,
       WeightPart
  <1>2. ASSUME part = "engine" PROVE EngineInv'
    <2>1. EngineInv
      BY <1>2 DEF ResearchInv
    <2>2. [BacktestNext]_backtestVars
      <3>1. CASE EnginePart
        BY <3>1 DEF EnginePart
      <3>2. CASE UNCHANGED researchVars
        BY <3>2 DEF researchVars, money, engineOnly, backtestVars, books
      <3> QED BY <1>2, <3>1, <3>2 DEF ResearchNext
    <2> QED BY <2>1, <2>2, EngineTypesStep, BooksStep, UseStep DEF EngineInv
  <1>3. ASSUME part = "weights" PROVE WeightsInv'
    <2>1. WeightsInv
      BY <1>3 DEF ResearchInv
    <2>2. [Weights!RebalanceNext]_(Weights!rebalanceVars)
      <3>1. CASE WeightPart
        BY <3>1 DEF WeightPart
      <3>2. CASE UNCHANGED researchVars
        BY <3>2 DEF researchVars, riskOnly, weightOnly, Weights!rebalanceVars
      <3> QED BY <1>3, <3>1, <3>2 DEF ResearchNext
    <2> QED BY <2>1, <2>2, WeightsStep
  <1>4. ASSUME part = "guard" PROVE GuardInv'
    <2>1. GuardInv
      BY <1>4 DEF ResearchInv
    <2>2. [Guards!WatchNext]_(Guards!watchVars)
      <3>1. CASE GuardPart
        BY <3>1 DEF GuardPart
      <3>2. CASE UNCHANGED researchVars
        BY <3>2 DEF researchVars, riskOnly, guardOnly, Guards!watchVars
      <3> QED BY <1>4, <3>1, <3>2 DEF ResearchNext
    <2> QED BY <2>1, <2>2, GuardSteps
  <1>5. ASSUME part = "portfolio" PROVE PortfolioInv'
    <2>1. PortfolioInv
      BY <1>5 DEF ResearchInv
    <2>2. [Books!PortfolioNext]_(Books!portfolioVars)
      <3>1. CASE PortfolioPart
        BY <3>1 DEF PortfolioPart
      <3>2. CASE UNCHANGED researchVars
        BY <3>2 DEF researchVars, money, bookOnly, Books!portfolioVars
      <3> QED BY <1>5, <3>1, <3>2 DEF ResearchNext
    <2> QED BY <2>1, <2>2, PortfolioSteps
  <1>6. ASSUME part = "optimizer" PROVE OptimizerInv'
    <2>1. OptimizerInv
      BY <1>6 DEF ResearchInv
    <2>2. [OptimizerNext]_optimizerVars
      <3>1. CASE OptimizerPart
        BY <3>1 DEF OptimizerPart
      <3>2. CASE UNCHANGED researchVars
        BY <3>2 DEF researchVars
      <3> QED BY <1>6, <3>1, <3>2 DEF ResearchNext
    <2> QED BY <2>1, <2>2, OptimizerSteps
  <1> QED BY <1>1, <1>2, <1>3, <1>4, <1>5, <1>6 DEF ResearchInv

LEMMA ResearchInvariant == ResearchSpec => []ResearchInv
  BY ResearchStarts, ResearchSteps, PTL DEF ResearchSpec, researchVars

\* The cash of the backtest engine is the capital and what the recorded trades moved,
\* its positions are what they add up to unless a sell took more than there was, and its
\* equity is what they are worth: for any symbols, histories, rates and number of
\* coroutines, whatever was set up or stopped under a run (_process_action,
\* _update_portfolio_value).
THEOREM EngineKeepsItsBooks == ResearchSpec => []EngineBooksBalance
  <1>1. ResearchInv => EngineBooksBalance
    BY BooksBalanceFollows DEF ResearchInv, EngineInv, EngineBooksBalance
  <1> QED BY <1>1, ResearchInvariant, PTL

\* A setup that one run alone has used has the books of that run: its symbols, one value
\* for each day in order, and it has completed only when every bar it was given is gone
\* over (setup, run).
THEOREM RunsAreOfTheirSetup == ResearchSpec => []EngineRunIsOfItsSetup
  <1>1. ResearchInv => EngineRunIsOfItsSetup
    BY RunFollows DEF ResearchInv, EngineInv, EngineRunIsOfItsSetup
  <1> QED BY <1>1, ResearchInvariant, PTL

\* Rebalancing trades towards the targets and turns over no more than its rule allows,
\* the allocations follow the targets, and the budget and the node agree where they are
\* asked the same: for any symbols, weights and rules (RiskBudget, RebalanceNode).
THEOREM RebalancingKeepsItsLimits == ResearchSpec => []WeightsAreKept
  <1>1. ResearchInv => WeightsAreKept
    BY WeightsPromises DEF ResearchInv, WeightsAreKept
  <1> QED BY <1>1, ResearchInvariant, PTL

\* The stop trails the best price, a limit that lets one position through lets every
\* safer one through, a deeper drawdown never lets a position grow, and the level of a
\* value is how many thresholds it has reached: for any nodes, prices and inputs, and
\* however long the node has run since its reset (TrailingStopNode, RiskNode,
\* DrawdownProtectionNode, ThresholdNode).
THEOREM PositionsStayGuarded == ResearchSpec => []PositionsAreGuarded
  <1>1. ResearchInv => PositionsAreGuarded
    BY GuardPromises DEF ResearchInv, PositionsAreGuarded
  <1> QED BY <1>1, ResearchInvariant, PTL

\* The fees of the portfolio are those of its trades, its cash is the capital less what
\* they paid and cost until close_position is first called, every position is what the
\* trades since its symbol was last closed add up to, the cost of one that has only been
\* added to is what its trades paid, and what a long one has not realized is its profit:
\* for any instruments, lots, prices and fees, however often a position is added to,
\* reduced, turned round or closed (execute_order, close_position, update_prices).
THEOREM PortfolioAlwaysBalances == ResearchSpec => []PortfolioBalances
  <1>1. ResearchInv => PortfolioBalances
    BY PortfolioPromise DEF ResearchInv, PortfolioBalances
  <1> QED BY <1>1, ResearchInvariant, PTL

\* A search returns the first of the best parameter sets it tried and raises only when
\* none of them works, the windows of a walk forward follow one another within the data,
\* and the genetic search never loses the best it has seen: for any parameter sets, any
\* fitness and failure of each, any number of iterations, windows and generations
\* (grid_search, random_search, walk_forward_optimization, optimize).
THEOREM SearchesFindTheBest == ResearchSpec => []OptimizerFindsBest
  <1>1. ResearchInv => OptimizerFindsBest
    BY OptimizerPromise DEF ResearchInv, OptimizerFindsBest
  <1> QED BY <1>1, ResearchInvariant, PTL

\* A node has the kind it was given, and its prices.
NodeInv ==
  /\ part = "node" => seen \in Seq(Prices) /\ indicator \in DOMAIN IndicatorPeriods
  /\ part # "node" => indicator = "none"

LEMMA NodeStarts == ResearchInit => NodeInv
  <1> SUFFICES ASSUME ResearchInit PROVE NodeInv
    OBVIOUS
  <1>1. part = "node" => NodeInit
    BY DEF ResearchInit
  <1>2. part # "node" => nodeOff
    BY DEF ResearchInit, testingOff
  <1>3. <<>> \in Seq(Prices)
    OBVIOUS
  <1>4. part = "node" => seen \in Seq(Prices) /\ indicator \in DOMAIN IndicatorPeriods
    BY <1>1, <1>3 DEF NodeInit
  <1>5. part # "node" => indicator = "none"
    BY <1>2 DEF nodeOff
  <1> QED BY <1>4, <1>5 DEF NodeInv

\* The other parts leave the node alone.
LEMMA NodeAlone ==
  ASSUME [ResearchNext]_researchVars
  PROVE  part' = part /\ (nodeVars' # nodeVars => part = "node" /\ NodeNext)
  BY DEF ResearchNext, researchVars, EnginePart, PortfolioPart, OptimizerPart, NodePart, GuardPart,
     WeightPart

LEMMA NodeSteps == NodeInv /\ [ResearchNext]_researchVars => NodeInv'
  <1> SUFFICES ASSUME NodeInv, [ResearchNext]_researchVars PROVE NodeInv'
    OBVIOUS
  <1>1. CASE nodeVars' = nodeVars
    <2>1. part' = part
      BY NodeAlone
    <2> QED BY <1>1, <2>1 DEF NodeInv, nodeVars
  <1>2. CASE nodeVars' # nodeVars
    <2>1. part' = part /\ part = "node" /\ NodeNext
      BY <1>2, NodeAlone
    <2>2. CASE NodeReset
      BY <2>1, <2>2 DEF NodeInv, NodeReset
    <2>3. ASSUME NEW price \in Prices, Bar(price) PROVE NodeInv'
      BY <2>1, <2>3 DEF NodeInv, Bar
    <2> QED BY <2>1, <2>2, <2>3 DEF NodeNext
  <1> QED BY <1>1, <1>2

LEMMA BarExtends ==
  ASSUME seen \in Seq(Prices), Len(seen) >= 1, NEW price \in Prices, Bar(price)
  PROVE  Extends(seen, seen', Len(seen))
  <1>1. PICK s : s = seen
    OBVIOUS
  <1>2. PICK t : t = seen'
    OBVIOUS
  <1>3. PICK n : n = Len(s)
    OBVIOUS
  <1>4. s \in Seq(Prices) /\ t = Append(s, price) /\ n \in Nat /\ n >= 1
    BY <1>1, <1>2, <1>3 DEF Bar
  <1>5. t \in Seq(Prices) /\ Len(t) = n + 1
    BY <1>3, <1>4
  <1>6. OfBars(s, n)
    BY <1>3, <1>4 DEF OfBars
  <1>7. OfBars(t, n + 1)
    BY <1>5 DEF OfBars
  <1>8. Agree(s, t, n)
    BY <1>3, <1>4 DEF Agree
  <1>9. Extends(s, t, n)
    BY <1>4, <1>6, <1>7, <1>8 DEF Extends
  <1> QED BY <1>1, <1>2, <1>3, <1>9

LEMMA BarKeepsSignals ==
  ASSUME NodeInv, [ResearchNext]_researchVars, nodeVars' # nodeVars,
         indicator \in Kinds, Required(indicator) <= Len(seen), seen' # <<>>
  PROVE  IsPrefix(Signals(indicator, seen), Signals(indicator, seen'))
  <1>1. part = "node" /\ NodeNext
    BY NodeAlone
  <1>2. seen \in Seq(Prices)
    BY <1>1 DEF NodeInv
  <1>3. Required(indicator) \in Nat /\ Required(indicator) >= 1
    <2>1. IndicatorPeriods[indicator] \in [1..3 -> Nat \ {0}]
      BY IndicatorAssumption
    <2>2. PICK ps : ps = IndicatorPeriods[indicator]
      OBVIOUS
    <2>3. Period(indicator) = ps[1] /\ ps[1] \in Nat /\ ps[1] >= 1 /\ ps[2] \in Nat /\ ps[2] >= 1
      BY <2>1, <2>2 DEF Period
    <2>4. \/ Required(indicator) = ps[2] \/ Required(indicator) = Period(indicator) + 1
          \/ Required(indicator) = Period(indicator)
      <3>1. CASE indicator = "MACD"
        BY <2>2, <3>1 DEF Required
      <3>2. CASE indicator \in {"RSI", "ATR"}
        BY <3>2 DEF Required
      <3>3. CASE indicator # "MACD" /\ indicator \notin {"RSI", "ATR"}
        BY <3>3 DEF Required
      <3> QED BY <3>1, <3>2, <3>3
    <2> QED BY <2>3, <2>4
  <1>4. Len(seen) >= 1
    BY <1>2, <1>3
  <1>5. PICK price \in Prices : Bar(price)
    BY <1>1 DEF NodeNext, NodeReset
  <1>6. Extends(seen, seen', Len(seen))
    BY <1>2, <1>4, <1>5, BarExtends
  <1> QED BY <1>6, SignalsExtend

\* The signals of the earlier bars stay what they were when a bar is added: for any
\* prices, indicators, periods and thresholds, however many bars there have been (the
\* _generate_signals methods).
THEOREM SignalsNeverChange == ResearchSpec => SignalsStay
  <1>1. NodeInv /\ [ResearchNext]_researchVars =>
          [(indicator \in Kinds /\ Required(indicator) <= Len(seen) /\ seen' # <<>>)
             => IsPrefix(Signals(indicator, seen), Signals(indicator, seen'))]_nodeVars
    BY BarKeepsSignals
  <1> QED BY <1>1, NodeStarts, NodeSteps, PTL DEF ResearchSpec, researchVars, SignalsStay, NoRepaint

\* A node keeps the last prices and puts out what is calculated on them.
NodeKeeps ==
  part = "node" => history = Kept(seen) /\ (seen # <<>> => outputs = Outputs(history))

\* The prices of a node that has had one: the last c of r + c are kept.
NodeHas(r, c) ==
  /\ LastOf(seen, history, r, c, Min(ToSet(seen)), Max(ToSet(seen)))
  /\ r + c = Len(seen) /\ Len(history) = c /\ c = (IF Len(seen) <= Cap THEN Len(seen) ELSE Cap)
  /\ r = 0 => history = seen

\* What it keeps is what NodeHas says, and its output is calculated on that.
LEMMA NodePrices ==
  ASSUME NodeInv, NodeKeeps, part = "node", seen # <<>>
  PROVE  outputs = Outputs(history) /\ \E r, c \in Nat : NodeHas(r, c)
  <1>1. seen \in Seq(Prices) /\ indicator \in DOMAIN IndicatorPeriods
    BY DEF NodeInv
  <1>2. PICK x, y : x = seen /\ y = history
    OBVIOUS
  <1>3. PICK k \in Nat, m \in Nat : k = Len(x) /\ k >= 1 /\ m = Cap /\ m >= 1
    BY <1>1, <1>2, CapIs
  <1>4. PICK c \in Nat, r \in Nat : c = (IF k <= m THEN k ELSE m) /\ r = k - c /\ c >= 1
    <2>1. PICK c : c = IF k <= m THEN k ELSE m
      OBVIOUS
    <2>2. c \in Nat /\ c >= 1 /\ c <= k
      BY <1>3, <2>1
    <2>3. k - c \in Nat
      BY <2>2
    <2> QED BY <2>1, <2>2, <2>3
  <1>5. y = Kept(x)
    BY <1>2 DEF NodeKeeps
  <1>6. y \in Seq(Prices) /\ Len(y) = c /\ \A j \in 1..c : y[j] = x[r + j]
    <2>1. LastPrices(Kept(x), x, IF Len(x) <= Cap THEN Len(x) ELSE Cap)
      BY <1>1, <1>2, <1>3, KeptIs
    <2>2. LastPrices(y, x, c)
      BY <1>3, <1>4, <1>5, <2>1
    <2> QED BY <1>3, <1>4, <2>2 DEF LastPrices
  <1>7. Prices \subseteq Nat /\ Prices \subseteq Int
    BY IndicatorAssumption
  <1>8. x \in Seq(Prices) /\ x \in Seq(Nat)
    <2>1. x \in [1..k -> Prices]
      BY <1>1, <1>2, <1>3
    <2>2. x \in [1..k -> Nat]
      BY <1>7, <2>1
    <2> QED BY <1>1, <1>2, <2>2
  <1>9. PICK lo \in Int, hi \in Int :
          /\ lo = Min(ToSet(x)) /\ hi = Max(ToSet(x))
          /\ \A i \in 1..k : x[i] \in Int /\ lo <= x[i] /\ x[i] <= hi
    <2>1. \A i \in 1..k : x[i] \in Int
      BY <1>3, <1>8
    <2>2. Min(ToSet(x)) \in Int /\ Max(ToSet(x)) \in Int
      BY <1>3, <1>8, PricesWithin
    <2>3. \A i \in 1..k : Min(ToSet(x)) <= x[i] /\ x[i] <= Max(ToSet(x))
      BY <1>3, <1>8, PricesWithin
    <2> QED BY <2>1, <2>2, <2>3
  <1>10. OfBars(x, k) /\ OfBars(y, c)
    BY <1>3, <1>6, <1>8 DEF OfBars
  <1>11. k = r + c
    BY <1>3, <1>4
  <1>12. LastOf(x, y, r, c, lo, hi)
    BY <1>4, <1>6, <1>9, <1>10, <1>11 DEF LastOf
  <1>13. ASSUME r = 0 PROVE y = x
    <2>1. c = k /\ \A j \in 1..c : r + j = j
      BY <1>11, <1>13
    <2>2. \A j \in 1..c : y[j] = x[j]
      BY <1>6, <2>1
    <2>3. y = [j \in 1..c |-> y[j]] /\ x = [j \in 1..c |-> x[j]]
      BY <1>10, <2>1 DEF OfBars
    <2> QED BY <2>2, <2>3
  <1>14. NodeHas(r, c)
    BY <1>2, <1>3, <1>4, <1>6, <1>9, <1>11, <1>12, <1>13 DEF NodeHas
  <1>15. outputs = Outputs(history)
    BY DEF NodeKeeps
  <1> QED BY <1>14, <1>15

\* The last of a series
LEMMA LastIs ==
  ASSUME NEW n \in Nat, NEW s, OfBars(s, n) PROVE Last(s) = s[n]
  <1>1. Len(s) = n
    BY BarsAreSeq
  <1> QED BY <1>1 DEF Last

\* What is forgotten, as a node has it
LEMMA ForgottenIs ==
  ASSUME NEW r \in Nat, NEW c \in Nat, NodeHas(r, c), Cap \in Nat, NEW p
  PROVE  /\ r = 0 => Forgotten(p) = Whole(0)
         /\ r # 0 => Forgotten(p) = Off(p, c, Max(ToSet(seen)) - Min(ToSet(seen)))
  <1>1. PICK k \in Nat, m \in Nat : k = Len(seen) /\ m = Cap
    <2>1. r + c = Len(seen)
      BY DEF NodeHas
    <2> QED BY <2>1
  <1>2. k = r + c /\ c = IF k <= m THEN k ELSE m
    BY <1>1 DEF NodeHas
  <1>3. r = 0 <=> k <= m
    BY <1>2
  <1>4. r # 0 => c = m
    BY <1>2
  <1> QED BY <1>1, <1>3, <1>4 DEF Forgotten, Off, Spread

\* What is put out by any indicator but MACD
LEMMA ValueIs ==
  ASSUME NEW y, indicator # "MACD" PROVE Outputs(y).value = Calculated(y)
  BY DEF Outputs

\* A node that has had as many bars as its indicator needs still has as many.
LEMMA NodeReady ==
  ASSUME NodeInv, part = "node", NEW r \in Nat, NEW c \in Nat, NodeHas(r, c),
         indicator \in Registry \ {"ATR"}, Len(seen) >= Required(indicator)
  PROVE  /\ Ready(history) /\ Required(indicator) <= c /\ c >= 1 /\ Cap \in Nat
         /\ \A j \in 1..3 : IndicatorPeriods[indicator][j] \in Nat /\ IndicatorPeriods[indicator][j] >= 1
  <1>1. PICK ps : ps = IndicatorPeriods[indicator]
    OBVIOUS
  <1>2. PICK m \in Nat : m = Cap /\ \A j \in 1..3 : ps[j] \in Nat /\ ps[j] >= 1 /\ 2 * ps[j] <= m
    BY <1>1, CapIs DEF NodeInv
  <1>3. /\ ps[1] \in Nat /\ ps[1] >= 1 /\ 2 * ps[1] <= m
        /\ ps[2] \in Nat /\ ps[2] >= 1 /\ 2 * ps[2] <= m
    BY <1>2
  <1>4. PICK q \in Nat : q = Required(indicator) /\ q <= m /\ q >= 1
    <2>1. CASE indicator = "MACD"
      <3>1. Required(indicator) = ps[2] /\ ps[2] <= m
        BY <1>1, <1>3, <2>1 DEF Required
      <3> QED BY <1>3, <3>1
    <2>2. CASE indicator = "RSI"
      <3>1. Required(indicator) = ps[1] + 1 /\ ps[1] + 1 <= m /\ ps[1] + 1 \in Nat /\ ps[1] + 1 >= 1
        BY <1>1, <1>3, <2>2 DEF Required, Period
      <3> QED BY <3>1
    <2>3. CASE indicator \in {"SMA", "EMA", "BollingerBands"}
      <3>1. Required(indicator) = ps[1] /\ ps[1] <= m
        BY <1>1, <1>3, <2>3 DEF Required, Period
      <3> QED BY <1>3, <3>1
    <2> QED BY <2>1, <2>2, <2>3 DEF Registry
  <1>5. PICK k \in Nat : k = Len(seen) /\ k = r + c /\ k >= q
    BY <1>4 DEF NodeHas
  <1>6. c = (IF k <= m THEN k ELSE m) /\ Len(history) = c
    BY <1>2, <1>5 DEF NodeHas
  <1>7. q <= c
    BY <1>4, <1>5, <1>6
  <1>8. Len(history) >= Required(indicator)
    BY <1>4, <1>6, <1>7
  <1>9. Ready(history)
    BY <1>8 DEF Ready
  <1>10. Required(indicator) <= c /\ c >= 1
    BY <1>4, <1>7
  <1> QED BY <1>1, <1>2, <1>9, <1>10

\* An average of a window is that of the last prices since the reset.
LEMMA AverageAgrees ==
  ASSUME NodeInv, part = "node", NEW r \in Nat, NEW c \in Nat, NodeHas(r, c),
         outputs = Outputs(history), indicator \in {"SMA", "BollingerBands"},
         Len(seen) >= Required(indicator)
  PROVE  outputs.value.n * Period(indicator) =
           outputs.value.d * SumFunctionOnSet(seen, Len(seen) - Period(indicator) + 1..Len(seen))
  <1>1. PICK x, y : x = seen /\ y = history
    OBVIOUS
  <1>2. indicator \in Registry \ {"ATR"} /\ indicator # "MACD"
    BY DEF Registry
  <1>3. /\ Ready(y) /\ Required(indicator) <= c /\ c >= 1
        /\ IndicatorPeriods[indicator][1] \in Nat /\ IndicatorPeriods[indicator][1] >= 1
    BY <1>1, <1>2, NodeReady
  <1>4. PICK p \in Nat : p = Period(indicator) /\ p >= 1 /\ p <= c
    BY <1>3 DEF Period, Required
  <1>5. /\ OfBars(y, c) /\ OfBars(x, r + c) /\ \A j \in 1..c : y[j] = x[r + j] /\ y[j] \in Int
    <2>1. OfBars(y, c) /\ OfBars(x, r + c) /\ \A j \in 1..c : y[j] = x[r + j]
      BY <1>1 DEF NodeHas, LastOf
    <2>2. \A i \in 1..(r + c) : x[i] \in Int
      BY <1>1 DEF NodeHas, LastOf
    <2>3. \A j \in 1..c : r + j \in 1..(r + c)
      OBVIOUS
    <2> QED BY <2>1, <2>2, <2>3
  <1>6. outputs.value = Last(SMA(y, p))
    <2>1. outputs.value = Calculated(y)
      BY <1>1, <1>2, ValueIs
    <2>2. Calculated(y) = Last(SMA(y, Period(indicator)))
      BY <1>2, <1>3 DEF Calculated
    <2> QED BY <1>4, <2>1, <2>2
  <1>7. DOMAIN y = 1..c /\ Len(y) = c /\ \E S : y \in Seq(S)
    BY <1>5, BarsAreSeq
  <1>8. PICK s : s = SMA(y, p)
    OBVIOUS
  <1>9. s = [i \in 1..c |-> Mean(Rolling(y, p, i))]
    BY <1>7, <1>8 DEF SMA
  <1>10. OfBars(s, c)
    BY <1>9 DEF OfBars
  <1>11. Last(s) = Mean(Rolling(y, p, c))
    <2>1. c \in 1..c
      BY <1>3
    <2>2. s[c] = Mean(Rolling(y, p, c))
      BY <1>9, <2>1
    <2> QED BY <1>10, <2>2, LastIs
  <1>12. PICK w : w = SubSeq(y, c - p + 1, c)
    OBVIOUS
  <1>13. Rolling(y, p, c) = w
    <2>1. Max({1, c - p + 1}) = c - p + 1
      <3>1. c - p + 1 \in Int /\ c - p + 1 >= 1
        BY <1>4
      <3> QED BY <3>1 DEF Max
    <2> QED BY <1>12, <2>1 DEF Rolling
  <1>14. w = [j \in 1..p |-> y[(c - p) + j]]
    <2>1. c - p + 1 \in 1..c
      BY <1>3, <1>4
    <2>2. w = [j \in 1..(c - (c - p + 1) + 1) |-> y[(c - p + 1) + j - 1]]
      BY <1>7, <1>12, <2>1
    <2>3. c - (c - p + 1) + 1 = p
      BY <1>4
    <2>4. \A j \in 1..p : (c - p + 1) + j - 1 = (c - p) + j
      BY <1>4
    <2> QED BY <2>2, <2>3, <2>4
  <1>15. PICK a \in Nat : a = r + (c - p)
    BY <1>4
  <1>16. ASSUME NEW j \in 1..p PROVE w[j] = x[a + j] /\ w[j] \in Int
    <2>1. (c - p) + j \in 1..c /\ r + ((c - p) + j) = a + j
      BY <1>4, <1>15
    <2>2. w[j] = y[(c - p) + j]
      BY <1>14
    <2> QED BY <1>5, <2>1, <2>2
  <1>17. SumFunctionOnSet(w, 1..p) = SumFunctionOnSet(x, (a + 1)..(a + p))
    BY <1>16, SumMoves
  <1>18. PICK k \in Nat : k = Len(seen) /\ k = r + c
    BY DEF NodeHas
  <1>19. a + 1 = k - p + 1 /\ a + p = k
    BY <1>4, <1>15, <1>18
  <1>20. DOMAIN w = 1..p /\ Len(w) = p
    <2>1. OfBars(w, p)
      BY <1>14 DEF OfBars
    <2> QED BY <2>1, BarsAreSeq
  <1>21. Mean(w) = [n |-> SumFunctionOnSet(x, (k - p + 1)..k), d |-> p]
    BY <1>17, <1>19, <1>20 DEF Mean, SumFunction
  <1>22. SumFunctionOnSet(w, 1..p) \in Int
    <2>1. IsFiniteSet(1..p)
      BY FS_Interval
    <2> QED BY <1>16, <2>1, SumInt
  <1>23. PICK t \in Int : t = SumFunctionOnSet(x, (k - p + 1)..k)
    BY <1>17, <1>19, <1>22
  <1>24. outputs.value = [n |-> t, d |-> p]
    BY <1>6, <1>8, <1>11, <1>13, <1>21, <1>23
  <1>25. t * p = p * t
    OBVIOUS
  <1> QED BY <1>1, <1>4, <1>18, <1>23, <1>24, <1>25

\* An exponential average is no further off than what was forgotten.
LEMMA EMANodeAgrees ==
  ASSUME NodeInv, part = "node", NEW r \in Nat, NEW c \in Nat, NodeHas(r, c),
         outputs = Outputs(history), indicator = "EMA", Len(seen) >= Required(indicator)
  PROVE  ~Below(Forgotten(Period(indicator)),
                Distance(outputs.value, EMA(Wholes(seen), Period(indicator))[Len(seen)]))
  <1>1. PICK x, y, lo, hi : x = seen /\ y = history /\ lo = Min(ToSet(seen)) /\ hi = Max(ToSet(seen))
    OBVIOUS
  <1>2. indicator \in Registry \ {"ATR"} /\ indicator # "MACD"
    BY DEF Registry
  <1>3. /\ Ready(y) /\ c >= 1 /\ Cap \in Nat
        /\ IndicatorPeriods[indicator][1] \in Nat /\ IndicatorPeriods[indicator][1] >= 1
    BY <1>1, <1>2, NodeReady
  <1>4. PICK p \in Nat : p = Period(indicator) /\ p >= 1
    BY <1>3 DEF Period
  <1>5. LastOf(x, y, r, c, lo, hi) /\ r + c = Len(seen) /\ (r = 0 => y = x)
    BY <1>1 DEF NodeHas
  <1>6. OfBars(y, c) /\ \A j \in 1..c : y[j] \in Int
    <2>1. OfBars(y, c) /\ \A j \in 1..c : y[j] = x[r + j]
      BY <1>5 DEF LastOf
    <2>2. \A i \in 1..(r + c) : x[i] \in Int
      BY <1>5 DEF LastOf
    <2>3. \A j \in 1..c : r + j \in 1..(r + c)
      OBVIOUS
    <2> QED BY <2>1, <2>2, <2>3
  <1>7. outputs.value = Last(EMA(Wholes(y), p))
    <2>1. outputs.value = Calculated(y)
      BY <1>1, <1>2, ValueIs
    <2>2. Calculated(y) = Last(EMA(Wholes(y), Period(indicator)))
      BY <1>2, <1>3 DEF Calculated
    <2> QED BY <1>4, <2>1, <2>2
  <1>8. OfBars(Wholes(y), c)
    BY <1>6, WholesAre
  <1>9. OfBars(EMA(Wholes(y), p), c)
    <2>1. Agree(Wholes(y), Wholes(y), c) /\ c <= c
      BY DEF Agree
    <2> QED BY <1>8, <2>1, EMAAgrees
  <1>10. outputs.value = EMA(Wholes(y), p)[c]
    BY <1>7, <1>9, LastIs
  <1>11. CASE r = 0
    <2>1. y = x /\ Len(seen) = c
      BY <1>5, <1>11
    <2>2. IsFraction(EMA(Wholes(y), p)[c])
      BY <1>3, <1>4, <1>6, LineIs
    <2>3. Forgotten(p) = Whole(0)
      BY <1>3, <1>11, ForgottenIs
    <2> QED BY <1>1, <1>4, <1>10, <2>1, <2>2, <2>3, NoDistance
  <1>12. CASE r # 0
    <2>1. Forgotten(p) = Off(p, c, hi - lo)
      BY <1>1, <1>3, <1>12, ForgottenIs
    <2>2. ~Below(Off(p, c, hi - lo), Distance(EMA(Wholes(y), p)[c], EMA(Wholes(x), p)[r + c]))
      BY <1>4, <1>5, LastBarsAreClose
    <2> QED BY <1>1, <1>4, <1>5, <1>10, <2>1, <2>2
  <1> QED BY <1>11, <1>12

\* The prices of a node are bars.
LEMMA NodeBars ==
  ASSUME NEW r \in Nat, NEW c \in Nat, NodeHas(r, c)
  PROVE  /\ OfBars(history, c) /\ \A j \in 1..c : history[j] \in Int /\ history[j] = seen[r + j]
         /\ Len(seen) = r + c
  <1>1. OfBars(history, c) /\ \A j \in 1..c : history[j] = seen[r + j]
    BY DEF NodeHas, LastOf
  <1>2. \A i \in 1..(r + c) : seen[i] \in Int
    BY DEF NodeHas, LastOf
  <1>3. \A j \in 1..c : r + j \in 1..(r + c)
    OBVIOUS
  <1> QED BY <1>1, <1>2, <1>3 DEF NodeHas

\* A MACD is no further off than what both averages forgot, and its histogram is its
\* line less its signal.
LEMMA MACDNodeAgrees ==
  ASSUME NodeInv, part = "node", NEW r \in Nat, NEW c \in Nat, NodeHas(r, c),
         outputs = Outputs(history), indicator = "MACD", Len(seen) >= Required(indicator),
         NEW p, NEW q, p = IndicatorPeriods[indicator][1], q = IndicatorPeriods[indicator][2]
  PROVE  /\ Same(outputs.histogram, Minus(outputs.macd, outputs.signal))
         /\ ~Below(Plus(Forgotten(p), Forgotten(q)),
                   Distance(outputs.macd, MACDLine(seen, p, q)[Len(seen)]))
  <1>1. PICK x, y, lo, hi : x = seen /\ y = history /\ lo = Min(ToSet(seen)) /\ hi = Max(ToSet(seen))
    OBVIOUS
  <1>2. indicator \in Registry \ {"ATR"}
    BY DEF Registry
  <1>3. PICK o \in Nat : o = IndicatorPeriods[indicator][3]
    BY <1>2, NodeReady
  <1>4. /\ Ready(y) /\ c >= 1 /\ Cap \in Nat
        /\ p \in Nat /\ p >= 1 /\ q \in Nat /\ q >= 1
    BY <1>1, <1>2, NodeReady
  <1>5. LastOf(x, y, r, c, lo, hi) /\ r + c = Len(seen) /\ (r = 0 => y = x)
    BY <1>1 DEF NodeHas
  <1>6. OfBars(y, c) /\ \A j \in 1..c : y[j] \in Int
    BY <1>1, NodeBars
  <1>7. PICK l : l = MACDLine(y, p, q)
    OBVIOUS
  <1>8. OfBars(l, c) /\ \A i \in 1..c : IsFraction(l[i])
    BY <1>4, <1>6, <1>7, LineIs
  <1>9. PICK e : e = EMA(l, o)
    OBVIOUS
  <1>10. OfBars(e, c) /\ \A i \in 1..c : IsFraction(e[i])
    <2>1. Agree(l, l, c) /\ c <= c
      BY DEF Agree
    <2>2. OfBars(e, c)
      BY <1>8, <1>9, <2>1, EMAAgrees
    <2> QED BY <1>8, <1>9, <2>2, EMAFractions
  <1>11. c \in 1..c /\ Last(l) = l[c] /\ Last(e) = e[c]
    BY <1>4, <1>8, <1>10, LastIs
  <1>12. outputs = [macd |-> l[c], signal |-> e[c], histogram |-> Minus(l[c], e[c])]
    <2>1. outputs = CalculatedMACD(y)
      BY <1>1 DEF Outputs
    <2>2. CalculatedMACD(y) = [macd |-> Last(l), signal |-> Last(e), histogram |-> Minus(Last(l), Last(e))]
      BY <1>3, <1>4, <1>7, <1>9 DEF CalculatedMACD
    <2> QED BY <1>11, <2>1, <2>2
  <1>13. /\ outputs.macd = l[c] /\ outputs.signal = e[c] /\ outputs.histogram = Minus(l[c], e[c])
         /\ IsFraction(l[c]) /\ IsFraction(e[c])
    BY <1>8, <1>10, <1>11, <1>12
  <1>14. IsFraction(Minus(l[c], e[c]))
    BY <1>13, FractionsStay
  <1>15. Same(outputs.histogram, Minus(outputs.macd, outputs.signal))
    BY <1>13, <1>14, NoDistance
  <1>16. CASE r = 0
    <2>1. y = x /\ Len(seen) = c
      BY <1>5, <1>16
    <2>2. Forgotten(p) = Whole(0) /\ Forgotten(q) = Whole(0)
      BY <1>4, <1>16, ForgottenIs
    <2>3. Plus(Whole(0), Whole(0)) = Whole(0)
      <3>1. PICK z : z = Whole(0)
        OBVIOUS
      <3>2. z = [n |-> 0, d |-> 1]
        BY <3>1 DEF Whole
      <3>3. 1 % 1 = 0 /\ 1 \div 1 = 1
        OBVIOUS
      <3>4. Common(z, z) = 1
        BY <3>2, <3>3 DEF Common
      <3>5. Over(z, 1) = 0 * 1
        BY <3>2, <3>3 DEF Over
      <3>6. Plus(z, z) = [n |-> 0 * 1 + 0 * 1, d |-> 1]
        BY <3>4, <3>5 DEF Plus
      <3> QED BY <3>1, <3>2, <3>6
    <2> QED BY <1>1, <1>7, <1>13, <1>15, <2>1, <2>2, <2>3, NoDistance
  <1>17. CASE r # 0
    <2>1. Forgotten(p) = Off(p, c, hi - lo) /\ Forgotten(q) = Off(q, c, hi - lo)
      BY <1>1, <1>4, <1>17, ForgottenIs
    <2>2. ~Below(Plus(Off(p, c, hi - lo), Off(q, c, hi - lo)),
                 Distance(MACDLine(y, p, q)[c], MACDLine(x, p, q)[r + c]))
      BY <1>4, <1>5, LastBarsAreClose
    <2> QED BY <1>1, <1>5, <1>7, <1>13, <1>15, <2>1, <2>2
  <1> QED BY <1>16, <1>17

\* An RSI is between 0 and 100, is 100 exactly when no kept price is below the one before
\* it, and is exact while nothing was dropped.
LEMMA RSINodeAgrees ==
  ASSUME NodeInv, part = "node", NEW r \in Nat, NEW c \in Nat, NodeHas(r, c),
         outputs = Outputs(history), indicator = "RSI", Len(seen) >= Required(indicator)
  PROVE  /\ ~Below(outputs.value, Whole(0)) /\ ~Below(Whole(100), outputs.value)
         /\ Same(outputs.value, Whole(100)) <=>
              \A i \in Max({2, Len(seen) - Cap + 2})..Len(seen) : seen[i - 1] <= seen[i]
         /\ Len(seen) <= Cap => Same(outputs.value, RSI(seen, Period(indicator))[Len(seen)])
  <1>1. PICK x, y : x = seen /\ y = history
    OBVIOUS
  <1>2. indicator \in Registry \ {"ATR"} /\ indicator # "MACD"
    BY DEF Registry
  <1>3. /\ Ready(y) /\ Required(indicator) <= c /\ c >= 1 /\ Cap \in Nat
        /\ IndicatorPeriods[indicator][1] \in Nat
    BY <1>1, <1>2, NodeReady
  <1>4. PICK p \in Nat : p = Period(indicator) /\ p >= 2 /\ p < c
    <2>1. PICK p \in Nat : p = Period(indicator)
      BY <1>3 DEF Period
    <2>2. p >= 2
      BY <2>1, IndicatorAssumption
    <2>3. Required(indicator) = p + 1
      BY <2>1 DEF Required
    <2> QED BY <1>3, <2>1, <2>2, <2>3
  <1>5. /\ OfBars(y, c) /\ \A j \in 1..c : y[j] \in Int /\ y[j] = x[r + j]
        /\ Len(seen) = r + c
    BY <1>1, NodeBars
  <1>6. OfBars(RSI(y, p), c)
    <2>1. DOMAIN y = 1..c
      BY <1>5, BarsAreSeq
    <2> QED BY <2>1, RSIIs DEF OfBars
  <1>7. outputs.value = RSI(y, p)[c]
    <2>1. outputs.value = Calculated(y)
      BY <1>1, <1>2, ValueIs
    <2>2. Calculated(y) = Last(RSI(y, Period(indicator)))
      BY <1>2, <1>3 DEF Calculated
    <2> QED BY <1>4, <1>6, <2>1, <2>2, LastIs
  <1>8. PICK v : v = RSI(y, p)[c]
    OBVIOUS
  <1>9. /\ IsFraction(v) /\ ~Below(v, Whole(0)) /\ ~Below(Whole(100), v)
        /\ Same(v, Whole(100)) <=> \A i \in 2..c : y[i - 1] <= y[i]
    BY <1>3, <1>4, <1>5, <1>8, RSIWithin
  <1>10. PICK k \in Nat, m \in Nat : k = Len(seen) /\ m = Cap /\ k = r + c
    BY <1>3, <1>5
  <1>11. c = (IF k <= m THEN k ELSE m) /\ (r = 0 => y = x)
    BY <1>1, <1>10 DEF NodeHas
  <1>12. Max({2, k - m + 2}) = r + 2
    <2>1. CASE k <= m
      <3>1. r = 0 /\ k - m + 2 <= 2 /\ k - m + 2 \in Int
        BY <1>10, <1>11, <2>1
      <3> QED BY <3>1 DEF Max
    <2>2. CASE ~(k <= m)
      <3>1. k - m + 2 = r + 2 /\ r + 2 >= 2 /\ r + 2 \in Int
        BY <1>10, <1>11, <2>2
      <3> QED BY <3>1 DEF Max
    <2> QED BY <2>1, <2>2
  <1>13. (\A i \in 2..c : y[i - 1] <= y[i]) <=> (\A i \in (r + 2)..k : x[i - 1] <= x[i])
    <2>1. ASSUME NEW i \in 2..c
          PROVE  r + i \in (r + 2)..k /\ x[(r + i) - 1] = y[i - 1] /\ x[r + i] = y[i]
      <3>1. r + i \in (r + 2)..k /\ i - 1 \in 1..c /\ i \in 1..c /\ (r + i) - 1 = r + (i - 1)
        BY <1>10
      <3> QED BY <1>5, <3>1
    <2>2. ASSUME NEW i \in (r + 2)..k PROVE i - r \in 2..c /\ r + (i - r) = i
      BY <1>10
    <2>3. ASSUME \A i \in (r + 2)..k : x[i - 1] <= x[i], NEW i \in 2..c PROVE y[i - 1] <= y[i]
      BY <2>1, <2>3
    <2>4. ASSUME \A i \in 2..c : y[i - 1] <= y[i], NEW i \in (r + 2)..k PROVE x[i - 1] <= x[i]
      <3>1. y[(i - r) - 1] <= y[i - r]
        BY <2>2, <2>4
      <3>2. x[(r + (i - r)) - 1] = y[(i - r) - 1] /\ x[r + (i - r)] = y[i - r]
        BY <2>1, <2>2
      <3> QED BY <2>2, <3>1, <3>2
    <2> QED BY <2>3, <2>4
  <1>14. ASSUME k <= m PROVE Same(v, RSI(x, p)[k])
    <2>1. r = 0
      BY <1>10, <1>11, <1>14
    <2>2. k = c /\ y = x
      BY <1>10, <1>11, <2>1
    <2> QED BY <1>8, <1>9, <2>2, NoDistance
  <1>15. outputs.value = v
    BY <1>7, <1>8
  <1>16. Same(v, Whole(100)) <=> \A i \in (r + 2)..k : x[i - 1] <= x[i]
    BY <1>9, <1>13
  <1> QED BY <1>1, <1>4, <1>9, <1>10, <1>12, <1>14, <1>15, <1>16

\* Indicator by indicator, a node that keeps the last prices agrees.
LEMMA NodePromises ==
  ASSUME NodeInv, NodeKeeps, part = "node"
  PROVE  NodeAgrees
  <1>1. SUFFICES ASSUME indicator \in Registry \ {"ATR"}, Len(seen) >= Required(indicator)
                 PROVE  NodeAgrees
    BY Zenon DEF NodeAgrees
  <1>2. seen # <<>>
    <2>1. \A j \in 1..3 : IndicatorPeriods[indicator][j] \in Nat /\ IndicatorPeriods[indicator][j] >= 1
      BY CapIs DEF NodeInv
    <2>2. PICK p \in Nat, q \in Nat : /\ p = IndicatorPeriods[indicator][1] /\ p >= 1
                                      /\ q = IndicatorPeriods[indicator][2] /\ q >= 1
      BY <2>1
    <2>3. Required(indicator) \in {p, p + 1, q}
      <3>1. CASE indicator = "MACD"
        BY <2>2, <3>1 DEF Required
      <3>2. CASE indicator = "RSI"
        BY <2>2, <3>2 DEF Required, Period
      <3>3. CASE indicator \in {"SMA", "EMA", "BollingerBands"}
        BY <2>2, <3>3 DEF Required, Period
      <3> QED BY <1>1, <3>1, <3>2, <3>3 DEF Registry
    <2>4. Len(seen) # 0
      BY <1>1, <2>2, <2>3
    <2> QED BY <2>4
  <1>3. outputs = Outputs(history)
    BY <1>2, NodePrices
  <1>4. PICK r \in Nat, c \in Nat : NodeHas(r, c)
    BY <1>2, NodePrices
  <1>5. CASE indicator \in {"SMA", "BollingerBands"}
    <2>1. outputs.value.n * Period(indicator) =
            outputs.value.d * SumFunctionOnSet(seen, Len(seen) - Period(indicator) + 1..Len(seen))
      BY <1>1, <1>3, <1>4, <1>5, AverageAgrees
    <2> QED BY <1>5, <2>1 DEF NodeAgrees
  <1>6. CASE indicator = "EMA"
    <2>1. ~Below(Forgotten(Period(indicator)),
                 Distance(outputs.value, EMA(Wholes(seen), Period(indicator))[Len(seen)]))
      BY <1>1, <1>3, <1>4, <1>6, EMANodeAgrees
    <2> QED BY <1>6, <2>1 DEF NodeAgrees
  <1>7. CASE indicator = "MACD"
    <2>1. PICK ps : ps = IndicatorPeriods[indicator]
      OBVIOUS
    <2>2. /\ Same(outputs.histogram, Minus(outputs.macd, outputs.signal))
          /\ ~Below(Plus(Forgotten(ps[1]), Forgotten(ps[2])),
                    Distance(outputs.macd, MACDLine(seen, ps[1], ps[2])[Len(seen)]))
      BY <1>1, <1>3, <1>4, <1>7, <2>1, MACDNodeAgrees
    <2> QED BY <1>7, <2>1, <2>2 DEF NodeAgrees
  <1>8. CASE indicator = "RSI"
    <2>1. /\ ~Below(outputs.value, Whole(0)) /\ ~Below(Whole(100), outputs.value)
          /\ Same(outputs.value, Whole(100)) <=>
               \A i \in Max({2, Len(seen) - Cap + 2})..Len(seen) : seen[i - 1] <= seen[i]
          /\ Len(seen) <= Cap => Same(outputs.value, RSI(seen, Period(indicator))[Len(seen)])
      BY <1>1, <1>3, <1>4, <1>8, RSINodeAgrees
    <2> QED BY <1>8, <2>1, Zenon DEF NodeAgrees
  <1> QED BY <1>1, <1>5, <1>6, <1>7, <1>8 DEF Registry

\* A node starts with no prices, and keeps the last ones with every bar.
LEMMA NodeKeepsStart == ResearchInit => NodeKeeps
  <1> SUFFICES ASSUME ResearchInit, part = "node" PROVE history = Kept(seen) /\ seen = <<>>
    BY DEF NodeKeeps
  <1>1. indicator \in DOMAIN IndicatorPeriods /\ history = <<>> /\ seen = <<>>
    BY DEF ResearchInit, NodeInit
  <1>2. Kept(<<>>) = <<>>
    <2>1. Cap \in Nat /\ Cap >= 1 /\ <<>> \in Seq(Prices)
      BY <1>1, CapIs
    <2>2. Kept(<<>>) = SubSeq(<<>>, 1, 0)
      <3>1. Max({1, 0 - Cap + 1}) = 1
        BY <2>1 DEF Max
      <3> QED BY <3>1 DEF Kept
    <2> QED BY <2>2
  <1> QED BY <1>1, <1>2


LEMMA NodeKeepsSteps == NodeInv /\ NodeKeeps /\ [ResearchNext]_researchVars => NodeKeeps'
  <1> SUFFICES ASSUME NodeInv, NodeKeeps, [ResearchNext]_researchVars, part' = "node" PROVE NodeKeeps'
    BY DEF NodeKeeps
  <1>1. part = "node"
    BY NodeAlone
  <1>2. indicator \in DOMAIN IndicatorPeriods /\ seen \in Seq(Prices)
    BY <1>1 DEF NodeInv
  <1>3. Cap \in Nat /\ Cap >= 1
    BY <1>2, CapIs
  <1>4. CASE UNCHANGED nodeVars
    BY <1>1, <1>4 DEF nodeVars, NodeKeeps, Kept, Cap, Outputs, Calculated, CalculatedMACD, Ready
  <1>5. CASE NodeReset
    <2>1. history' = <<>> /\ seen' = <<>> /\ indicator' = indicator
      BY <1>5 DEF NodeReset
    <2>2. (Kept(seen))' = SubSeq(<<>>, Max({1, 0 - Cap + 1}), 0)
      BY <2>1 DEF Kept, Cap
    <2>3. Max({1, 0 - Cap + 1}) = 1
      BY <1>3 DEF Max
    <2>4. (Kept(seen))' = <<>>
      BY <2>2, <2>3
    <2> QED BY <2>1, <2>4 DEF NodeKeeps
  <1>6. ASSUME NEW price \in Prices, Bar(price) PROVE NodeKeeps'
    <2>1. /\ history' = Kept(Append(history, price)) /\ seen' = Append(seen, price)
          /\ indicator' = indicator /\ outputs' = Outputs(history')
      BY <1>6 DEF Bar
    <2>2. history = Kept(seen)
      BY <1>1 DEF NodeKeeps
    <2>3. history' = Kept(Append(seen, price))
      BY <1>2, <1>3, <2>1, <2>2, KeptGrows
    <2>4. (Kept(seen))' = Kept(Append(seen, price))
      BY <2>1 DEF Kept, Cap
    <2>5. (Outputs(history))' = Outputs(history')
      BY <2>1, Zenon DEF Outputs, Calculated, CalculatedMACD, Ready
    <2> QED BY <2>1, <2>3, <2>4, <2>5 DEF NodeKeeps
  <1>7. CASE ~UNCHANGED nodeVars
    <2>1. NodeNext
      BY <1>7, NodeAlone
    <2> QED BY <2>1, <1>5, <1>6 DEF NodeNext
  <1> QED BY <1>4, <1>7

\* What a node puts out agrees with what an indicator that has seen every bar since the
\* reset would say, although the node keeps only the last prices: a window exactly, an
\* exponential average and a MACD within what the dropped prices can weigh, and RSI 100
\* only without a falling price; for any prices and periods, however many bars
\* (IndicatorNode.execute).
THEOREM NodesAlwaysAgree == ResearchSpec => []NodesAgree
  <1>1. NodeInv /\ NodeKeeps => NodesAgree
    BY NodePromises DEF NodesAgree
  <1>2. NodeInv /\ NodeKeeps /\ [ResearchNext]_researchVars => NodeInv' /\ NodeKeeps'
    BY NodeSteps, NodeKeepsSteps
  <1>3. ResearchInit => NodeInv /\ NodeKeeps
    BY NodeStarts, NodeKeepsStart
  <1> QED BY <1>1, <1>2, <1>3, PTL DEF ResearchSpec, researchVars
=============================================================================
