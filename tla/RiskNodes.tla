------------------------------ MODULE RiskNodes ------------------------------
(***************************************************************************)
(* The nodes that guard a position: trailing stop, risk limits, drawdown   *)
(* protection and threshold levels (src/ist/strategy/nodes).               *)
(*                                                                         *)
(* A behaviour is the life of one such node: it is executed on inputs and  *)
(* reset.  A graph resets it before every execution; whoever drives a node *)
(* himself resets it when he likes.  A required input that is missing      *)
(* fails the node and changes nothing, and is left out.  Sizes, drawdowns  *)
(* and limits are whole percents, and a price or a limit of 0 is the None  *)
(* or 0 that the code takes for none given.                                *)
(***************************************************************************)
EXTENDS Integers, Sequences, FiniteSets, FiniteSetsExt

CONSTANTS
  WatchParams,  \* the nodes: their kind and params
  StopPrices, EntryPrices,
  RiskInputs,   \* the inputs of a RiskNode
  DefaultValue, \* the portfolio value taken for none given: 100000
  Drawdowns, Readings,
  WatchBars     \* bound: executions since the last reset, by the kind of the node

VARIABLES
  watch,  \* the node: its kind and params
  trail,  \* _highest_price, _stop_price (in hundredths) and _activated
  asked,  \* its inputs since the last reset
  told    \* its outputs since the last reset

watchVars == <<watch, trail, asked, told>>

Tells(kind, input, output) ==
  /\ watch.kind = kind
  /\ Len(asked) < WatchBars[kind]
  /\ asked' = Append(asked, input)
  /\ told' = Append(told, output)
  /\ UNCHANGED watch

-----------------------------------------------------------------------------
(* TrailingStopNode                                                        *)

NoTrail == [highest |-> 0, stop |-> 0, activated |-> FALSE]

\* The profit, in percent of the entry, has reached the activation; a node without one
\* and a position without an entry price are always active.
Activated(in) ==
  LET profit == 100 * (in.price - in.entry)
  IN  \/ watch.activation = 0 \/ in.entry = 0
      \/ (IF in.side = "short" THEN -profit ELSE profit) >= watch.activation * in.entry

StopAt(side, price) ==
  price * (IF side = "long" THEN 100 - watch.trail ELSE 100 + watch.trail)

\* Mutant: the stop follows the price wherever it goes.
Trailed_Follows(in) ==
  [highest |-> in.price, stop |-> StopAt(in.side, in.price), activated |-> Activated(in)]

\* Only a price better than the best so far moves the stop: the first one does not.
Trailed(in) ==
  LET best == IF trail.highest = 0 THEN in.price ELSE trail.highest
      better == IF in.side = "long" THEN in.price > best ELSE in.price < best
  IN  [highest |-> IF better THEN in.price ELSE best,
       stop |-> IF better THEN StopAt(in.side, in.price) ELSE trail.stop,
       activated |-> Activated(in)]

StopHit(in, now) ==
  /\ now.activated /\ now.stop # 0
  /\ IF in.side = "long" THEN 100 * in.price <= now.stop ELSE 100 * in.price >= now.stop

ExecuteTrailingStop(in) ==
  /\ trail' = Trailed(in)
  /\ Tells("TrailingStopNode", in, StopHit(in, Trailed(in)))

-----------------------------------------------------------------------------
(* RiskNode                                                                *)

ValueOr(in, other) == IF in.value = 0 THEN other ELSE in.value

WithinLimits(in) ==
  /\ in.size <= watch.limit
  /\ watch.loss = 0 \/ in.pnl >= -watch.loss
  /\ \/ in.atr = 0 \/ watch.cap = 0 \/ ValueOr(in, 1) < 0
     \/ 100 * in.atr <= watch.cap * ValueOr(in, 1)

\* The size after the adjustment for volatility, as a fraction: it is cut by the ATR in
\* percent of the portfolio value, at most to one half.
AdjustedSize(in) ==
  LET value == ValueOr(in, DefaultValue)
      whole == IF value < 0 THEN -value ELSE value
      part == IF value < 0 THEN whole + 100 * in.atr ELSE whole - 100 * in.atr
  IN  CASE in.atr = 0 \/ ~watch.adjust -> [num |-> in.size, den |-> 1]
        [] in.atr # 0 /\ watch.adjust /\ 2 * part < whole -> [num |-> in.size, den |-> 2]
        [] OTHER -> [num |-> in.size * part, den |-> whole]

Refused == [approved |-> FALSE, size |-> [num |-> 0, den |-> 1]]

\* The score of a node whose limit is 0 divides by it: it raises.
ExecuteRisk(in) ==
  /\ watch.kind = "RiskNode" /\ (WithinLimits(in) => watch.limit # 0)
  /\ Tells("RiskNode", in,
           IF WithinLimits(in) THEN [approved |-> in.signal, size |-> AdjustedSize(in)] ELSE Refused)
  /\ UNCHANGED trail

-----------------------------------------------------------------------------
(* DrawdownProtectionNode and ThresholdNode                                *)

\* 0 normal, 1 medium, 2 high, 3 critical.
Urgency(drawdown) ==
  CASE drawdown >= 2 * watch.max -> 3
    [] drawdown < 2 * watch.max /\ 2 * drawdown >= 3 * watch.max -> 2
    [] 2 * drawdown < 3 * watch.max /\ drawdown >= watch.max -> 1
    [] OTHER -> 0

\* In percent.
SizeMultiplier(drawdown) ==
  CASE drawdown < watch.max \/ watch.action = "hedge" -> 100
    [] drawdown >= watch.max /\ watch.action = "stop_trading" -> 0
    [] OTHER -> Max({10, 100 - 10 * (drawdown - watch.max)})

ExecuteDrawdown(drawdown) ==
  /\ watch.kind = "DrawdownProtectionNode"
  /\ Tells("DrawdownProtectionNode", drawdown,
           [urgency |-> Urgency(drawdown), multiplier |-> SizeMultiplier(drawdown)])
  /\ UNCHANGED trail

\* The number of the last level that is reached, and where the value lies between the
\* lowest and the highest level.
Level(value) == Max({0} \cup {i \in DOMAIN watch.levels : value >= watch.levels[i]})
Normalized(value) ==
  LET levels == {watch.levels[i] : i \in DOMAIN watch.levels}
      width == Max(levels) - Min(levels)
  IN  IF levels = {} \/ width = 0 THEN [num |-> 1, den |-> 2]
      ELSE [num |-> Max({0, Min({width, value - Min(levels)})}), den |-> width]

ExecuteThreshold(value) ==
  /\ watch.kind = "ThresholdNode"
  /\ Tells("ThresholdNode", value, [level |-> Level(value), part |-> Normalized(value)])
  /\ UNCHANGED trail

-----------------------------------------------------------------------------
\* reset, which a graph calls before it executes its nodes.
ResetWatch ==
  /\ trail' = NoTrail /\ asked' = <<>> /\ told' = <<>>
  /\ UNCHANGED watch

WatchInit == watch \in WatchParams /\ trail = NoTrail /\ asked = <<>> /\ told = <<>>

WatchNext ==
  \/ \E in \in [price : StopPrices, side : {"long", "short"}, entry : EntryPrices] :
       watch.kind = "TrailingStopNode" /\ ExecuteTrailingStop(in)
  \/ \E in \in RiskInputs : ExecuteRisk(in)
  \/ \E drawdown \in Drawdowns : ExecuteDrawdown(drawdown)
  \/ \E value \in Readings : ExecuteThreshold(value)
  \/ ResetWatch

-----------------------------------------------------------------------------
(* Properties                                                              *)

AtMost(f, g) == f.num * g.den <= g.num * f.den

\* While the side of the position stays, the stop is the best price since the reset less
\* the trail, it exists once a price has bettered the first one, and the node asks to
\* exit on a bar exactly when the price has come back to it.  (After a reset the first
\* bar has no stop: in a graph, which resets on every bar, the node never asks to exit.)
StopTrails ==
  \A side \in {"long", "short"} :
    watch.kind = "TrailingStopNode" /\ asked # <<>> /\ (\A i \in DOMAIN asked : asked[i].side = side) =>
      LET prices == {asked[i].price : i \in DOMAIN asked}
          best == IF side = "long" THEN Max(prices) ELSE Min(prices)
          last == asked[Len(asked)]
          stop == StopAt(side, best)
          back == IF side = "long" THEN 100 * last.price <= stop ELSE 100 * last.price >= stop
      IN  /\ trail.highest = best
          /\ trail.stop = IF best = asked[1].price THEN 0 ELSE stop
          /\ told[Len(told)] <=> trail.activated /\ best # asked[1].price /\ stop # 0 /\ back

\* A node that has approved a position approves every one that is no larger, has lost
\* no more today and is no more volatile, and cuts the size of the calmer one no more;
\* for a portfolio that is worth something it never enlarges a position.
RiskIsMonotone ==
  watch.kind = "RiskNode" =>
    /\ \A i \in DOMAIN asked : asked[i].value >= 0 =>
         AtMost(told[i].size, [num |-> asked[i].size, den |-> 1])
    /\ \A i, j \in DOMAIN asked :
         /\ told[i].approved /\ asked[j].signal /\ asked[i].value = asked[j].value
         /\ asked[j].size <= asked[i].size /\ asked[j].pnl >= asked[i].pnl
         /\ asked[j].atr <= asked[i].atr
         => /\ told[j].approved
            /\ asked[i].value >= 0 /\ asked[i].size = asked[j].size => AtMost(told[i].size, told[j].size)

\* A deeper drawdown never lets a position grow and is never called less urgent, and
\* only a node whose action is stop_trading cuts the size to nothing.
DrawdownIsMonotone ==
  watch.kind = "DrawdownProtectionNode" =>
    \A i, j \in DOMAIN asked :
      /\ asked[i] <= asked[j] => /\ told[j].multiplier <= told[i].multiplier
                                 /\ told[j].urgency >= told[i].urgency
      /\ told[i].multiplier = 0 => watch.action = "stop_trading" /\ told[i].urgency > 0

\* For levels in ascending order the level is how many of them are reached, and a higher
\* value is nowhere lower; for others the node counts a level it has not reached.
LevelsCount ==
  LET ascending == \A i, j \in DOMAIN watch.levels : i < j => watch.levels[i] < watch.levels[j]
  IN  watch.kind = "ThresholdNode" =>
        /\ ascending => \A i \in DOMAIN asked :
             told[i].level = Cardinality({k \in DOMAIN watch.levels : asked[i] >= watch.levels[k]})
        /\ \A i, j \in DOMAIN asked : asked[i] <= asked[j] =>
             told[i].level <= told[j].level /\ AtMost(told[i].part, told[j].part)

\* StopTrails, RiskIsMonotone, DrawdownIsMonotone and LevelsCount: whatever a node has
\* seen since its reset, it guards the position as its parameters say.
RiskNodesGuard == StopTrails /\ RiskIsMonotone /\ DrawdownIsMonotone /\ LevelsCount
=============================================================================
