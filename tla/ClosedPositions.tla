--------------------------- MODULE ClosedPositions ---------------------------
(***************************************************************************)
(* The portfolio, with what its closed positions were worth recorded       *)
(* beside it: the quantity that close_position is told of, at the price it *)
(* is given (src/ist/backtest/portfolio.py).                               *)
(***************************************************************************)
EXTENDS Portfolio

VARIABLE proceeds

RecordedNext ==
  \/ (ExecuteOrder \/ UpdatePrices) /\ UNCHANGED proceeds
  \/ \E s \in DOMAIN held, price \in FillPrices :
       /\ ClosePosition(s, price)
       /\ proceeds' = proceeds + held[s].quantity * price

RecordedSpec == PortfolioInit /\ proceeds = 0 /\ [][RecordedNext]_<<portfolioVars, proceeds>>

\* "Update cash": whoever closes a long position is paid what it was worth, and whoever
\* closes a short one pays it (close_position).
ClosingsArePaid ==
  cash = InitialCapital - SumFunction(Amounts) - commissions - slippages + proceeds
=============================================================================
