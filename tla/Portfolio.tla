------------------------------ MODULE Portfolio ------------------------------
(***************************************************************************)
(* The backtest portfolio (src/ist/backtest/portfolio.py): orders executed *)
(* at given prices, prices that are updated, positions that are closed.    *)
(*                                                                         *)
(* Quantities and prices are integers.  A position keeps its cost,         *)
(* quantity * avg_entry_price, so that no average needs a fraction.        *)
(***************************************************************************)
EXTENDS Integers, Sequences, FiniteSets, FiniteSetsExt, Functions

CONSTANTS
  Instruments,
  Lots,            \* what an order may ask for
  FillPrices,      \* what it may be filled at, and what prices may be updated to
  Fees,            \* commission or slippage, in money
  InitialCapital,
  MaxTrades        \* bound: orders executed

VARIABLES
  cash,            \* cash
  held,            \* positions, a function on the symbols held
  trades,          \* trades
  commissions, slippages, \* total_commission, total_slippage
  closedAt,        \* how many trades there were when a symbol was last closed
  quoted           \* the price a position was last updated with, 0 if it changed since

portfolioVars == <<cash, held, trades, commissions, slippages, closedAt, quoted>>

NoneHeld == [s \in {} |-> s]
SignedLot(side, lot) == IF side = "buy" THEN lot ELSE -lot
NewPosition == [quantity |-> 0, cost |-> 0, unrealized |-> 0, realized |-> 0]

-----------------------------------------------------------------------------
(* Position                                                                *)

\* A position whose average is not above 0 keeps its old profit.
UpdatePrice(pos, price) ==
  IF pos.quantity * pos.cost <= 0 THEN pos
  ELSE [pos EXCEPT !.unrealized = IF pos.quantity < 0 THEN pos.cost - pos.quantity * price
                                  ELSE pos.quantity * price - pos.cost]

\* Mutant: a reversed position keeps the costs of the old side.
AddQuantity_KeepsCost(pos, lot, price) ==
  LET q == pos.quantity + lot IN
  IF pos.quantity * q < 0
    THEN [pos EXCEPT !.realized = @ - (pos.quantity * price - pos.cost), !.quantity = q]
    ELSE [pos EXCEPT !.quantity = q, !.cost = IF q = 0 THEN 0 ELSE @ + lot * price]

\* A reversal books the profit of the side it closes, with its sign turned
\* round; any other change averages.
AddQuantity(pos, lot, price) ==
  LET q == pos.quantity + lot IN
  IF pos.quantity * q < 0
    THEN [pos EXCEPT !.realized = @ - (pos.quantity * price - pos.cost),
                     !.quantity = q, !.cost = q * price]
    ELSE [pos EXCEPT !.quantity = q, !.cost = IF q = 0 THEN 0 ELSE @ + lot * price]

\* What close leaves of a position, long or short
Close(pos, price) ==
  [pos EXCEPT !.realized = @ + pos.quantity * price - pos.cost, !.quantity = 0, !.unrealized = 0]

-----------------------------------------------------------------------------
(* Portfolio                                                               *)

WithPosition(s, pos) ==
  [x \in DOMAIN held \cup {s} |-> IF x = s THEN pos ELSE held[x]]

\* A position that has become flat is deleted.
ExecuteOrder ==
  /\ Len(trades) < MaxTrades
  /\ \E s \in Instruments, side \in {"buy", "sell"}, lot \in Lots, price \in FillPrices,
        commission \in Fees, slippage \in Fees :
       LET pos == AddQuantity(IF s \in DOMAIN held THEN held[s] ELSE NewPosition,
                              SignedLot(side, lot), price)
       IN
       /\ cash' = cash - SignedLot(side, lot * price) - commission - slippage
       /\ commissions' = commissions + commission
       /\ slippages' = slippages + slippage
       /\ trades' = Append(trades, [symbol |-> s, side |-> side, quantity |-> lot,
                                    price |-> price, commission |-> commission,
                                    slippage |-> slippage])
       /\ held' = IF pos.quantity = 0 THEN Restrict(held, DOMAIN held \ {s})
                  ELSE WithPosition(s, pos)
       /\ quoted' = [quoted EXCEPT ![s] = 0]
  /\ UNCHANGED closedAt

UpdatePrices ==
  \E prices \in UNION {[S -> FillPrices] : S \in (SUBSET Instruments) \ {{}}} :
    /\ held' = [s \in DOMAIN held |->
                  IF s \in DOMAIN prices THEN UpdatePrice(held[s], prices[s]) ELSE held[s]]
    /\ quoted' = [s \in Instruments |->
                    IF s \in DOMAIN held \cap DOMAIN prices THEN prices[s] ELSE quoted[s]]
    /\ UNCHANGED <<cash, trades, commissions, slippages, closedAt>>

\* Position.close has set the quantity to 0 when the cash is updated with it.
ClosePosition(s, price) ==
  /\ s \in DOMAIN held
  /\ cash' = cash + Close(held[s], price).quantity * price
  /\ held' = Restrict(held, DOMAIN held \ {s})
  /\ closedAt' = [closedAt EXCEPT ![s] = Len(trades)]
  /\ quoted' = [quoted EXCEPT ![s] = 0]
  /\ UNCHANGED <<trades, commissions, slippages>>

PortfolioInit ==
  /\ cash = InitialCapital /\ held = NoneHeld /\ trades = <<>>
  /\ commissions = 0 /\ slippages = 0
  /\ closedAt = [s \in Instruments |-> 0] /\ quoted = [s \in Instruments |-> 0]

PortfolioNext ==
  \/ ExecuteOrder \/ UpdatePrices
  \/ \E s \in Instruments, price \in FillPrices : ClosePosition(s, price)

PortfolioSpec == PortfolioInit /\ [][PortfolioNext]_portfolioVars

-----------------------------------------------------------------------------
(* Properties                                                              *)

Lot(i) == SignedLot(trades[i].side, trades[i].quantity)
\* Of every trade, what it adds to the position and what that cost
Changes == [i \in DOMAIN trades |-> Lot(i)]
Amounts == [i \in DOMAIN trades |-> Lot(i) * trades[i].price]
\* The trades of s since close_position was last called for it, and the
\* position they add up to after trade i
Since(s) == {i \in DOMAIN trades : trades[i].symbol = s /\ i > closedAt[s]}
After(s, i) == SumFunctionOnSet(Changes, {j \in Since(s) : j <= i})
\* The trades since the position was last opened or turned round, that one first
Opening(s) == Max({i \in Since(s) : After(s, i - 1) * After(s, i) <= 0})
Added(s) == {i \in Since(s) : i > Opening(s)}

Unreduced(s) == \A i \in Added(s) : Lot(i) * After(s, Len(trades)) > 0
\* What was paid for the position as it stands
Paid(s) == After(s, Opening(s)) * trades[Opening(s)].price + SumFunctionOnSet(Amounts, Added(s))

\* The trades account for the fees, for every position and, until close_position is
\* first called, for the cash.  The entry price of a position is the average of what
\* was paid since it was opened or turned round, unless it was reduced, and what a
\* long one has not realized is its profit at the last quote.  None is kept flat
\* (execute_order, close_position, Position).
PortfolioBalances ==
  /\ (\A s \in Instruments : closedAt[s] = 0) =>
       cash = InitialCapital - SumFunction(Amounts) - commissions - slippages
  /\ commissions = SumFunction([i \in DOMAIN trades |-> trades[i].commission])
  /\ slippages = SumFunction([i \in DOMAIN trades |-> trades[i].slippage])
  /\ \A s \in Instruments : s \in DOMAIN held <=> After(s, Len(trades)) # 0
  /\ \A s \in DOMAIN held :
       LET q == After(s, Len(trades)) IN
       /\ held[s].quantity = q
       /\ Unreduced(s) =>
            /\ held[s].cost = Paid(s)
            /\ q > 0 /\ quoted[s] # 0 => held[s].unrealized = q * quoted[s] - Paid(s)
=============================================================================
