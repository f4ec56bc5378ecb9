----------------------------- MODULE MCAdapters -----------------------------
EXTENDS BrokerAdapters, TLC

MCOrder(type, quantity, priced) ==
  [type |-> type, side |-> "sell", quantity |-> quantity, tif |-> "GTC", priced |-> priced]
MCOrders == {MCOrder("market", 3, TRUE), MCOrder("limit", 2, TRUE), MCOrder("limit", 2, FALSE),
             MCOrder("stop_limit", 2, TRUE)}
AllAdapters == {"alpaca", "oanda", "ib"}

\* A behaviour either trades, on its first client, or it streams and connects again.
Trades == book # <<>> \/ \E t \in Tasks : Waits(t) \/ call[t].op = "sleep"
Restless == client > 1 \/ streams # <<>>
MCNext == AdapterNext /\ ~(Trades /\ Restless)'
MCSpec == AdapterInit /\ [][MCNext]_adapterVars /\ AdapterFairness
=============================================================================
