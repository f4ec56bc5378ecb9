---------------------------- MODULE PaperBroker ----------------------------
(***************************************************************************)
(* The paper broker (src/ist/execution/paper.py): cash, positions and      *)
(* executed orders, while coroutines place orders and survey the account.  *)
(*                                                                         *)
(* The broker awaits only its data provider's quotes.  What a coroutine    *)
(* does between two quotes is one action.  Money and quantities are        *)
(* integers, and a position keeps its cost, quantity * avg_entry_price, so *)
(* that no average needs a fraction.                                       *)
(***************************************************************************)
EXTENDS Integers, FiniteSets, Functions

CONSTANTS
  Symbols, Tasks,
  NoSymbol,         \* distinct from every symbol
  Quantities,       \* what an order may ask for
  Prices,           \* what a quote may say
  Capital,          \* initial_capital
  Slippage,         \* slippage per unit
  RateNum, RateDen, \* commission_rate is RateNum / RateDen
  MaxOrders         \* bound: orders placed between two resets

ASSUME PaperAssumption ==
  /\ IsFiniteSet(Symbols) /\ NoSymbol \notin Symbols
  /\ Quantities \subseteq Nat \ {0} /\ Prices \subseteq Nat
  /\ Capital \in Nat /\ Slippage \in Nat /\ MaxOrders \in Nat
  /\ \A p \in Prices : Slippage <= p
  /\ RateNum \in Nat /\ RateDen \in Nat \ {0} /\ RateNum <= RateDen

VARIABLES
  cash,      \* _cash
  equity,    \* _equity
  positions, \* _positions, a function on the symbols held
  slots,     \* how many keys _positions was given since it was last empty
  orders,    \* _orders, a function on order ids
  counter,   \* _order_counter
  call,      \* what each coroutine waits for
  overtaken  \* some order was being placed at the last reset

paperVars == <<cash, equity, positions, slots, orders, counter, call, overtaken>>

Idle == [op |-> "idle"]
NoEntries == [k \in {} |-> k] \* an empty dictionary
Sides == {"BUY", "SELL"}
Surveys == {"account", "positions"} \* get_account_info, get_positions

Signed(side, q) == IF side = "BUY" THEN q ELSE -q
FillPrice(side, price) == IF side = "BUY" THEN price + Slippage ELSE price - Slippage
Commission(v) == (v * RateNum) \div RateDen
AbsVal(n) == IF n < 0 THEN -n ELSE n

-----------------------------------------------------------------------------
(* place_order                                                             *)

\* Mutant: the order's number is taken when the quote has come.
PlaceCall_NumbersLate(t) ==
  /\ call[t] = Idle
  /\ counter < MaxOrders
  /\ \E s \in Symbols, side \in Sides, q \in Quantities :
       call' = [call EXCEPT ![t] = [op |-> "place", id |-> Cardinality(DOMAIN orders) + 1,
                                    symbol |-> s, side |-> side, quantity |-> q]]
  /\ counter' = counter + 1
  /\ UNCHANGED <<cash, equity, positions, slots, orders, overtaken>>

PlaceCall(t) ==
  /\ call[t] = Idle
  /\ counter < MaxOrders
  /\ counter' = counter + 1
  /\ \E s \in Symbols, side \in Sides, q \in Quantities :
       call' = [call EXCEPT ![t] = [op |-> "place", id |-> counter',
                                    symbol |-> s, side |-> side, quantity |-> q]]
  /\ UNCHANGED <<cash, equity, positions, slots, orders, overtaken>>

\* No quote, a simulated miss, or too little cash.
PlaceRejected(t) ==
  /\ call[t].op = "place"
  /\ call' = [call EXCEPT ![t] = Idle]
  /\ UNCHANGED <<cash, equity, positions, slots, orders, counter, overtaken>>

\* The cost of a position after a fill.  One that stays on its side is averaged.
NewCost(pos, q, signed, price) ==
  IF pos.quantity * q > 0
    THEN LET total == AbsVal(pos.cost + signed * price) IN IF q > 0 THEN total ELSE -total
    ELSE q * price

UpdatePosition(s, signed, price) ==
  LET held == s \in DOMAIN positions
      pos == IF held THEN positions[s]
             ELSE [quantity |-> 0, cost |-> 0, market |-> price, slot |-> slots + 1]
      q == pos.quantity + signed
  IN
  /\ slots' = IF held THEN slots ELSE slots + 1
  /\ positions' =
       IF q = 0 THEN Restrict(positions, DOMAIN positions \ {s})
       ELSE [x \in DOMAIN positions \cup {s} |->
               IF x = s THEN [quantity |-> q, cost |-> NewCost(pos, q, signed, price),
                              market |-> price, slot |-> pos.slot]
               ELSE positions[x]]

\* Mutant: the commission is left out of the check.
Covered_NoCommission(side, v) == side = "BUY" => v <= cash

\* Sells need neither the position nor the cash.
Covered(side, v) == side = "BUY" => v + Commission(v) <= cash

PlaceFilled(t) ==
  LET c == call[t] IN
  /\ c.op = "place"
  /\ \E quote \in Prices :
       LET price == FillPrice(c.side, quote)
           v == c.quantity * price
           signed == Signed(c.side, c.quantity)
       IN
       /\ Covered(c.side, v)
       /\ cash' = cash - Signed(c.side, v) - Commission(v)
       /\ UpdatePosition(c.symbol, signed, price)
       /\ orders' = [i \in DOMAIN orders \cup {c.id} |->
                       IF i = c.id THEN [symbol |-> c.symbol, quantity |-> signed, price |-> price]
                       ELSE orders[i]]
  /\ call' = [call EXCEPT ![t] = Idle]
  /\ UNCHANGED <<equity, counter, overtaken>>

-----------------------------------------------------------------------------
(* get_account_info and get_positions: a loop over the dictionary of       *)
(* positions, which awaits a quote for each.  Python ends the loop with a  *)
(* RuntimeError once the dictionary has changed its size, or when it finds *)
(* a key too many; keys are visited in the order they were inserted.       *)

Later(c) == {s \in DOMAIN positions : positions[s].slot > c.slot}

\* The loop c of t asks for the next position's quote, or ends.
NextPosition(t, c) ==
  /\ Cardinality(DOMAIN positions) = c.size
  /\ \/ /\ Later(c) = {}
        /\ equity' = IF c.op = "account" THEN cash + c.worth ELSE equity
        /\ call' = [call EXCEPT ![t] = Idle]
     \/ /\ c.visits < c.size
        /\ \E s \in Later(c) :
             /\ \A other \in Later(c) : positions[s].slot <= positions[other].slot
             /\ call' = [call EXCEPT ![t] =
                           [op |-> c.op, symbol |-> s, slot |-> positions[s].slot,
                            size |-> c.size, visits |-> c.visits + 1,
                            left |-> 0, worth |-> c.worth]]
        /\ UNCHANGED equity

SurveyCall(t) ==
  /\ call[t] = Idle
  /\ \E op \in Surveys :
       NextPosition(t, [op |-> op, symbol |-> NoSymbol, slot |-> 0,
                        size |-> Cardinality(DOMAIN positions), visits |-> 0,
                        left |-> 0, worth |-> 0])
  /\ UNCHANGED <<cash, positions, slots, orders, counter, overtaken>>

\* The loop still holds the position it asked about: what its quantity is now, or
\* was when it left the dictionary.
Holds(c) == c.symbol \in DOMAIN positions /\ positions[c.symbol].slot = c.slot
HeldQuantity(c) == IF Holds(c) THEN positions[c.symbol].quantity ELSE c.left

SurveyQuoted(t) ==
  LET c == call[t] IN
  /\ c.op \in Surveys
  /\ \/ /\ \E quote \in Prices :
             /\ NextPosition(t, [c EXCEPT !.worth = @ + HeldQuantity(c) * quote])
             /\ positions' = IF c.op = "positions" /\ Holds(c)
                               THEN [positions EXCEPT ![c.symbol] = [@ EXCEPT !.market = quote]]
                               ELSE positions
     \/ NextPosition(t, c) /\ UNCHANGED positions
  /\ UNCHANGED <<cash, slots, orders, counter, overtaken>>

\* The provider raised, or the dictionary changed under the loop.
SurveyRaises(t) ==
  /\ call[t].op \in Surveys
  /\ call' = [call EXCEPT ![t] = Idle]
  /\ UNCHANGED <<cash, equity, positions, slots, orders, counter, overtaken>>

-----------------------------------------------------------------------------
\* Nothing keeps reset from overtaking coroutines; what they hold stays theirs.
reset ==
  /\ cash' = Capital /\ equity' = Capital
  /\ positions' = NoEntries /\ slots' = 0
  /\ orders' = NoEntries /\ counter' = 0
  /\ call' = [t \in Tasks |-> IF call[t].op \in Surveys
                                THEN [call[t] EXCEPT !.left = HeldQuantity(call[t]),
                                                  !.symbol = NoSymbol]
                                ELSE call[t]]
  /\ overtaken' = \E t \in Tasks : call[t].op = "place"

PaperInit ==
  /\ cash = Capital /\ equity = Capital
  /\ positions = NoEntries /\ slots = 0
  /\ orders = NoEntries /\ counter = 0
  /\ call = [t \in Tasks |-> Idle]
  /\ overtaken = FALSE

PaperNext ==
  \/ \E t \in Tasks :
       \/ PlaceCall(t) \/ PlaceRejected(t) \/ PlaceFilled(t)
       \/ SurveyCall(t) \/ SurveyQuoted(t) \/ SurveyRaises(t)
  \/ reset

PaperSpec == PaperInit /\ [][PaperNext]_paperVars

-----------------------------------------------------------------------------
(* Properties                                                              *)

PositionRecord == [quantity : Int \ {0}, cost : Int, market : Nat, slot : Nat \ {0}]
OrderRecord == [symbol : Symbols, quantity : Int \ {0}, price : Nat]
Placement == [op : {"place"}, id : Nat \ {0}, symbol : Symbols, side : Sides,
              quantity : Quantities]
Survey == [op : Surveys, symbol : Symbols \cup {NoSymbol}, slot : Nat, size : Nat,
           visits : Nat, left : Int, worth : Int]
Call == {Idle} \cup Placement \cup Survey

PaperTypeOK ==
  /\ cash \in Int /\ equity \in Int
  /\ DOMAIN positions \subseteq Symbols /\ positions \in [DOMAIN positions -> PositionRecord]
  /\ slots \in Nat
  /\ DOMAIN orders \subseteq Nat \ {0} /\ orders \in [DOMAIN orders -> OrderRecord]
  /\ counter \in 0..MaxOrders
  /\ call \in [Tasks -> Call]
  /\ overtaken \in BOOLEAN

\* Buys never spend cash the account lacks, however many orders are placed at once:
\* the cash is checked and spent after the last await.
CashIsCovered == cash >= 0

Cost(o) == o.quantity * o.price + Commission(AbsVal(o.quantity) * o.price)
Spent == SumFunction([i \in DOMAIN orders |-> Cost(orders[i])])
Traded(s) == SumFunctionOnSet([i \in DOMAIN orders |-> orders[i].quantity],
                              {i \in DOMAIN orders : orders[i].symbol = s})

\* The trade history accounts for every unit of cash and for every position, unless a
\* reset overtook the placement of an order: then ids are given twice.
LedgerBalances ==
  ~overtaken =>
    /\ cash = Capital - Spent
    /\ \A s \in Symbols :
         Traded(s) = IF s \in DOMAIN positions THEN positions[s].quantity ELSE 0
=============================================================================
