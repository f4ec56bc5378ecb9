------------------------- MODULE PaperBrokerProofs -------------------------
(***************************************************************************)
(* What TLAPS proves of PaperBroker: the arithmetic of fees, from it that  *)
(* the cash of an account is never spent twice, and that the history of    *)
(* orders accounts for the cash and for every position.                    *)
(***************************************************************************)
EXTENDS PaperBroker, FiniteSums

\* A commission is part of the value it is charged on.
LEMMA CommissionBounds ==
  ASSUME NEW v \in Nat
  PROVE  Commission(v) \in Nat /\ Commission(v) <= v
  <1>1. RateNum \in Nat /\ RateDen \in Nat /\ RateDen > 0 /\ RateNum <= RateDen
    BY PaperAssumption
  <1>2. DEFINE n == v * RateNum
               k == n \div RateDen
  <1>3. n \in Nat /\ n <= v * RateDen
    BY <1>1
  <1>4. k \in Int /\ RateDen * k <= n /\ n < RateDen * (k + 1)
    BY <1>1, <1>3
  <1>5. k >= 0
    <2>1. SUFFICES ASSUME k + 1 <= 0 PROVE FALSE
      BY <1>4
    <2> HIDE DEF k, n
    <2>2. RateDen * (k + 1) <= 0
      BY <1>1, <1>4, <2>1
    <2>3. QED
      BY <1>1, <1>3, <1>4, <2>2
  <1>6. k <= v
    <2>1. SUFFICES ASSUME v + 1 <= k PROVE FALSE
      BY <1>4
    <2> HIDE DEF k, n
    <2>2. RateDen * (v + 1) <= RateDen * k
      BY <1>1, <1>4, <2>1
    <2>3. QED
      BY <1>1, <1>3, <1>4, <2>2
  <1>7. QED
    BY <1>4, <1>5, <1>6 DEF Commission

LEMMA FillPriceIsNat ==
  ASSUME NEW side \in Sides, NEW p \in Prices
  PROVE  FillPrice(side, p) \in Nat
  BY PaperAssumption DEF FillPrice, Sides

LEMMA NewCostIsInt ==
  ASSUME NEW pos, pos.quantity \in Int, pos.cost \in Int,
         NEW q \in Int, NEW signed \in Int, NEW price \in Nat
  PROVE  NewCost(pos, q, signed, price) \in Int
  BY DEF NewCost, AbsVal

LEMMA NoEntriesType ==
  /\ DOMAIN NoEntries = {}
  /\ NoEntries \in [DOMAIN NoEntries -> PositionRecord]
  /\ NoEntries \in [DOMAIN NoEntries -> OrderRecord]
  BY DEF NoEntries

-----------------------------------------------------------------------------
(* Type correctness                                                        *)

LEMMA FilledTypes ==
  ASSUME PaperTypeOK, NEW t \in Tasks, PlaceFilled(t)
  PROVE  PaperTypeOK'
  <1> DEFINE c == call[t]
             signed == Signed(c.side, c.quantity)
  <1>1. c \in Call /\ c.op = "place"
    BY DEF PaperTypeOK, PlaceFilled
  <1>2. /\ c.id \in Nat \ {0} /\ c.symbol \in Symbols
        /\ c.side \in Sides /\ c.quantity \in Nat \ {0}
    <2>1. c \in Placement
      BY <1>1 DEF Call, Idle, Surveys, Placement, Survey
    <2>2. QED
      BY <2>1, PaperAssumption DEF Placement
  <1>3. signed \in Int \ {0}
    BY <1>2 DEF Signed
  <1>4. PICK quote \in Prices :
          LET price == FillPrice(c.side, quote)
              v == c.quantity * price
          IN  /\ cash' = cash - Signed(c.side, v) - Commission(v)
              /\ UpdatePosition(c.symbol, signed, price)
              /\ orders' = [i \in DOMAIN orders \cup {c.id} |->
                              IF i = c.id
                                THEN [symbol |-> c.symbol, quantity |-> signed, price |-> price]
                                ELSE orders[i]]
    BY DEF PlaceFilled
  <1> DEFINE price == FillPrice(c.side, quote)
             v == c.quantity * price
  <1>5. price \in Nat /\ v \in Nat
    BY <1>2, FillPriceIsNat
  <1>6. cash' \in Int
    BY <1>2, <1>4, <1>5, CommissionBounds DEF Signed, PaperTypeOK
  <1>7. DOMAIN orders' \subseteq Nat \ {0} /\ orders' \in [DOMAIN orders' -> OrderRecord]
    BY <1>2, <1>3, <1>4, <1>5 DEF PaperTypeOK, OrderRecord
  <1>8. /\ DOMAIN positions' \subseteq Symbols /\ positions' \in [DOMAIN positions' -> PositionRecord]
        /\ slots' \in Nat
    <2> DEFINE s == c.symbol
               pos == IF s \in DOMAIN positions THEN positions[s]
                      ELSE [quantity |-> 0, cost |-> 0, market |-> price, slot |-> slots + 1]
               q == pos.quantity + signed
    <2>1. pos.quantity \in Int /\ pos.cost \in Int /\ pos.slot \in Nat \ {0}
      BY <1>5 DEF PaperTypeOK, PositionRecord
    <2>2. q \in Int /\ NewCost(pos, q, signed, price) \in Int
      BY <1>3, <1>5, <2>1, NewCostIsInt
    <2>3. positions' =
            IF q = 0 THEN Restrict(positions, DOMAIN positions \ {s})
            ELSE [x \in DOMAIN positions \cup {s} |->
                    IF x = s THEN [quantity |-> q, cost |-> NewCost(pos, q, signed, price),
                                   market |-> price, slot |-> pos.slot]
                    ELSE positions[x]]
      BY <1>4 DEF UpdatePosition
    <2>4. slots' \in Nat
      BY <1>4 DEF UpdatePosition, PaperTypeOK
    <2>5. CASE q = 0
      BY <2>3, <2>4, <2>5 DEF Restrict, PaperTypeOK
    <2>6. CASE q # 0
      <3> DEFINE new == [quantity |-> q, cost |-> NewCost(pos, q, signed, price),
                         market |-> price, slot |-> pos.slot]
      <3>1. new \in PositionRecord
        BY <1>5, <2>1, <2>2, <2>6 DEF PositionRecord
      <3>2. positions' = [x \in DOMAIN positions \cup {s} |->
                            IF x = s THEN new ELSE positions[x]]
        BY <2>3, <2>6
      <3> HIDE DEF new, s, q, pos
      <3>3. QED
        BY <1>2, <2>4, <3>1, <3>2 DEF PaperTypeOK, s
    <2>7. QED
      BY <2>5, <2>6
  <1>9. QED
    BY <1>6, <1>7, <1>8 DEF PaperTypeOK, PlaceFilled, Call

LEMMA NextPositionTypes ==
  ASSUME PaperTypeOK, NEW t \in Tasks, NEW c, NextPosition(t, c),
         c \in Survey
  PROVE  equity' \in Int /\ call' \in [Tasks -> Call]
  <1>1. CASE Later(c) = {} /\ call' = [call EXCEPT ![t] = Idle]
               /\ equity' = IF c.op = "account" THEN cash + c.worth ELSE equity
    BY <1>1 DEF PaperTypeOK, Call, Survey
  <1>2. ASSUME NEW s \in Later(c), UNCHANGED equity,
               call' = [call EXCEPT ![t] =
                          [op |-> c.op, symbol |-> s, slot |-> positions[s].slot,
                           size |-> c.size, visits |-> c.visits + 1,
                           left |-> 0, worth |-> c.worth]]
        PROVE  equity' \in Int /\ call' \in [Tasks -> Call]
    <2>1. s \in Symbols /\ positions[s].slot \in Nat
      BY <1>2 DEF Later, PaperTypeOK, PositionRecord
    <2>2. [op |-> c.op, symbol |-> s, slot |-> positions[s].slot, size |-> c.size,
           visits |-> c.visits + 1, left |-> 0, worth |-> c.worth] \in Survey
      BY <2>1 DEF Survey
    <2>3. QED
      BY <1>2, <2>2 DEF PaperTypeOK, Call
  <1>3. QED
    BY <1>1, <1>2 DEF NextPosition

LEMMA SurveyTypes ==
  ASSUME PaperTypeOK, NEW t \in Tasks, call[t].op \in Surveys
  PROVE  /\ call[t] \in Survey
         /\ HeldQuantity(call[t]) \in Int
  <1>1. call[t] \in Survey
    BY DEF PaperTypeOK, Call, Surveys, Idle, Placement, Survey
  <1>2. QED
    BY <1>1 DEF HeldQuantity, Holds, PaperTypeOK, PositionRecord, Survey

LEMMA PaperTypeStep ==
  ASSUME PaperTypeOK, [PaperNext]_paperVars
  PROVE  PaperTypeOK'
  <1>1. ASSUME NEW t \in Tasks, PlaceCall(t)
        PROVE  PaperTypeOK'
    <2>1. counter' \in 0..MaxOrders /\ counter' \in Nat \ {0}
      BY <1>1, PaperAssumption DEF PlaceCall, PaperTypeOK
    <2>2. call' \in [Tasks -> Call]
      BY <1>1, <2>1 DEF PlaceCall, PaperTypeOK, Call, Placement
    <2>3. QED
      BY <1>1, <2>1, <2>2 DEF PlaceCall, PaperTypeOK
  <1>2. ASSUME NEW t \in Tasks, PlaceRejected(t) \/ SurveyRaises(t)
        PROVE  PaperTypeOK'
    BY <1>2 DEF PlaceRejected, SurveyRaises, PaperTypeOK, Call
  <1>3. ASSUME NEW t \in Tasks, SurveyCall(t)
        PROVE  PaperTypeOK'
    <2>1. Cardinality(DOMAIN positions) \in Nat
      BY PaperAssumption, FS_CardinalityType, FS_Subset DEF PaperTypeOK
    <2>2. PICK op \in Surveys :
            NextPosition(t, [op |-> op, symbol |-> NoSymbol, slot |-> 0,
                             size |-> Cardinality(DOMAIN positions), visits |-> 0,
                             left |-> 0, worth |-> 0])
      BY <1>3 DEF SurveyCall
    <2>3. equity' \in Int /\ call' \in [Tasks -> Call]
      BY <2>1, <2>2, NextPositionTypes DEF Survey
    <2>4. QED
      BY <1>3, <2>3 DEF SurveyCall, PaperTypeOK
  <1>4. ASSUME NEW t \in Tasks, SurveyQuoted(t)
        PROVE  PaperTypeOK'
    <2> DEFINE c == call[t]
    <2>1. /\ c \in Survey
          /\ HeldQuantity(c) \in Int
      BY <1>4, SurveyTypes DEF SurveyQuoted
    <2>2. ASSUME NEW quote \in Prices,
                 NextPosition(t, [c EXCEPT !.worth = @ + HeldQuantity(c) * quote])
          PROVE  equity' \in Int /\ call' \in [Tasks -> Call]
      <3>1. quote \in Nat
        BY PaperAssumption
      <3>2. [c EXCEPT !.worth = @ + HeldQuantity(c) * quote]
              \in Survey
        BY <2>1, <3>1 DEF Survey
      <3>3. QED
        BY <2>2, <3>2, NextPositionTypes
    <2>3. equity' \in Int /\ call' \in [Tasks -> Call]
      BY <1>4, <2>1, <2>2, NextPositionTypes DEF SurveyQuoted
    <2>4. DOMAIN positions' = DOMAIN positions /\ positions' \in [DOMAIN positions' -> PositionRecord]
      <3>1. ASSUME NEW quote \in Prices, Holds(c),
                   positions' = [positions EXCEPT ![c.symbol] = [@ EXCEPT !.market = quote]]
            PROVE  DOMAIN positions' = DOMAIN positions
                   /\ positions' \in [DOMAIN positions' -> PositionRecord]
        <4>1. positions[c.symbol] \in PositionRecord /\ quote \in Nat
          BY <3>1, PaperAssumption DEF Holds, PaperTypeOK
        <4>2. [positions[c.symbol] EXCEPT !.market = quote] \in PositionRecord
          BY <4>1 DEF PositionRecord
        <4>3. QED
          BY <3>1, <4>2 DEF Holds, PaperTypeOK
      <3>2. QED
        BY <1>4, <3>1 DEF SurveyQuoted, PaperTypeOK
    <2>5. QED
      BY <1>4, <2>3, <2>4 DEF SurveyQuoted, PaperTypeOK
  <1>5. CASE reset
    <2>1. \A t \in Tasks : call'[t] \in Call
      <3> TAKE t \in Tasks
      <3>1. CASE call[t].op \in Surveys
        <4>1. [call[t] EXCEPT !.left = HeldQuantity(call[t]), !.symbol = NoSymbol]
                \in Survey
          BY <3>1, SurveyTypes DEF Survey
        <4>2. QED
          BY <1>5, <3>1, <4>1 DEF reset, Call
      <3>2. QED
        BY <1>5, <3>1 DEF reset, PaperTypeOK
    <2>2. DOMAIN positions' \subseteq Symbols /\ positions' \in [DOMAIN positions' -> PositionRecord]
      BY <1>5, NoEntriesType DEF reset
    <2>3. DOMAIN orders' \subseteq Nat \ {0} /\ orders' \in [DOMAIN orders' -> OrderRecord]
      BY <1>5, NoEntriesType DEF reset
    <2>4. /\ cash' \in Int /\ equity' \in Int /\ slots' \in Nat /\ counter' \in 0..MaxOrders
          /\ call' \in [Tasks -> Call] /\ overtaken' \in BOOLEAN
      <3>1. cash' \in Int /\ equity' \in Int /\ slots' \in Nat /\ counter' \in 0..MaxOrders
        <4>1. cash' = Capital /\ equity' = Capital /\ slots' = 0 /\ counter' = 0
          BY <1>5, Zenon DEF reset
        <4>2. QED
          BY <4>1, PaperAssumption
      <3>2. call' \in [Tasks -> Call]
        BY <1>5, <2>1 DEF reset
      <3>3. overtaken' \in BOOLEAN
        BY <1>5, Zenon DEF reset
      <3>4. QED
        BY <3>1, <3>2, <3>3
    <2>5. QED
      BY <2>2, <2>3, <2>4 DEF PaperTypeOK
  <1>6. QED
    BY <1>1, <1>2, <1>3, <1>4, <1>5, FilledTypes DEF PaperNext, paperVars, PaperTypeOK

-----------------------------------------------------------------------------
(* Theorems                                                                *)

\* Every reachable state of the broker is well typed: no position is flat, and every
\* order and every loop over the positions holds what its next step needs.
THEOREM PaperTypeCorrect == PaperSpec => []PaperTypeOK
  <1>1. PaperInit => PaperTypeOK
    <2> SUFFICES ASSUME PaperInit PROVE PaperTypeOK
      OBVIOUS
    <2>1. DOMAIN positions \subseteq Symbols /\ positions \in [DOMAIN positions -> PositionRecord]
      BY NoEntriesType DEF PaperInit
    <2>2. DOMAIN orders \subseteq Nat \ {0} /\ orders \in [DOMAIN orders -> OrderRecord]
      BY NoEntriesType DEF PaperInit
    <2>3. /\ cash \in Int /\ equity \in Int /\ slots \in Nat /\ counter \in 0..MaxOrders
          /\ call \in [Tasks -> Call] /\ overtaken \in BOOLEAN
      <3>1. cash \in Int /\ equity \in Int /\ slots \in Nat /\ counter \in 0..MaxOrders
        BY PaperAssumption DEF PaperInit
      <3>2. call \in [Tasks -> Call] /\ overtaken \in BOOLEAN
        BY DEF PaperInit, Call
      <3>3. QED
        BY <3>1, <3>2
    <2>4. QED
      BY <2>1, <2>2, <2>3 DEF PaperTypeOK
  <1>2. QED
    BY <1>1, PaperTypeStep, PTL DEF PaperSpec

\* However many orders are placed at once, and whatever resets do in between, the
\* account never owes cash.
THEOREM CashNeverOwed == PaperSpec => []CashIsCovered
  <1>1. PaperInit => CashIsCovered
    BY PaperAssumption DEF PaperInit, CashIsCovered
  <1>2. ASSUME PaperTypeOK, CashIsCovered, [PaperNext]_paperVars
        PROVE  CashIsCovered'
    <2>1. ASSUME NEW t \in Tasks, PlaceFilled(t)
          PROVE  CashIsCovered'
      <3> DEFINE c == call[t]
      <3>1. c.side \in Sides /\ c.quantity \in Nat
        <4>1. c \in Placement
          BY <1>2, <2>1 DEF PaperTypeOK, PlaceFilled, Call, Idle, Surveys, Placement, Survey
        <4>2. QED
          BY <4>1, PaperAssumption DEF Placement
      <3>2. PICK quote \in Prices :
              LET v == c.quantity * FillPrice(c.side, quote)
              IN  Covered(c.side, v) /\ cash' = cash - Signed(c.side, v) - Commission(v)
        BY <2>1 DEF PlaceFilled
      <3> DEFINE v == c.quantity * FillPrice(c.side, quote)
      <3>3. v \in Nat
        BY <3>1, FillPriceIsNat
      <3>4. Commission(v) \in Nat /\ Commission(v) <= v
        BY <3>3, CommissionBounds
      <3> HIDE DEF v
      <3>5. Covered(c.side, v) /\ cash' = cash - Signed(c.side, v) - Commission(v)
        BY <3>2 DEF v
      <3>6. QED
        BY <1>2, <3>1, <3>3, <3>4, <3>5 DEF Covered, Signed, Sides, CashIsCovered, PaperTypeOK
    <2>2. CASE UNCHANGED cash \/ cash' = Capital
      BY <1>2, <2>2, PaperAssumption DEF CashIsCovered
    <2>3. QED
      BY <1>2, <2>1, <2>2 DEF PaperNext, PlaceCall, PlaceRejected, SurveyCall, SurveyQuoted,
           SurveyRaises, reset, paperVars
  <1>3. QED
    BY <1>1, <1>2, PaperTypeCorrect, PTL DEF PaperSpec

-----------------------------------------------------------------------------
(* The ledger                                                              *)

\* What a history of orders has cost, and what it has traded of a symbol
SpentIn(h) == SumFunctionOnSet([i \in DOMAIN h |-> Cost(h[i])], DOMAIN h)
OrdersOf(h, s) == {i \in DOMAIN h : h[i].symbol = s}
TradedIn(h, s) == SumFunctionOnSet([i \in DOMAIN h |-> h[i].quantity], OrdersOf(h, s))

History(h) == IsFiniteSet(DOMAIN h) /\ h \in [DOMAIN h -> OrderRecord]

LEMMA CostIsInt ==
  ASSUME NEW o \in OrderRecord
  PROVE  Cost(o) \in Int
  <1>1. o.quantity \in Int /\ o.price \in Nat
    BY DEF OrderRecord
  <1>2. AbsVal(o.quantity) \in Nat
    BY <1>1 DEF AbsVal
  <1>3. PICK v : v = AbsVal(o.quantity) * o.price
    OBVIOUS
  <1>4. v \in Nat
    BY <1>1, <1>2, <1>3
  <1>5. Commission(v) \in Int
    BY <1>4, CommissionBounds
  <1>6. QED
    BY <1>1, <1>3, <1>5 DEF Cost

\* One more order adds its cost, and its quantity to what was traded of its symbol.
LEMMA HistoryGrows ==
  ASSUME NEW h, History(h), NEW k, k \notin DOMAIN h, NEW o \in OrderRecord,
         NEW g, g = [i \in DOMAIN h \cup {k} |-> IF i = k THEN o ELSE h[i]]
  PROVE  /\ SpentIn(g) = SpentIn(h) + Cost(o)
         /\ \A s : s # o.symbol => TradedIn(g, s) = TradedIn(h, s)
         /\ TradedIn(g, o.symbol) = TradedIn(h, o.symbol) + o.quantity
  <1>1. /\ DOMAIN g = DOMAIN h \cup {k} /\ g[k] = o
        /\ \A i \in DOMAIN h : g[i] = h[i] /\ h[i] \in OrderRecord
    BY DEF History
  <1>2. SpentIn(g) = SpentIn(h) + Cost(o)
    <2>1. PICK f : f = [i \in DOMAIN h |-> Cost(h[i])]
      OBVIOUS
    <2>2. PICK e : e = [i \in DOMAIN g |-> Cost(g[i])]
      OBVIOUS
    <2>3. \A i \in DOMAIN h : f[i] = e[i]
      BY <1>1, <2>1, <2>2
    <2>4. \A i \in DOMAIN h \cup {k} : e[i] \in Int
      BY <1>1, <2>2, CostIsInt
    <2>5. SumFunctionOnSet(e, DOMAIN h \cup {k}) = SumFunctionOnSet(e, DOMAIN h) + e[k]
      BY <2>4, SumAdd DEF History
    <2>6. SumFunctionOnSet(f, DOMAIN h) = SumFunctionOnSet(e, DOMAIN h)
      BY <2>3, SumSame DEF History
    <2>7. e[k] = Cost(o)
      BY <1>1, <2>2
    <2>8. QED
      BY <1>1, <2>1, <2>2, <2>5, <2>6, <2>7 DEF SpentIn
  <1>3. PICK f : f = [i \in DOMAIN h |-> h[i].quantity]
    OBVIOUS
  <1>4. PICK e : e = [i \in DOMAIN g |-> g[i].quantity]
    OBVIOUS
  <1>5. \A i \in DOMAIN h : f[i] = e[i]
    BY <1>1, <1>3, <1>4
  <1>6. \A i \in DOMAIN h \cup {k} : e[i] \in Int
    BY <1>1, <1>4 DEF OrderRecord
  <1>7. \A s : IsFiniteSet(OrdersOf(h, s)) /\ OrdersOf(h, s) \subseteq DOMAIN h
    BY FS_Subset DEF History, OrdersOf
  <1>8. ASSUME NEW s PROVE SumFunctionOnSet(f, OrdersOf(h, s)) = SumFunctionOnSet(e, OrdersOf(h, s))
    BY <1>5, <1>7, SumSame
  <1>9. ASSUME NEW s, s # o.symbol PROVE TradedIn(g, s) = TradedIn(h, s)
    <2>1. OrdersOf(g, s) = OrdersOf(h, s)
      BY <1>1, <1>9 DEF OrdersOf
    <2>2. QED
      BY <1>3, <1>4, <1>8, <2>1 DEF TradedIn
  <1>10. TradedIn(g, o.symbol) = TradedIn(h, o.symbol) + o.quantity
    <2>1. PICK S : S = OrdersOf(h, o.symbol)
      OBVIOUS
    <2>2. OrdersOf(g, o.symbol) = S \cup {k} /\ k \notin S
      BY <1>1, <2>1 DEF OrdersOf
    <2>3. IsFiniteSet(S) /\ \A i \in S \cup {k} : e[i] \in Int
      BY <1>6, <1>7, <2>1
    <2>4. SumFunctionOnSet(e, S \cup {k}) = SumFunctionOnSet(e, S) + e[k]
      BY <2>2, <2>3, SumAdd
    <2>5. e[k] = o.quantity
      BY <1>1, <1>4
    <2>6. QED
      BY <1>3, <1>4, <1>8, <2>1, <2>2, <2>4, <2>5 DEF TradedIn
  <1>11. QED
    BY <1>2, <1>9, <1>10

\* Before its first order a history has no cost.
LEMMA EmptyHistory ==
  History(NoEntries) /\ SpentIn(NoEntries) = 0 /\ \A s : TradedIn(NoEntries, s) = 0
  <1>1. DOMAIN NoEntries = {} /\ History(NoEntries)
    BY NoEntriesType, FS_EmptySet DEF History
  <1>2. SpentIn(NoEntries) = 0
    BY <1>1, SumEmpty DEF SpentIn
  <1>3. ASSUME NEW s PROVE TradedIn(NoEntries, s) = 0
    <2>1. OrdersOf(NoEntries, s) = {}
      BY <1>1 DEF OrdersOf
    <2>2. QED
      BY <2>1, SumEmpty DEF TradedIn
  <1>4. QED
    BY <1>1, <1>2, <1>3

Quantity(s) == IF s \in DOMAIN positions THEN positions[s].quantity ELSE 0
Places(t) == call[t].op = "place"

\* Unless a reset overtook a placement: the orders have numbers up to the counter, no
\* two placements that wait have the same and none has that of an order, and the
\* history accounts for cash and positions.
LedgerInv ==
  overtaken \/
    /\ DOMAIN orders \subseteq 1..counter
    /\ \A t \in Tasks : Places(t) => call[t].id \in 1..counter /\ call[t].id \notin DOMAIN orders
    /\ \A t, u \in Tasks : Places(t) /\ Places(u) /\ call[t].id = call[u].id => t = u
    /\ cash = Capital - SpentIn(orders)
    /\ \A s \in Symbols : TradedIn(orders, s) = Quantity(s)

\* A step that leaves cash, orders and quantities alone, and takes no number
LEMMA LedgerStays ==
  ASSUME LedgerInv, UNCHANGED <<cash, orders, counter, overtaken>>,
         \A s \in Symbols : Quantity(s)' = Quantity(s),
         \A t \in Tasks : Places(t)' => Places(t) /\ call'[t].id = call[t].id
  PROVE  LedgerInv'
  <1>1. \A s : TradedIn(orders, s)' = TradedIn(orders, s)
    BY DEF TradedIn, OrdersOf
  <1>2. SpentIn(orders)' = SpentIn(orders)
    BY DEF SpentIn
  <1>3. QED
    BY <1>1, <1>2 DEF LedgerInv, Places

\* A fill changes the quantity held of one symbol.
LEMMA PositionChanges ==
  ASSUME PaperTypeOK, NEW s \in Symbols, NEW signed \in Int, NEW price \in Nat,
         UpdatePosition(s, signed, price)
  PROVE  /\ Quantity(s)' = Quantity(s) + signed
         /\ \A x : x # s => Quantity(x)' = Quantity(x)
  <1>1. PICK pos : pos = IF s \in DOMAIN positions THEN positions[s]
                         ELSE [quantity |-> 0, cost |-> 0, market |-> price, slot |-> slots + 1]
    OBVIOUS
  <1>2. PICK q : q = pos.quantity + signed
    OBVIOUS
  <1>3. PICK new : new = [quantity |-> q, cost |-> NewCost(pos, q, signed, price),
                          market |-> price, slot |-> pos.slot]
    OBVIOUS
  <1>4. positions' =
          IF q = 0 THEN Restrict(positions, DOMAIN positions \ {s})
          ELSE [x \in DOMAIN positions \cup {s} |-> IF x = s THEN new ELSE positions[x]]
    BY <1>1, <1>2, <1>3 DEF UpdatePosition
  <1>5. new.quantity = q /\ pos.quantity = Quantity(s)
    BY <1>1, <1>3 DEF Quantity
  <1>6. CASE q = 0
    <2>1. /\ DOMAIN positions' = DOMAIN positions \ {s}
          /\ \A x \in DOMAIN positions' : positions'[x] = positions[x]
      BY <1>4, <1>6 DEF Restrict
    <2>2. QED
      BY <1>2, <1>5, <1>6, <2>1 DEF Quantity
  <1>7. CASE q # 0
    <2>1. /\ DOMAIN positions' = DOMAIN positions \cup {s} /\ positions'[s] = new
          /\ \A x \in DOMAIN positions : x # s => positions'[x] = positions[x]
      BY <1>4, <1>7
    <2>2. QED
      BY <1>2, <1>5, <2>1 DEF Quantity
  <1>8. QED
    BY <1>6, <1>7

LEMMA FilledLedger ==
  ASSUME PaperTypeOK, LedgerInv, NEW t \in Tasks, PlaceFilled(t)
  PROVE  LedgerInv'
  <1>1. PICK c : c = call[t]
    OBVIOUS
  <1>2. /\ c.op = "place" /\ c \in Placement
        /\ c.id \in Nat /\ c.symbol \in Symbols /\ c.side \in Sides /\ c.quantity \in Nat \ {0}
    <2>1. c \in Placement
      BY <1>1 DEF PaperTypeOK, PlaceFilled, Call, Idle, Surveys, Placement, Survey
    <2>2. QED
      BY <2>1, PaperAssumption DEF Placement
  <1>3. PICK signed : signed = Signed(c.side, c.quantity)
    OBVIOUS
  <1>4. PICK quote \in Prices :
          LET price == FillPrice(c.side, quote)
              v == c.quantity * price
          IN  /\ cash' = cash - Signed(c.side, v) - Commission(v)
              /\ UpdatePosition(c.symbol, signed, price)
              /\ orders' = [i \in DOMAIN orders \cup {c.id} |->
                              IF i = c.id
                                THEN [symbol |-> c.symbol, quantity |-> signed, price |-> price]
                                ELSE orders[i]]
    BY <1>1, <1>3 DEF PlaceFilled
  <1>5. PICK price : price = FillPrice(c.side, quote)
    OBVIOUS
  <1>6. price \in Nat
    BY <1>2, <1>5, FillPriceIsNat
  <1>7. PICK o : o = [symbol |-> c.symbol, quantity |-> signed, price |-> price]
    OBVIOUS
  <1>8. /\ o \in OrderRecord /\ o.symbol = c.symbol /\ o.quantity = signed /\ o.price = price
        /\ signed \in Int
    <2>1. signed \in Int \ {0}
      BY <1>2, <1>3 DEF Signed
    <2>2. QED
      BY <1>2, <1>6, <1>7, <2>1 DEF OrderRecord
  <1>9. PICK g : g = [i \in DOMAIN orders \cup {c.id} |-> IF i = c.id THEN o ELSE orders[i]]
    OBVIOUS
  <1>10. PICK v : v = c.quantity * price
    OBVIOUS
  <1>11. /\ cash' = cash - Signed(c.side, v) - Commission(v) /\ orders' = g
         /\ UpdatePosition(c.symbol, signed, price)
    BY <1>4, <1>5, <1>7, <1>9, <1>10
  <1>12. Cost(o) = Signed(c.side, v) + Commission(v) /\ Signed(c.side, v) \in Int /\ Commission(v) \in Int
    <2>1. v \in Nat /\ Commission(v) \in Int
      BY <1>2, <1>6, <1>10, CommissionBounds
    <2>2. AbsVal(o.quantity) = c.quantity
      BY <1>2, <1>3, <1>8 DEF AbsVal, Signed
    <2>3. o.quantity * o.price = Signed(c.side, v)
      BY <1>2, <1>3, <1>6, <1>8, <1>10 DEF Signed
    <2>4. QED
      BY <1>8, <1>10, <2>1, <2>2, <2>3 DEF Cost, Signed
  <1>13. UNCHANGED <<counter, overtaken>> /\ call' = [call EXCEPT ![t] = Idle]
    BY DEF PlaceFilled
  <1>14. /\ Quantity(c.symbol)' = Quantity(c.symbol) + signed
         /\ \A x : x # c.symbol => Quantity(x)' = Quantity(x)
    BY <1>2, <1>6, <1>8, <1>11, PositionChanges
  <1>15. CASE overtaken
    BY <1>13, <1>15 DEF LedgerInv
  <1>16. CASE ~overtaken
    <2>1. /\ DOMAIN orders \subseteq 1..counter /\ c.id \in 1..counter /\ c.id \notin DOMAIN orders
          /\ cash = Capital - SpentIn(orders)
          /\ \A s \in Symbols : TradedIn(orders, s) = Quantity(s)
      BY <1>1, <1>2, <1>16 DEF LedgerInv, Places
    <2>2. History(orders)
      <3>1. counter \in Int
        BY PaperAssumption DEF PaperTypeOK
      <3>2. IsFiniteSet(DOMAIN orders)
        <4>1. IsFiniteSet(1..counter)
          BY <3>1, FS_Interval
        <4>2. QED
          BY <2>1, <4>1, FS_Subset
      <3>3. QED
        BY <3>2 DEF History, PaperTypeOK
    <2>3. /\ SpentIn(g) = SpentIn(orders) + Cost(o)
          /\ \A s : s # o.symbol => TradedIn(g, s) = TradedIn(orders, s)
          /\ TradedIn(g, o.symbol) = TradedIn(orders, o.symbol) + o.quantity
      BY <1>8, <1>9, <2>1, <2>2, HistoryGrows
    <2>4. SpentIn(orders)' = SpentIn(g) /\ \A s : TradedIn(orders, s)' = TradedIn(g, s)
      BY <1>11 DEF SpentIn, TradedIn, OrdersOf
    <2>5. SpentIn(orders) \in Int
      <3>1. \A i \in DOMAIN orders : orders[i] \in OrderRecord
        BY <2>2 DEF History
      <3>2. PICK f : f = [i \in DOMAIN orders |-> Cost(orders[i])]
        OBVIOUS
      <3>3. \A i \in DOMAIN orders : f[i] \in Int
        BY <3>1, <3>2, CostIsInt
      <3>4. SumFunctionOnSet(f, DOMAIN orders) \in Int
        BY <2>2, <3>3, SumInt DEF History
      <3>5. QED
        BY <3>2, <3>4 DEF SpentIn
    <2>6. cash' = Capital - SpentIn(orders)'
      <3>1. Capital \in Int
        BY PaperAssumption
      <3>2. QED
        BY <1>11, <1>12, <2>1, <2>3, <2>4, <2>5, <3>1
    <2>7. \A s \in Symbols : TradedIn(orders, s)' = Quantity(s)'
      BY <1>2, <1>8, <1>14, <2>1, <2>3, <2>4
    <2>8. DOMAIN orders' = DOMAIN orders \cup {c.id}
      BY <1>9, <1>11
    <2>9. call'[t].op = "idle" /\ \A u \in Tasks : u # t => call'[u] = call[u]
      BY <1>13 DEF PaperTypeOK, Idle
    <2>10. \A u \in Tasks : Places(u)' => u # t /\ Places(u) /\ call'[u].id = call[u].id
      BY <2>9 DEF Places
    <2>11. \A u \in Tasks : Places(u)' => call'[u].id \in 1..counter' /\ call'[u].id \notin DOMAIN orders'
      BY <1>1, <1>2, <1>13, <1>16, <2>8, <2>10 DEF LedgerInv, Places
    <2>12. \A x, u \in Tasks : Places(x)' /\ Places(u)' /\ call'[x].id = call'[u].id => x = u
      BY <1>16, <2>10 DEF LedgerInv
    <2>13. QED
      BY <1>13, <2>1, <2>6, <2>7, <2>8, <2>11, <2>12 DEF LedgerInv
  <1>17. QED
    BY <1>15, <1>16

LEMMA CalledLedger ==
  ASSUME PaperTypeOK, LedgerInv, NEW t \in Tasks, PlaceCall(t)
  PROVE  LedgerInv'
  <1>1. UNCHANGED <<cash, positions, orders, overtaken>> /\ counter' = counter + 1 /\ counter \in Nat
    BY PaperAssumption DEF PlaceCall, PaperTypeOK
  <1>2. call'[t].id = counter + 1 /\ \A u \in Tasks : u # t => call'[u] = call[u]
    <2>1. PICK s \in Symbols, side \in Sides, q \in Quantities :
            call' = [call EXCEPT ![t] = [op |-> "place", id |-> counter', symbol |-> s,
                                         side |-> side, quantity |-> q]]
      BY DEF PlaceCall
    <2>2. QED
      BY <1>1, <2>1 DEF PaperTypeOK
  <1>3. /\ SpentIn(orders)' = SpentIn(orders)
        /\ \A s : TradedIn(orders, s)' = TradedIn(orders, s) /\ Quantity(s)' = Quantity(s)
    BY <1>1 DEF SpentIn, TradedIn, OrdersOf, Quantity
  <1>4. QED
    BY <1>1, <1>2, <1>3 DEF LedgerInv, Places

LEMMA SurveyLedger ==
  ASSUME PaperTypeOK, LedgerInv, NEW t \in Tasks,
         SurveyCall(t) \/ SurveyQuoted(t) \/ SurveyRaises(t) \/ PlaceRejected(t)
  PROVE  LedgerInv'
  <1>1. UNCHANGED <<cash, orders, counter, overtaken>>
    BY DEF SurveyCall, SurveyQuoted, SurveyRaises, PlaceRejected
  <1>2. \A s \in Symbols : Quantity(s)' = Quantity(s)
    <2>1. ASSUME NEW quote \in Prices, NEW c, c = call[t], Holds(c),
                 positions' = [positions EXCEPT ![c.symbol] = [@ EXCEPT !.market = quote]]
          PROVE  \A s \in Symbols : Quantity(s)' = Quantity(s)
      <3>1. PICK p : p = [positions[c.symbol] EXCEPT !.market = quote]
        OBVIOUS
      <3>2. c.symbol \in DOMAIN positions /\ positions[c.symbol] \in PositionRecord
        BY <2>1 DEF Holds, PaperTypeOK
      <3>3. p.quantity = positions[c.symbol].quantity
        BY <3>1, <3>2 DEF PositionRecord
      <3>4. positions' = [positions EXCEPT ![c.symbol] = p]
        BY <2>1, <3>1
      <3>5. QED
        BY <3>2, <3>3, <3>4 DEF Quantity
    <2>2. CASE positions' = positions
      BY <2>2 DEF Quantity
    <2>3. QED
      BY <2>1, <2>2 DEF SurveyCall, SurveyQuoted, SurveyRaises, PlaceRejected
  <1>3. ASSUME NEW c, c.op \in Surveys, NextPosition(t, c)
        PROVE  \E d : call' = [call EXCEPT ![t] = d] /\ d.op # "place"
    <2>1. Idle.op # "place"
      BY DEF Idle
    <2>2. ASSUME NEW s
          PROVE  [op |-> c.op, symbol |-> s, slot |-> positions[s].slot, size |-> c.size,
                  visits |-> c.visits + 1, left |-> 0, worth |-> c.worth].op # "place"
      BY <1>3 DEF Surveys
    <2>3. QED
      BY <1>3, <2>1, <2>2 DEF NextPosition
  <1>4. \E d : call' = [call EXCEPT ![t] = d] /\ d.op # "place"
    <2>1. CASE SurveyCall(t)
      <3>1. PICK op \in Surveys :
              NextPosition(t, [op |-> op, symbol |-> NoSymbol, slot |-> 0,
                               size |-> Cardinality(DOMAIN positions), visits |-> 0,
                               left |-> 0, worth |-> 0])
        BY <2>1 DEF SurveyCall
      <3>2. PICK c : c = [op |-> op, symbol |-> NoSymbol, slot |-> 0,
                          size |-> Cardinality(DOMAIN positions), visits |-> 0,
                          left |-> 0, worth |-> 0]
        OBVIOUS
      <3>3. c.op \in Surveys
        BY <3>2
      <3>4. QED
        BY <1>3, <3>1, <3>2, <3>3
    <2>2. CASE SurveyQuoted(t)
      <3>1. call[t] \in Survey
        BY <2>2, SurveyTypes DEF SurveyQuoted
      <3>2. PICK c : NextPosition(t, c)
                     /\ (c = call[t] \/ \E w : c = [call[t] EXCEPT !.worth = w])
        BY <2>2 DEF SurveyQuoted
      <3>3. c.op \in Surveys
        BY <3>1, <3>2 DEF Survey
      <3>4. QED
        BY <1>3, <3>2, <3>3
    <2>3. CASE SurveyRaises(t) \/ PlaceRejected(t)
      <3>1. call' = [call EXCEPT ![t] = Idle] /\ Idle.op # "place"
        BY <2>3 DEF SurveyRaises, PlaceRejected, Idle
      <3>2. QED
        BY <3>1
    <2>4. QED
      BY <2>1, <2>2, <2>3
  <1>5. \A u \in Tasks : Places(u)' => Places(u) /\ call'[u].id = call[u].id
    BY <1>4 DEF PaperTypeOK, Places
  <1>6. QED
    BY <1>1, <1>2, <1>5, LedgerStays

LEMMA ResetLedger ==
  ASSUME PaperTypeOK, reset
  PROVE  LedgerInv'
  <1>1. /\ cash' = Capital /\ positions' = NoEntries /\ orders' = NoEntries
        /\ overtaken' = \E t \in Tasks : call[t].op = "place"
    BY Zenon DEF reset
  <1>2. CASE \E t \in Tasks : call[t].op = "place"
    BY <1>1, <1>2 DEF LedgerInv
  <1>3. CASE \A t \in Tasks : call[t].op # "place"
    <2>1. ASSUME NEW t \in Tasks PROVE ~Places(t)'
      <3>1. CASE call[t].op \in Surveys
        <4>1. PICK c : c = [call[t] EXCEPT !.left = HeldQuantity(call[t]), !.symbol = NoSymbol]
          OBVIOUS
        <4>2. c.op = call[t].op
          BY <3>1, <4>1, SurveyTypes DEF Survey
        <4>3. QED
          BY <3>1, <4>1, <4>2 DEF reset, Places, Surveys
      <3>2. CASE call[t].op \notin Surveys
        BY <1>3, <3>2 DEF reset, Places
      <3>3. QED
        BY <3>1, <3>2
    <2>2. SpentIn(orders)' = 0 /\ \A s : TradedIn(orders, s)' = 0
      BY <1>1, EmptyHistory DEF SpentIn, TradedIn, OrdersOf
    <2>3. DOMAIN orders' = {} /\ \A s : Quantity(s)' = 0
      BY <1>1, NoEntriesType DEF Quantity
    <2>4. Capital = Capital - 0
      BY PaperAssumption
    <2>5. QED
      BY <1>1, <2>1, <2>2, <2>3, <2>4 DEF LedgerInv
  <1>4. QED
    BY <1>2, <1>3

\* The history of orders accounts for every unit of cash and for every position: for
\* any number of coroutines and symbols, whatever is quoted and asked for.
THEOREM LedgerAlwaysBalances == PaperSpec => []LedgerBalances
  <1>1. PaperInit => LedgerInv
    <2> SUFFICES ASSUME PaperInit PROVE LedgerInv
      OBVIOUS
    <2>1. cash = Capital /\ positions = NoEntries /\ orders = NoEntries
          /\ \A t \in Tasks : call[t].op = "idle"
      BY DEF PaperInit, Idle
    <2>2. SpentIn(orders) = 0 /\ \A s : TradedIn(orders, s) = 0
      BY <2>1, EmptyHistory
    <2>3. DOMAIN orders = {} /\ \A s : Quantity(s) = 0
      BY <2>1, NoEntriesType DEF Quantity
    <2>4. Capital = Capital - 0
      BY PaperAssumption
    <2>5. QED
      BY <2>1, <2>2, <2>3, <2>4 DEF LedgerInv, Places
  <1>2. PaperTypeOK /\ LedgerInv /\ [PaperNext]_paperVars => LedgerInv'
    <2> SUFFICES ASSUME PaperTypeOK, LedgerInv, [PaperNext]_paperVars PROVE LedgerInv'
      OBVIOUS
    <2>1. CASE UNCHANGED paperVars
      <3>1. \A s : Quantity(s)' = Quantity(s)
        BY <2>1 DEF paperVars, Quantity
      <3>2. QED
        BY <2>1, <3>1, LedgerStays DEF paperVars, Places
    <2>2. QED
      BY <2>1, FilledLedger, CalledLedger, SurveyLedger, ResetLedger DEF PaperNext
  <1>3. LedgerInv => LedgerBalances
    <2>1. Spent = SpentIn(orders)
      BY DEF Spent, SpentIn, SumFunction
    <2>2. \A s : Traded(s) = TradedIn(orders, s)
      BY DEF Traded, TradedIn, OrdersOf
    <2>3. QED
      BY <2>1, <2>2 DEF LedgerInv, LedgerBalances, Quantity
  <1>4. QED
    BY <1>1, <1>2, <1>3, PaperTypeCorrect, PTL DEF PaperSpec
=============================================================================
