------------------------ MODULE BrokerAdaptersProofs ------------------------
(***************************************************************************)
(* Proofs about the adapters of remote brokers: what a final status they   *)
(* report is worth, that no order is lost to its caller, and that a        *)
(* connected adapter has a client it can use.                              *)
(***************************************************************************)
EXTENDS BrokerAdapters, SequenceTheorems, TLAPS

-----------------------------------------------------------------------------
(* Orders at the brokers                                                   *)

Types == {"market", "limit", "stop", "stop_limit"}
Tifs == {"GTC", "IOC", "FOK", "DAY"}
Fills == {"none", "some", "all"}

\* The native statuses an order of a broker may come to have
Natives ==
  [alpaca |-> {"new", "accepted", "pending_replace", "partially_filled", "filled", "done_for_day",
               "canceled", "expired", "replaced", "pending_cancel"},
   oanda |-> {"PENDING", "TRIGGERED", "FILLED", "CANCELLED", "EXPIRED"},
   ib |-> {"PendingSubmit", "Submitted", "Filled", "Inactive", "Cancelled", "PendingCancel"}]
AllNatives == Natives.alpaca \cup Natives.oanda \cup Natives.ib
Filled == {"filled", "FILLED", "Filled"}

Booking ==
  [order : Orders, native : AllNatives, fills : Fills,
   sent : [type : Types, side : {"buy", "sell"}, quantity : Nat, tif : Tifs]]

\* A status that says filled is so, and at Interactive Brokers an order that has
\* traded in part is not one that waits to be submitted.
Sound(native, fills) ==
  /\ native \in Natives[adapter]
  /\ native \in Filled => fills = "all"
  /\ adapter = "ib" /\ fills = "some" =>
       native \in {"Submitted", "Inactive", "PendingCancel", "Cancelled"}

\* What the book b may be after a step: no order goes away or is sent again, and one
\* that is finished stays as it is.
Keeps(b) ==
  /\ b \in Seq(Booking)
  /\ \A i \in DOMAIN b : Sound(b[i].native, b[i].fills)
  /\ \A i \in DOMAIN book :
       i \in DOMAIN b /\ b[i].sent = book[i].sent /\ (Finished(book[i]) => b[i] = book[i])

BookInv == adapter \in {"alpaca", "oanda", "ib"} /\ Keeps(book)

LEMMA MovesSound ==
  ASSUME adapter \in {"alpaca", "oanda", "ib"}, NEW x \in Booking, Sound(x.native, x.fills),
         NEW m \in Moves(x)
  PROVE  m[1] \in AllNatives /\ m[2] \in Fills /\ Sound(m[1], m[2])
<1>1. x.fills \in Fills
  BY DEF Booking
<1>2. CASE adapter = "alpaca"
  BY <1>1, <1>2 DEF Moves, Sound, Natives, AllNatives, Fills, Filled
<1>3. CASE adapter = "oanda"
  BY <1>1, <1>3 DEF Moves, Sound, Natives, AllNatives, Fills, Filled
<1>4. CASE adapter = "ib"
  BY <1>1, <1>4 DEF Moves, Sound, Natives, AllNatives, Fills, Filled
<1> QED BY <1>2, <1>3, <1>4

LEMMA ChangeKeeps ==
  ASSUME BookInv, NEW i \in DOMAIN book, ~Finished(book[i]), NEW b, NEW y \in Booking,
         y.sent = book[i].sent, Sound(y.native, y.fills), b = [book EXCEPT ![i] = y]
  PROVE  Keeps(b)
<1>1. book \in Seq(Booking) /\ i \in 1..Len(book)
  BY DEF BookInv, Keeps
<1>2. b \in Seq(Booking) /\ Len(b) = Len(book) /\ \A j \in 1..Len(book) : b[j] = IF j = i THEN y ELSE book[j]
  BY <1>1, ExceptSeq
<1>3. DOMAIN b = DOMAIN book
  BY <1>1, <1>2
<1> QED BY <1>1, <1>2, <1>3 DEF BookInv, Keeps

LEMMA MoveKeeps ==
  ASSUME BookInv, NEW i \in DOMAIN book, ~Finished(book[i]), NEW m \in Moves(book[i]), NEW b,
         b = [book EXCEPT ![i].native = m[1], ![i].fills = m[2]]
  PROVE  Keeps(b)
<1>1. book \in Seq(Booking) /\ book[i] \in Booking /\ Sound(book[i].native, book[i].fills)
  BY ElementOfSeq DEF BookInv, Keeps
<1>2. m[1] \in AllNatives /\ m[2] \in Fills /\ Sound(m[1], m[2])
  BY <1>1, MovesSound DEF BookInv
<1>3. PICK x : x = [book[i] EXCEPT !.native = m[1]]
  OBVIOUS
<1>4. x \in Booking /\ x.native = m[1] /\ x.sent = book[i].sent
  BY <1>1, <1>2, <1>3 DEF Booking
<1>5. PICK y : y = [x EXCEPT !.fills = m[2]]
  OBVIOUS
<1>6. y \in Booking /\ y.native = m[1] /\ y.fills = m[2] /\ y.sent = book[i].sent
  BY <1>2, <1>4, <1>5 DEF Booking
<1>7. b = [book EXCEPT ![i] = y]
  BY <1>1, <1>3, <1>5
<1> QED BY <1>2, <1>6, <1>7, ChangeKeeps

\* An order that is asked to be cancelled
LEMMA AskKeeps ==
  ASSUME BookInv, NEW i \in DOMAIN book, ~Finished(book[i]), NEW b,
         b = [book EXCEPT ![i].native = Asked[adapter]]
  PROVE  Keeps(b) /\ b[i].native = Asked[adapter] /\ i \in DOMAIN b
<1>1. book \in Seq(Booking) /\ book[i] \in Booking /\ Sound(book[i].native, book[i].fills)
  BY ElementOfSeq DEF BookInv, Keeps
<1>2. PICK n : n = Asked[adapter]
  OBVIOUS
<1>3. /\ n \in AllNatives /\ n \in Natives[adapter] /\ n \notin Filled
      /\ adapter = "ib" => n = "PendingCancel"
  BY <1>2 DEF Asked, AllNatives, Natives, Filled, BookInv
<1>4. PICK y : y = [book[i] EXCEPT !.native = n]
  OBVIOUS
<1>5. y \in Booking /\ y.native = n /\ y.fills = book[i].fills /\ y.sent = book[i].sent
  BY <1>1, <1>3, <1>4 DEF Booking
<1>6. Sound(y.native, y.fills)
  BY <1>1, <1>3, <1>5 DEF Sound
<1>7. b = [book EXCEPT ![i] = y]
  BY <1>1, <1>2, <1>4
<1> QED BY <1>1, <1>2, <1>5, <1>6, <1>7, ChangeKeeps

\* What is sent for an order
Sent == [type : Types, side : {"buy", "sell"}, quantity : Nat, tif : Tifs]

LEMMA PayloadSent ==
  ASSUME adapter \in {"alpaca", "oanda", "ib"}, NEW o \in Orders
  PROVE  Payload(o) \in Sent /\ Altered(o, Payload(o)) \subseteq
           {a \in {o} \X {"type", "side", "quantity", "tif"} : Unsupported(a[1], a[2])}
<1>1. /\ o.type \in Types /\ o.side \in {"buy", "sell"} /\ o.quantity \in Nat
      /\ o.tif \in Tifs /\ o.priced \in BOOLEAN
  BY AdapterAssumption DEF Types, Tifs
<1>2. /\ Kind(o) \in Types
      /\ Kind(o) # o.type => o.type = "stop_limit" \/ ~o.priced
  BY <1>1 DEF Kind, Types
<1>3. 2 * (o.quantity \div 2) \in Nat /\ (o.quantity # 2 * (o.quantity \div 2) => o.quantity % 2 = 1)
  BY <1>1
<1>4. PICK p : p = Payload(o)
  OBVIOUS
<1>5. p \in Sent /\ p.type = Kind(o) /\ p.side = o.side
      /\ (p.quantity # o.quantity => adapter = "oanda" /\ o.quantity % 2 = 1)
  <2>1. CASE adapter \in {"alpaca", "ib"}
    BY <1>1, <1>2, <1>4, <2>1 DEF Payload, AlpacaPayload, IbPayload, Sent, Tifs
  <2>2. CASE adapter = "oanda"
    <3>1. PICK q : q = 2 * (o.quantity \div 2)
      OBVIOUS
    <3>2. p = [type |-> Kind(o), side |-> o.side, quantity |-> q,
               tif |-> IF Kind(o) = "market" THEN "FOK" ELSE "GTC"]
      BY <1>4, <2>2, <3>1 DEF Payload, OandaPayload
    <3> QED BY <1>1, <1>2, <1>3, <2>2, <3>1, <3>2 DEF Sent, Tifs
  <2> QED BY <2>1, <2>2
<1>6. ASSUME NEW f \in {"type", "side", "quantity", "tif"}, o[f] # p[f]
      PROVE  Unsupported(o, f)
  <2>1. CASE f = "type"
    BY <1>2, <1>5, <1>6, <2>1 DEF Unsupported
  <2>2. CASE f = "side"
    BY <1>5, <1>6, <2>2
  <2>3. CASE f = "quantity"
    BY <1>5, <1>6, <2>3 DEF Unsupported
  <2>4. CASE f = "tif"
    BY <2>4 DEF Unsupported
  <2> QED BY <1>6, <2>1, <2>2, <2>3, <2>4
<1> QED BY <1>4, <1>5, <1>6 DEF Altered

\* The book b has one more order, sent as p and with the native status n.
Adds(b, p, n) ==
  /\ Len(b) = Len(book) + 1 /\ DOMAIN b = DOMAIN book \cup {Len(b)}
  /\ b[Len(b)].sent = p /\ (n \in Filled => b[Len(b)].fills = "all")

LEMMA BookedKeeps ==
  ASSUME BookInv, NEW o \in Orders, NEW p \in Sent, NEW n \in First[adapter], NEW b,
         b = Booked(book, p, o, n)
  PROVE  Keeps(b) /\ Adds(b, p, n)
<1>1. book \in Seq(Booking)
  BY DEF BookInv, Keeps
<1>2. PICK x : x = [order |-> o, sent |-> p, native |-> n,
                    fills |-> IF n \in {"filled", "FILLED", "Filled"} THEN "all" ELSE "none"]
  OBVIOUS
<1>3. n \in AllNatives /\ n \in Natives[adapter]
  BY DEF First, AllNatives, Natives, BookInv
<1>4. /\ x \in Booking /\ x.native = n /\ x.sent = p /\ x.fills \in {"all", "none"}
      /\ n \in Filled => x.fills = "all"
  BY <1>2, <1>3 DEF Booking, Fills, Filled, Sent
<1>5. b = Append(book, x)
  BY <1>2 DEF Booked
<1>6. /\ b \in Seq(Booking) /\ Len(b) = Len(book) + 1 /\ b[Len(b)] = x
      /\ \A i \in 1..Len(book) : b[i] = book[i]
  BY <1>1, <1>4, <1>5, AppendProperties
<1>7. DOMAIN book = 1..Len(book) /\ DOMAIN b = 1..(Len(book) + 1) /\ Len(book) \in Nat
  BY <1>1, <1>6
<1>8. Sound(x.native, x.fills)
  BY <1>3, <1>4 DEF Sound
<1>9. \A i \in DOMAIN b : Sound(b[i].native, b[i].fills)
  BY <1>6, <1>7, <1>8 DEF BookInv, Keeps
<1> QED BY <1>4, <1>6, <1>7, <1>9 DEF Keeps, Adds

-----------------------------------------------------------------------------
(* What the coroutines wait for                                            *)

Asks == {"cancel", "status", "list", "data", "candles"}
Answers == AllNatives \cup {"none", "ok", "missing", "error"}

\* Calls that wait for nothing but their return, for a connection, for a stream
Bare == [op : {"idle", "close", "sleep"}]
Connecting == [op : {"connect"}, client : Nat, answer : {"none", "ok", "error"}]
Stopping == [op : {"stop", "resubscribe"}, stream : Nat]
Placing == [op : {"place"}, client : Nat, id : Nat, answer : Answers, order : Orders]
Asking == [op : Asks, client : Nat, id : Nat, answer : Answers]
Call == Bare \cup Connecting \cup Stopping \cup Placing \cup Asking

LEMMA CallOps ==
  ASSUME NEW c \in Call
  PROVE  /\ c.op \in {"idle", "close", "sleep"} <=> c \in Bare
         /\ c.op = "connect" <=> c \in Connecting
         /\ c.op \in {"stop", "resubscribe"} <=> c \in Stopping
         /\ c.op = "place" <=> c \in Placing
         /\ c.op \in Asks <=> c \in Asking
  BY DEF Call, Bare, Connecting, Stopping, Placing, Asking, Asks

\* The answer to a placement is the status of the order that was booked for it, as it
\* was sent; one whose answer is not there has no order yet.
PlaceFits(c) ==
  /\ Rest
  /\ c.answer \in First[adapter] \cup {"none", "error"}
  /\ c.answer = "none" => c.id = 0
  /\ c.answer \in First[adapter] =>
       /\ c.id \in DOMAIN book /\ book[c.id].sent = Payload(c.order)
       /\ c.answer \in Filled => book[c.id].fills = "all"

CancelFits(c) ==
  /\ Rest /\ c.id \in DOMAIN book
  /\ c.answer \in {"none", "error", "missing", Asked[adapter]}
  /\ c.answer \in Dead => Finished(book[c.id])

StatusFits(c) ==
  /\ Rest /\ c.id \in DOMAIN book
  /\ c.answer \in Natives[adapter] \cup {"none", "error"}
  /\ c.answer \in Dead => Finished(book[c.id])
  /\ c.answer \in Filled => book[c.id].fills = "all"

QueryFits(c) == Rest /\ c.answer \in {"none", "error", "ok"}

CallFits(c) ==
  /\ c.op = "place" => PlaceFits(c)
  /\ c.op = "cancel" => CancelFits(c)
  /\ c.op = "status" => StatusFits(c)
  /\ c.op \in {"list", "data", "candles"} => QueryFits(c)

CallsInv == call \in [Tasks -> Call] /\ \A t \in Tasks : CallFits(call[t])
TradeInv ==
  BookInv /\ CallsInv /\ told \subseteq DOMAIN book /\ client \in Nat /\ wsTask \in Nat

\* A call goes on fitting whatever happens to the book.
LEMMA FitsStays ==
  ASSUME BookInv, Keeps(book'), adapter' = adapter, NEW c, CallFits(c)
  PROVE  CallFits(c)'
<1>1. \A i \in DOMAIN book : i \in DOMAIN book' /\ book'[i].sent = book[i].sent
        /\ (Finished(book[i]) => book'[i] = book[i])
  BY DEF Keeps
<1>2. \A i \in DOMAIN book : Finished(book[i]) => Finished(book[i])'
  <2> SUFFICES ASSUME NEW i \in DOMAIN book, Finished(book[i]) PROVE Finished(book[i])'
    OBVIOUS
  <2> QED BY <1>1 DEF Finished
<1>3. \A i \in DOMAIN book : book[i].fills = "all" => book'[i].fills = "all"
  BY <1>1 DEF Finished
<1>4. ASSUME c.op = "place" PROVE PlaceFits(c)'
  <2>1. PlaceFits(c)
    BY <1>4 DEF CallFits
  <2>2. PICK p : p = Payload(c.order)
    OBVIOUS
  <2>3. Payload(c.order)' = p
    BY <2>2 DEF Payload
  <2> QED BY <1>1, <1>3, <2>1, <2>2, <2>3 DEF PlaceFits, Rest
<1>5. ASSUME c.op = "cancel" PROVE CancelFits(c)'
  BY <1>1, <1>2, <1>5 DEF CallFits, CancelFits, Rest
<1>6. ASSUME c.op = "status" PROVE StatusFits(c)'
  BY <1>1, <1>2, <1>3, <1>6 DEF CallFits, StatusFits, Rest
<1>7. ASSUME c.op \in {"list", "data", "candles"} PROVE QueryFits(c)'
  BY <1>7 DEF CallFits, QueryFits, Rest
<1> QED BY <1>4, <1>5, <1>6, <1>7 DEF CallFits

\* Some coroutine is told the id of the order i, has been, or was told it is rejected.
PlacesIt(i) == \E t \in Tasks : call[t].op = "place" /\ call[t].id = i
HasOwner(i) == i \in told \/ PlacesIt(i) \/ \E u \in untrue : u.id = i /\ u.report = "REJECTED"

\* What a step does to orders and to what is known of them
Moved ==
  /\ adapter' = adapter /\ Keeps(book') /\ CallsInv' /\ client' \in Nat /\ wsTask' \in Nat
  /\ told' \subseteq DOMAIN book'
  /\ \A u \in untrue' : u \in untrue \/ <<u.answer, u.report>> \in KnownUntrue
  /\ \A a \in altered' : a \in altered \/ Unsupported(a[1], a[2])
  /\ \A i \in DOMAIN book' :
       (i \in DOMAIN book => HasOwner(i)) => DeadUntraded(book'[i]) \/ HasOwner(i)'

\* At most one call changes, and a coroutine that places an order goes on placing it.
CallGoes ==
  \/ call' = call
  \/ \E t \in Tasks, c \in Call :
       /\ call' = [call EXCEPT ![t] = c] /\ CallFits(c)'
       /\ call[t].op = "place" /\ call[t].id # 0 => c.op = "place" /\ c.id = call[t].id

LEMMA CallsGo ==
  ASSUME TradeInv, Keeps(book'), adapter' = adapter, CallGoes
  PROVE  CallsInv' /\ \A i \in DOMAIN book : PlacesIt(i) => PlacesIt(i)'
<1>1. \A t \in Tasks : CallFits(call[t])
  BY DEF TradeInv, CallsInv
<1>2. ASSUME NEW c, CallFits(c) PROVE CallFits(c)'
  BY <1>2, FitsStays DEF TradeInv
<1>3. \A i \in DOMAIN book : i # 0
  BY DEF TradeInv, BookInv, Keeps
<1>4. CASE call' = call
  <2>1. ASSUME NEW t \in Tasks PROVE CallFits(call[t])'
    <3>1. PICK c : c = call[t]
      OBVIOUS
    <3>2. CallFits(c)'
      BY <1>1, <1>2, <3>1
    <3>3. call'[t] = c
      BY <1>4, <3>1
    <3> QED BY <3>2, <3>3 DEF CallFits, PlaceFits, CancelFits, StatusFits, QueryFits, Payload
  <2> QED BY <1>4, <2>1 DEF TradeInv, CallsInv, PlacesIt
<1>5. CASE \E t \in Tasks, c \in Call :
       /\ call' = [call EXCEPT ![t] = c] /\ CallFits(c)'
       /\ call[t].op = "place" /\ call[t].id # 0 => c.op = "place" /\ c.id = call[t].id
  <2>1. PICK t \in Tasks, c \in Call :
       /\ call' = [call EXCEPT ![t] = c] /\ CallFits(c)'
       /\ call[t].op = "place" /\ call[t].id # 0 => c.op = "place" /\ c.id = call[t].id
    BY <1>5
  <2>2. /\ call' \in [Tasks -> Call] /\ call'[t] = c
        /\ \A u \in Tasks : u # t => call'[u] = call[u]
    BY <2>1 DEF TradeInv, CallsInv
  <2>3. ASSUME NEW u \in Tasks PROVE CallFits(call[u])'
    <3>1. PICK d : d = call'[u]
      OBVIOUS
    <3>2. CallFits(d)'
      <4>1. CASE u = t
        BY <2>1, <2>2, <3>1, <4>1
      <4>2. CASE u # t
        BY <1>1, <1>2, <2>2, <3>1, <4>2
      <4> QED BY <4>1, <4>2
    <3> QED BY <3>1, <3>2 DEF CallFits, PlaceFits, CancelFits, StatusFits, QueryFits, Payload
  <2>4. ASSUME NEW i \in DOMAIN book, PlacesIt(i) PROVE PlacesIt(i)'
    <3>1. PICK u \in Tasks : call[u].op = "place" /\ call[u].id = i
      BY <2>4 DEF PlacesIt
    <3>2. call'[u].op = "place" /\ call'[u].id = i
      BY <1>3, <2>1, <2>2, <3>1
    <3> QED BY <3>2 DEF PlacesIt
  <2> QED BY <2>2, <2>3, <2>4 DEF CallsInv
<1> QED BY <1>4, <1>5 DEF CallGoes

\* A step that leaves the orders alone
LEMMA QuietMoves ==
  ASSUME TradeInv, UNCHANGED <<adapter, book, told, untrue, altered>>, CallGoes,
         client' \in Nat, wsTask' \in Nat
  PROVE  Moved
<1>1. Keeps(book')
  <2>1. PICK b : b = book
    OBVIOUS
  <2>2. Keeps(b)
    BY <2>1 DEF TradeInv, BookInv
  <2> QED BY <2>1, <2>2
<1>2. CallsInv' /\ \A i \in DOMAIN book : PlacesIt(i) => PlacesIt(i)'
  BY <1>1, CallsGo
<1>3. \A i \in DOMAIN book : HasOwner(i) => HasOwner(i)'
  BY <1>2 DEF HasOwner
<1> QED BY <1>1, <1>2, <1>3 DEF Moved, TradeInv

LEMMA PlainFits ==
  ASSUME NEW c, c.op \notin {"place"} \cup Asks
  PROVE  CallFits(c)'
  BY DEF CallFits, Asks

\* The calls of connections and streams are not about orders.
LEMMA PlainGoes ==
  ASSUME TradeInv, NEW t \in Tasks, NEW c \in Call, Await(t, c), call[t].op # "place",
         c.op \notin {"place"} \cup Asks
  PROVE  CallGoes
  BY PlainFits DEF CallGoes, Await

LEMMA ConnectMoves ==
  ASSUME TradeInv, NEW t \in Tasks, ConnectCall(t) \/ ConnectAnswered(t) \/ ConnectReturn(t)
  PROVE  Moved
<1>1. call[t] \in Call /\ client \in Nat /\ wsTask \in Nat
  BY DEF TradeInv, CallsInv
<1>2. Idle \in Call /\ Idle.op = "idle"
  BY DEF Idle, Call, Bare
<1>3. CASE ConnectCall(t)
  <2>1. client' = client + 1 /\ wsTask' = wsTask /\ call[t].op # "place"
    BY <1>2, <1>3 DEF ConnectCall, streamVars
  <2>2. PICK c : c = [op |-> "connect", client |-> client', answer |-> "none"]
    OBVIOUS
  <2>3. c \in Call /\ c.op = "connect"
    BY <1>1, <2>1, <2>2 DEF Call, Connecting
  <2>4. CallGoes
    BY <1>3, <2>1, <2>2, <2>3, PlainGoes DEF ConnectCall, Asks
  <2> QED BY <1>1, <1>3, <2>1, <2>4, QuietMoves DEF ConnectCall, orderVars
<1>4. CASE ConnectAnswered(t)
  <2>1. PICK a \in {"ok", "error"} : Await(t, [call[t] EXCEPT !.answer = a])
    BY <1>4 DEF ConnectAnswered
  <2>2. call[t] \in Connecting
    BY <1>1, <1>4, CallOps DEF ConnectAnswered
  <2>3. PICK c : c = [call[t] EXCEPT !.answer = a]
    OBVIOUS
  <2>4. c \in Connecting
    BY <2>2, <2>3 DEF Connecting
  <2>5. c \in Call /\ c.op = "connect"
    BY <2>4 DEF Call, Connecting
  <2>6. CallGoes
    BY <1>4, <2>1, <2>3, <2>5, PlainGoes DEF ConnectAnswered, Asks
  <2> QED BY <1>1, <1>4, <2>6, QuietMoves DEF ConnectAnswered, orderVars, linkVars, streamVars
<1>5. CASE ConnectReturn(t)
  <2>1. CallGoes
    BY <1>2, <1>5, PlainGoes DEF ConnectReturn, Asks
  <2> QED BY <1>1, <1>5, <2>1, QuietMoves DEF ConnectReturn, orderVars, streamVars
<1> QED BY <1>3, <1>4, <1>5

LEMMA DisconnectMoves ==
  ASSUME TradeInv, NEW t \in Tasks,
         DisconnectCall(t) \/ StreamStopped(t) \/ DisconnectReturn(t) \/ IbDisconnect(t)
  PROVE  Moved
<1>1. call[t] \in Call /\ client \in Nat /\ wsTask \in Nat
  BY DEF TradeInv, CallsInv
<1>2. Idle \in Call /\ Idle.op = "idle"
  BY DEF Idle, Call, Bare
<1>3. PICK d : d = IF client # 0 THEN [op |-> "close"] ELSE Idle
  OBVIOUS
<1>4. d \in Call /\ d.op \in {"close", "idle"}
  BY <1>2, <1>3 DEF Call, Bare
<1>5. CASE DisconnectCall(t)
  <2>1. PICK c : c = [op |-> "stop", stream |-> wsTask]
    OBVIOUS
  <2>2. c \in Call /\ c.op = "stop"
    BY <1>1, <2>1 DEF Call, Stopping
  <2>3. Await(t, c) \/ Await(t, d)
    BY <1>3, <1>5, <2>1 DEF DisconnectCall, CloseClient
  <2>4. CallGoes
    BY <1>2, <1>4, <1>5, <2>2, <2>3, PlainGoes DEF DisconnectCall, Asks
  <2> QED BY <1>1, <1>5, <2>4, QuietMoves DEF DisconnectCall, orderVars
<1>6. CASE StreamStopped(t)
  <2>1. Await(t, d) /\ call[t].op = "stop"
    BY <1>3, <1>6 DEF StreamStopped, CloseClient
  <2>2. CallGoes
    BY <1>4, <2>1, PlainGoes DEF Asks
  <2> QED BY <1>1, <1>6, <2>2, QuietMoves DEF StreamStopped, orderVars, streamVars
<1>7. CASE DisconnectReturn(t)
  <2>1. CallGoes
    BY <1>2, <1>7, PlainGoes DEF DisconnectReturn, Asks
  <2> QED BY <1>1, <1>7, <2>1, QuietMoves DEF DisconnectReturn, orderVars, streamVars
<1>8. CASE IbDisconnect(t)
  BY <1>1, <1>8, QuietMoves DEF IbDisconnect, CallGoes, orderVars, streamVars
<1> QED BY <1>5, <1>6, <1>7, <1>8

LEMMA StreamMoves ==
  ASSUME TradeInv,
         (\E t \in Tasks : SubscribeCall(t) \/ SubscribeReturn(t)) \/ \E n \in 1..MaxStreams : StreamStep(n)
  PROVE  Moved
<1>1. client \in Nat /\ wsTask \in Nat
  BY DEF TradeInv, CallsInv
<1>2. Idle \in Call /\ Idle.op = "idle"
  BY DEF Idle, Call, Bare
<1>3. NewStream => wsTask' \in Nat
  <2>1. Len(streams) + 1 \in Nat => (wsTask' = Len(streams) + 1 => wsTask' \in Nat)
    OBVIOUS
  <2> QED BY <2>1 DEF NewStream
<1>4. ASSUME NEW t \in Tasks, SubscribeCall(t) PROVE Moved
  <2>1. PICK c : c = [op |-> "resubscribe", stream |-> wsTask]
    OBVIOUS
  <2>2. c \in Call /\ c.op = "resubscribe"
    BY <1>1, <2>1 DEF Call, Stopping
  <2>3. call' = call \/ Await(t, c)
    BY <1>4, <2>1 DEF SubscribeCall
  <2>4. CallGoes
    <3>1. call[t].op # "place"
      BY <1>2, <1>4 DEF SubscribeCall
    <3>2. CASE call' = call
      BY <3>2 DEF CallGoes
    <3>3. CASE Await(t, c)
      BY <2>2, <3>1, <3>3, PlainGoes DEF Asks
    <3> QED BY <2>3, <3>2, <3>3
  <2>5. wsTask' \in Nat
    BY <1>1, <1>3, <1>4 DEF SubscribeCall
  <2> QED BY <1>1, <1>4, <2>4, <2>5, QuietMoves DEF SubscribeCall, orderVars, linkVars
<1>5. ASSUME NEW t \in Tasks, SubscribeReturn(t) PROVE Moved
  <2>1. CallGoes
    BY <1>2, <1>5, PlainGoes DEF SubscribeReturn, Asks
  <2> QED BY <1>1, <1>3, <1>5, <2>1, QuietMoves DEF SubscribeReturn, orderVars, linkVars
<1>6. ASSUME NEW n \in 1..MaxStreams, StreamStep(n) PROVE Moved
  <2>1. UNCHANGED <<adapter, book, told, untrue, altered, call, client, wsTask>>
    BY <1>6 DEF StreamStep, StreamLoop, StreamOpens, StreamCloses, StreamBreaks, StreamWakes,
                StreamCancelled, StreamGoes, orderVars, linkVars
  <2> QED BY <1>1, <2>1, QuietMoves DEF CallGoes
<1> QED BY <1>4, <1>5, <1>6

\* A request is made with no answer and no order yet.
LEMMA RequestMoves ==
  ASSUME TradeInv, NEW t \in Tasks, PlaceCall(t) \/ OrderCall(t) \/ QueryCall(t)
  PROVE  Moved
<1>1. call[t].op = "idle" /\ client \in Nat /\ wsTask \in Nat /\ Rest
  BY DEF TradeInv, PlaceCall, OrderCall, QueryCall, Idle
<1>2. UNCHANGED <<adapter, book, told, untrue, altered, client, wsTask>>
  BY DEF PlaceCall, OrderCall, QueryCall, orderVars, linkVars, streamVars
<1>3. "none" \in Answers /\ 0 \in Nat
  BY DEF Answers
<1>4. ASSUME PlaceCall(t) PROVE CallGoes
  <2>1. PICK o \in Orders :
          Await(t, [op |-> "place", client |-> client, id |-> 0, answer |-> "none", order |-> o])
    BY <1>4 DEF PlaceCall
  <2>2. PICK c : c = [op |-> "place", client |-> client, id |-> 0, answer |-> "none", order |-> o]
    OBVIOUS
  <2>3. c \in Call /\ c.op = "place" /\ c.answer = "none" /\ c.id = 0
    BY <1>1, <1>3, <2>2 DEF Call, Placing
  <2>4. "none" \notin First[adapter]
    BY DEF First, TradeInv, BookInv
  <2>5. CallFits(c)'
    BY <1>1, <1>2, <2>3, <2>4 DEF CallFits, PlaceFits, Rest
  <2> QED BY <1>1, <2>1, <2>2, <2>3, <2>5 DEF CallGoes, Await
<1>5. ASSUME NEW op \in Asks, NEW i \in Nat, Request(t, op, i),
             op \in {"cancel", "status"} => i \in DOMAIN book
      PROVE  CallGoes
  <2>1. PICK c : c = [op |-> op, client |-> client, id |-> i, answer |-> "none"]
    OBVIOUS
  <2>2. c \in Call /\ c.op = op /\ c.id = i /\ c.answer = "none"
    BY <1>1, <1>3, <2>1 DEF Call, Asking
  <2>3. CallFits(c)'
    BY <1>1, <1>2, <1>5, <2>2 DEF CallFits, CancelFits, StatusFits, QueryFits, Rest, Asks, Dead, Filled
  <2> QED BY <1>1, <1>5, <2>1, <2>2, <2>3 DEF CallGoes, Await, Request
<1>6. ASSUME OrderCall(t) PROVE CallGoes
  <2>1. PICK i \in told, op \in {"cancel", "status"} : Request(t, op, i)
    BY <1>6 DEF OrderCall
  <2>2. i \in DOMAIN book /\ i \in Nat
    BY DEF TradeInv, BookInv, Keeps
  <2> QED BY <1>5, <2>1, <2>2 DEF Asks
<1>7. ASSUME QueryCall(t) PROVE CallGoes
  <2>1. PICK op \in {"list", "data", "candles"} : Request(t, op, 0)
    BY <1>7 DEF QueryCall
  <2> QED BY <1>3, <1>5, <2>1 DEF Asks
<1> QED BY <1>1, <1>2, <1>4, <1>6, <1>7, QuietMoves

LEMMA RefusedMoves ==
  ASSUME TradeInv, NEW t \in Tasks, Refused(t)
  PROVE  Moved
<1>1. /\ call[t] \in Call /\ CallFits(call[t]) /\ client \in Nat /\ wsTask \in Nat
      /\ call[t].answer = "none" /\ "error" \in Answers
  BY DEF TradeInv, CallsInv, Refused, Answers
<1>2. UNCHANGED <<adapter, book, told, untrue, altered, client, wsTask>>
  BY DEF Refused, orderVars, linkVars, streamVars
<1>3. PICK d : d = call[t]
  OBVIOUS
<1>4. PICK c : c = [d EXCEPT !.answer = "error"]
  OBVIOUS
<1>5. call' = [call EXCEPT ![t] = c]
  BY <1>3, <1>4 DEF Refused, Await
<1>6. "error" \notin First[adapter] /\ "error" \notin Dead /\ "error" \notin Filled
  BY DEF First, TradeInv, BookInv, Dead, Filled
<1>7. CASE d.op = "place"
  <2>1. d \in Placing /\ PlaceFits(d)
    BY <1>1, <1>3, <1>7, CallOps DEF CallFits
  <2>2. c \in Placing /\ c.op = "place" /\ c.answer = "error" /\ c.id = d.id
    BY <1>1, <1>4, <2>1 DEF Placing
  <2>3. CallFits(c)'
    BY <1>2, <1>6, <2>1, <2>2 DEF CallFits, PlaceFits, Rest
  <2>4. CallGoes
    BY <1>3, <1>5, <2>2, <2>3 DEF CallGoes, Call
  <2> QED BY <1>1, <1>2, <2>4, QuietMoves
<1>8. CASE d.op # "place"
  <2>1. d \in Asking /\ d.op \in Asks
    BY <1>1, <1>3, <1>8, CallOps DEF Refused, Waits, Asks
  <2>2. c \in Asking /\ c.op = d.op /\ c.answer = "error" /\ c.id = d.id
    BY <1>1, <1>4, <2>1 DEF Asking
  <2>3. CallFits(c)'
    BY <1>1, <1>2, <1>3, <1>6, <2>1, <2>2
       DEF CallFits, CancelFits, StatusFits, QueryFits, Rest, Asks
  <2>4. CallGoes
    BY <1>3, <1>5, <1>8, <2>2, <2>3 DEF CallGoes, Call
  <2> QED BY <1>1, <1>2, <2>4, QuietMoves
<1> QED BY <1>7, <1>8

\* A step that changes the book, and no more than a call
LEMMA BookMoves ==
  ASSUME TradeInv, adapter' = adapter, UNCHANGED <<told, untrue, altered, client, wsTask>>,
         Keeps(book'), CallGoes, \A i \in DOMAIN book' \ DOMAIN book : PlacesIt(i)'
  PROVE  Moved
<1>1. CallsInv' /\ \A i \in DOMAIN book : PlacesIt(i) => PlacesIt(i)'
  BY CallsGo
<1>2. told \subseteq DOMAIN book'
  BY DEF TradeInv, Keeps
<1>3. \A i \in DOMAIN book : HasOwner(i) => HasOwner(i)'
  BY <1>1 DEF HasOwner
<1>4. \A i \in DOMAIN book' \ DOMAIN book : HasOwner(i)'
  BY DEF HasOwner
<1> QED BY <1>1, <1>2, <1>3, <1>4 DEF Moved, TradeInv

\* The book stays as it is
LEMMA SameKeeps ==
  ASSUME TradeInv, UNCHANGED book
  PROVE  Keeps(book')
<1>1. PICK b : b = book
  OBVIOUS
<1>2. Keeps(b)
  BY <1>1 DEF TradeInv, BookInv
<1> QED BY <1>1, <1>2

LEMMA PlacementMoves ==
  ASSUME TradeInv, NEW t \in Tasks, Answered(t), call[t].op = "place"
  PROVE  Moved
<1>1. /\ call[t] \in Call /\ CallFits(call[t]) /\ call[t].answer = "none"
      /\ adapter' = adapter /\ UNCHANGED <<told, untrue, altered, client, wsTask>>
  BY DEF TradeInv, CallsInv, Answered, linkVars, streamVars
<1>2. PICK d : d = call[t]
  OBVIOUS
<1>3. d \in Placing /\ PlaceFits(d) /\ d.id = 0 /\ d.order \in Orders
  BY <1>1, <1>2, CallOps DEF CallFits, PlaceFits, Placing
<1>4. PICK p : p = Payload(d.order)
  OBVIOUS
<1>5. p \in Sent /\ Payload(d.order)' = p
  BY <1>1, <1>3, <1>4, PayloadSent DEF TradeInv, BookInv, Payload
<1>6. PICK n \in First[adapter], arrives \in BOOLEAN :
        /\ book' = Booked(book, p, d.order, n)
        /\ Await(t, [d EXCEPT !.id = Len(book'), !.answer = IF arrives THEN n ELSE "error"])
  BY <1>2, <1>4 DEF Answered
<1>7. PICK b : b = Booked(book, p, d.order, n)
  OBVIOUS
<1>8. /\ Keeps(b) /\ Len(b) = Len(book) + 1 /\ DOMAIN b = DOMAIN book \cup {Len(b)}
      /\ b[Len(b)].sent = p /\ (n \in Filled => b[Len(b)].fills = "all")
  <2>1. BookInv /\ p \in Sent
    BY <1>5 DEF TradeInv
  <2>2. PICK o : o = d.order
    OBVIOUS
  <2>3. o \in Orders /\ b = Booked(book, p, o, n)
    BY <1>3, <1>7, <2>2
  <2>4. Keeps(b) /\ Adds(b, p, n)
    BY <2>1, <2>3, BookedKeeps
  <2> QED BY <2>4 DEF Adds
<1>9. PICK a : a = IF arrives THEN n ELSE "error"
  OBVIOUS
<1>10. PICK k : k = Len(b)
  OBVIOUS
<1>11. k \in Nat /\ a \in Answers /\ a \in First[adapter] \cup {"error"} /\ (a \in First[adapter] => a = n)
  <2>1. Len(book) \in Nat
    BY DEF TradeInv, BookInv, Keeps
  <2>2. n \in AllNatives /\ "error" \notin First[adapter]
    BY DEF First, AllNatives, Natives, TradeInv, BookInv
  <2> QED BY <1>8, <1>9, <1>10, <2>1, <2>2 DEF Answers
<1>12. PICK e : e = [d EXCEPT !.id = k]
  OBVIOUS
<1>13. e \in Placing /\ e.id = k /\ e.order = d.order
  BY <1>3, <1>11, <1>12 DEF Placing
<1>14. PICK c : c = [e EXCEPT !.answer = a]
  OBVIOUS
<1>15. c \in Placing /\ c.op = "place" /\ c.id = k /\ c.order = d.order /\ c.answer = a
  BY <1>11, <1>13, <1>14 DEF Placing
<1>16. call' = [call EXCEPT ![t] = c]
  BY <1>6, <1>7, <1>9, <1>10, <1>12, <1>14 DEF Await
<1>17. CallFits(c)'
  <2>1. a # "none"
    BY <1>11 DEF First, TradeInv, BookInv
  <2>2. a \in First[adapter] => book'[k].sent = p /\ k \in DOMAIN book'
         /\ (a \in Filled => book'[k].fills = "all")
    BY <1>6, <1>7, <1>8, <1>10, <1>11
  <2>3. PlaceFits(c)'
    BY <1>1, <1>3, <1>5, <1>11, <1>15, <2>1, <2>2 DEF PlaceFits, Rest
  <2> QED BY <1>15, <2>3 DEF CallFits
<1>18. CallGoes
  BY <1>2, <1>3, <1>15, <1>16, <1>17 DEF CallGoes, Call
<1>19. \A i \in DOMAIN book' \ DOMAIN book : PlacesIt(i)'
  <2>1. call'[t] = c
    BY <1>16 DEF TradeInv, CallsInv
  <2> QED BY <1>6, <1>7, <1>8, <1>10, <1>15, <2>1 DEF PlacesIt
<1> QED BY <1>1, <1>6, <1>7, <1>8, <1>18, <1>19, BookMoves

\* The answers to requests that are not placements
LEMMA AskedMoves ==
  ASSUME TradeInv, NEW t \in Tasks, Answered(t), call[t].op # "place"
  PROVE  Moved
<1>1. /\ call[t] \in Call /\ CallFits(call[t])
      /\ adapter' = adapter /\ UNCHANGED <<told, untrue, altered, client, wsTask>>
  BY DEF TradeInv, CallsInv, Answered, linkVars, streamVars
<1>2. PICK d : d = call[t]
  OBVIOUS
<1>3. d \in Asking /\ d.op \in Asks
  BY <1>1, <1>2, CallOps DEF Answered, Waits, Asks
<1>4. ASSUME NEW a \in Answers, Await(t, [d EXCEPT !.answer = a]), Keeps(book'),
             DOMAIN book' = DOMAIN book,
             \A c \in Asking : c.op = d.op /\ c.id = d.id /\ c.answer = a => CallFits(c)'
      PROVE  Moved
  <2>1. PICK c : c = [d EXCEPT !.answer = a]
    OBVIOUS
  <2>2. c \in Asking /\ c.op = d.op /\ c.id = d.id /\ c.answer = a
    BY <1>3, <1>4, <2>1 DEF Asking
  <2>3. CallGoes
    BY <1>2, <1>4, <2>1, <2>2 DEF CallGoes, Await, Call
  <2> QED BY <1>1, <1>4, <2>3, BookMoves
<1>5. CASE d.op = "cancel"
  <2>1. CancelFits(d)
    BY <1>1, <1>2, <1>5 DEF CallFits
  <2>2. CASE ~Finished(book[d.id])
    <3>1. PICK b : b = [book EXCEPT ![d.id].native = Asked[adapter]]
      OBVIOUS
    <3>2. book' = b /\ Await(t, [d EXCEPT !.answer = Asked[adapter]])
      BY <1>2, <1>5, <2>2, <3>1 DEF Answered
    <3>3. Keeps(b) /\ b[d.id].native = Asked[adapter] /\ d.id \in DOMAIN b
      BY <2>1, <2>2, <3>1, AskKeeps DEF CancelFits, TradeInv
    <3>4. DOMAIN b = DOMAIN book
      BY <3>1
    <3>5. PICK a : a = Asked[adapter]
      OBVIOUS
    <3>6. a \in Answers
      BY <3>5 DEF Asked, Answers, AllNatives, Natives, TradeInv, BookInv
    <3>7. a \in Dead => Finished(b[d.id])
      BY <3>3, <3>5 DEF Finished
    <3>8. ASSUME NEW c \in Asking, c.op = d.op, c.id = d.id, c.answer = a PROVE CallFits(c)'
      <4>1. a \in Dead => Finished(book[d.id])'
        BY <3>2, <3>7 DEF Finished
      <4>2. CancelFits(c)'
        BY <1>1, <2>1, <3>2, <3>3, <3>5, <3>8, <4>1 DEF CancelFits, Rest
      <4> QED BY <1>5, <3>8, <4>2 DEF CallFits
    <3> QED BY <1>4, <3>2, <3>3, <3>4, <3>5, <3>6, <3>8
  <2>3. CASE Finished(book[d.id])
    <3>1. Await(t, [d EXCEPT !.answer = "missing"]) /\ UNCHANGED book
      BY <1>2, <1>5, <2>3 DEF Answered
    <3>2. ASSUME NEW c \in Asking, c.op = d.op, c.id = d.id, c.answer = "missing"
          PROVE  CallFits(c)'
      BY <1>1, <1>5, <2>1, <3>1, <3>2 DEF CallFits, CancelFits, Rest, Dead
    <3> QED BY <1>4, <3>1, <3>2, SameKeeps DEF Answers
  <2> QED BY <2>2, <2>3
<1>6. CASE d.op = "status"
  <2>1. StatusFits(d)
    BY <1>1, <1>2, <1>6 DEF CallFits
  <2>2. PICK a : a = book[d.id].native
    OBVIOUS
  <2>3. Await(t, [d EXCEPT !.answer = a]) /\ UNCHANGED book
    BY <1>2, <1>6, <2>2 DEF Answered
  <2>4. Sound(book[d.id].native, book[d.id].fills) /\ book[d.id] \in Booking
    BY <2>1, ElementOfSeq DEF TradeInv, BookInv, Keeps, StatusFits
  <2>5. a \in Answers
    BY <2>2, <2>4 DEF Answers, Booking
  <2>6. ASSUME NEW c \in Asking, c.op = d.op, c.id = d.id, c.answer = a PROVE CallFits(c)'
    <3>1. a \in Dead => Finished(book[d.id])'
      BY <2>2, <2>3 DEF Finished
    <3>2. StatusFits(c)'
      BY <1>1, <2>1, <2>2, <2>3, <2>4, <2>6, <3>1 DEF StatusFits, Sound, Rest
    <3> QED BY <1>6, <2>6, <3>2 DEF CallFits
  <2> QED BY <1>4, <2>3, <2>5, <2>6, SameKeeps
<1>7. CASE d.op \in {"list", "data", "candles"}
  <2>1. QueryFits(d)
    BY <1>1, <1>2, <1>7 DEF CallFits
  <2>2. Await(t, [d EXCEPT !.answer = "ok"]) /\ UNCHANGED book
    BY <1>2, <1>7 DEF Answered
  <2>3. ASSUME NEW c \in Asking, c.op = d.op, c.id = d.id, c.answer = "ok" PROVE CallFits(c)'
    BY <1>1, <1>7, <2>1, <2>3 DEF CallFits, QueryFits, Rest
  <2> QED BY <1>4, <2>2, <2>3, SameKeeps DEF Answers
<1> QED BY <1>3, <1>5, <1>6, <1>7 DEF Asks

-----------------------------------------------------------------------------
(* What is reported                                                        *)

LEMMA PlaceReport ==
  ASSUME TradeInv, NEW c, PlaceFits(c), c.op = "place", c.answer # "none"
  PROVE  /\ IsSo(Report("place", c.answer), c.id)
              \/ <<c.answer, Report("place", c.answer)>> \in KnownUntrue
         /\ c.answer \in Failures => Report("place", c.answer) = "REJECTED"
         /\ c.answer \notin Failures => c.answer \in First[adapter]
<1>1. PICK r : r = Report("place", c.answer)
  OBVIOUS
<1>2. /\ adapter \in {"alpaca", "oanda"}
      /\ c.answer \in First[adapter] \cup {"error"}
  BY DEF PlaceFits, Rest, TradeInv, BookInv
<1>3. CASE c.answer = "error"
  <2>1. r = "REJECTED"
    BY <1>1, <1>2, <1>3 DEF Report, AlpacaPlaced, OandaPlaced, Failures
  <2>2. <<"error", "REJECTED">> \in KnownUntrue
    BY DEF KnownUntrue
  <2> QED BY <1>1, <1>3, <2>1, <2>2 DEF Failures
<1>4. CASE c.answer # "error"
  <2>1. c.answer \in First[adapter] /\ c.answer \notin Failures
    BY <1>2, <1>4 DEF First, Failures
  <2>2. CASE adapter = "oanda"
    <3>1. r = "SUBMITTED"
      BY <1>1, <2>1, <2>2 DEF Report, OandaPlaced
    <3>2. IsSo(r, c.id)
      BY <3>1 DEF IsSo
    <3> QED BY <1>1, <2>1, <3>2
  <2>3. CASE adapter = "alpaca"
    <3>1. r = AlpacaStatus(c.answer) /\ c.answer \in {"new", "accepted", "filled"}
      BY <1>1, <2>1, <2>3 DEF Report, AlpacaPlaced, First
    <3>2. r \in {"PENDING", "SUBMITTED"} \/ (r = "FILLED" /\ c.answer = "filled")
      BY <3>1 DEF AlpacaStatus
    <3>3. c.answer = "filled" => book[c.id].fills = "all"
      BY <2>1 DEF PlaceFits, Filled
    <3>4. IsSo(r, c.id)
      BY <3>2, <3>3 DEF IsSo
    <3> QED BY <1>1, <2>1, <3>4
  <2> QED BY <1>2, <2>2, <2>3
<1> QED BY <1>3, <1>4

LEMMA CancelReport ==
  ASSUME TradeInv, NEW c, CancelFits(c), c.op = "cancel", c.answer # "none"
  PROVE  IsSo(Report("cancel", c.answer), c.id)
           \/ <<c.answer, Report("cancel", c.answer)>> \in KnownUntrue
<1>1. PICK r : r = Report("cancel", c.answer)
  OBVIOUS
<1>2. /\ adapter \in {"alpaca", "oanda"}
      /\ c.answer \in {"error", "missing", Asked[adapter]}
  BY DEF CancelFits, Rest, TradeInv, BookInv
<1>3. CASE c.answer \in Failures
  <2>1. r = "refused"
    BY <1>1, <1>2, <1>3 DEF Report, AlpacaCancelled, OandaCancelled
  <2> QED BY <1>1, <2>1 DEF IsSo
<1>4. CASE c.answer \notin Failures
  <2>1. r = "CANCELLED" /\ c.answer = Asked[adapter]
    BY <1>1, <1>2, <1>4 DEF Report, AlpacaCancelled, OandaCancelled, Failures
  <2>2. CASE adapter = "alpaca"
    <3>1. <<"pending_cancel", "CANCELLED">> \in KnownUntrue
      BY DEF KnownUntrue
    <3> QED BY <1>1, <2>1, <2>2, <3>1 DEF Asked
  <2>3. CASE adapter = "oanda"
    <3>1. Finished(book[c.id])
      BY <2>1, <2>3 DEF Asked, CancelFits, Dead
    <3>2. IsSo(r, c.id)
      BY <2>1, <3>1 DEF IsSo
    <3> QED BY <1>1, <3>2
  <2> QED BY <1>2, <2>2, <2>3
<1> QED BY <1>3, <1>4

LEMMA StatusReport ==
  ASSUME TradeInv, NEW c, StatusFits(c), c.op = "status", c.answer # "none"
  PROVE  IsSo(Report("status", c.answer), c.id)
           \/ <<c.answer, Report("status", c.answer)>> \in KnownUntrue
<1>1. PICK r : r = Report("status", c.answer)
  OBVIOUS
<1>2. /\ adapter \in {"alpaca", "oanda"}
      /\ c.answer \in Natives[adapter] \cup {"error"}
  BY DEF StatusFits, Rest, TradeInv, BookInv
<1>3. CASE c.answer = "error"
  <2>1. r = "None"
    BY <1>1, <1>2, <1>3 DEF Report, AlpacaFound, OandaFound, Failures
  <2>2. <<"error", "None">> \in KnownUntrue
    BY DEF KnownUntrue
  <2> QED BY <1>1, <1>3, <2>1, <2>2
<1>4. CASE c.answer # "error"
  <2>1. c.answer \in Natives[adapter] /\ c.answer \notin Failures
    BY <1>2, <1>4 DEF Natives, Failures
  <2>2. ASSUME r = "FILLED", c.answer \in Filled PROVE IsSo(r, c.id)
    BY <2>2 DEF StatusFits, IsSo
  <2>3. ASSUME r \in {"CANCELLED", "EXPIRED"}, c.answer \in Dead PROVE IsSo(r, c.id)
    BY <2>3 DEF StatusFits, IsSo
  <2>4. ASSUME r \in {"PENDING", "SUBMITTED", "PARTIAL_FILL"} PROVE IsSo(r, c.id)
    BY <2>4 DEF IsSo
  <2>5. <<"done_for_day", "FILLED">> \in KnownUntrue /\ <<"TRIGGERED", "FILLED">> \in KnownUntrue
    BY DEF KnownUntrue
  <2>6. CASE adapter = "alpaca"
    <3>1. r = AlpacaStatus(c.answer) /\ c.answer \in Natives.alpaca
      BY <1>1, <2>1, <2>6 DEF Report, AlpacaFound, Natives
    <3>2. \/ r \in {"PENDING", "SUBMITTED", "PARTIAL_FILL"}
          \/ r = "FILLED" /\ c.answer \in {"filled", "done_for_day"}
          \/ r \in {"CANCELLED", "EXPIRED"} /\ c.answer \in {"canceled", "replaced", "expired"}
      BY <3>1 DEF AlpacaStatus, Natives
    <3> QED BY <1>1, <2>2, <2>3, <2>4, <2>5, <3>2 DEF Filled, Dead
  <2>7. CASE adapter = "oanda"
    <3>1. r = OandaStatus(c.answer) /\ c.answer \in Natives.oanda
      BY <1>1, <2>1, <2>7 DEF Report, OandaFound, Natives
    <3>2. \/ r = "PENDING"
          \/ r = "FILLED" /\ c.answer \in {"FILLED", "TRIGGERED"}
          \/ r \in {"CANCELLED", "EXPIRED"} /\ c.answer \in {"CANCELLED", "EXPIRED"}
      BY <3>1 DEF OandaStatus, Natives
    <3> QED BY <1>1, <2>2, <2>3, <2>4, <2>5, <3>2 DEF Filled, Dead
  <2> QED BY <1>2, <2>6, <2>7
<1> QED BY <1>3, <1>4

LEMMA QueryReport ==
  ASSUME TradeInv, NEW c, QueryFits(c), c.op \in {"list", "data", "candles"}, c.answer # "none"
  PROVE  IsSo(Report(c.op, c.answer), c.id) \/ <<c.answer, Report(c.op, c.answer)>> \in KnownUntrue
<1>1. PICK r : r = Report(c.op, c.answer)
  OBVIOUS
<1>2. adapter \in {"alpaca", "oanda"} /\ c.answer \in {"error", "ok"}
  BY DEF QueryFits, Rest, TradeInv, BookInv
<1>3. CASE c.op = "list"
  <2>1. r = "listed" \/ (r = "empty" /\ c.answer = "error")
    BY <1>1, <1>2, <1>3 DEF Report, AlpacaListed, OandaListed, Failures
  <2>2. r = "listed" => IsSo(r, c.id)
    BY DEF IsSo
  <2>3. <<"error", "empty">> \in KnownUntrue
    BY DEF KnownUntrue
  <2> QED BY <1>1, <2>1, <2>2, <2>3
<1>4. CASE c.op \in {"data", "candles"}
  <2>1. r \in {"data", "unavailable"}
    BY <1>1, <1>2, <1>4 DEF Report, AlpacaData, OandaData, OandaCandles, Failures
  <2> QED BY <1>1, <2>1 DEF IsSo
<1> QED BY <1>3, <1>4

\* What a call reports when it returns
LEMMA ReturnReport ==
  ASSUME TradeInv, NEW t \in Tasks, Waits(t), call[t].answer # "none", NEW c, c = call[t]
  PROVE  IsSo(Report(c.op, c.answer), c.id) \/ <<c.answer, Report(c.op, c.answer)>> \in KnownUntrue
<1>1. CallFits(c) /\ c.op \in {"place"} \cup Asks
  BY DEF TradeInv, CallsInv, Waits, Asks
<1>2. CASE c.op = "place"
  <2>1. PlaceFits(c)
    BY <1>1, <1>2 DEF CallFits
  <2> QED BY <1>2, <2>1, PlaceReport
<1>3. CASE c.op = "cancel"
  <2>1. CancelFits(c)
    BY <1>1, <1>3 DEF CallFits
  <2> QED BY <1>3, <2>1, CancelReport
<1>4. CASE c.op = "status"
  <2>1. StatusFits(c)
    BY <1>1, <1>4 DEF CallFits
  <2> QED BY <1>4, <2>1, StatusReport
<1>5. CASE c.op \in {"list", "data", "candles"}
  <2>1. QueryFits(c)
    BY <1>1, <1>5 DEF CallFits
  <2> QED BY <1>5, <2>1, QueryReport
<1> QED BY <1>1, <1>2, <1>3, <1>4, <1>5 DEF Asks

LEMMA TellsKnown ==
  ASSUME NEW answer, NEW report, NEW i, Tells(answer, report, i),
         IsSo(report, i) \/ <<answer, report>> \in KnownUntrue
  PROVE  /\ \A u \in untrue' : u \in untrue \/ <<u.answer, u.report>> \in KnownUntrue
         /\ untrue \subseteq untrue'
         /\ ~IsSo(report, i) => \E u \in untrue' : u.id = i /\ u.report = report
<1>1. PICK x : x = [id |-> i, answer |-> answer, report |-> report]
  OBVIOUS
<1>2. x.id = i /\ x.answer = answer /\ x.report = report
  BY <1>1
<1>3. untrue' = untrue \cup (IF IsSo(report, i) THEN {} ELSE {x})
  BY <1>1 DEF Tells
<1> QED BY <1>2, <1>3

LEMMA ReturnMoves ==
  ASSUME TradeInv, NEW t \in Tasks, Return(t)
  PROVE  Moved
<1>1. /\ Waits(t) /\ call[t].answer # "none" /\ Await(t, Idle)
      /\ UNCHANGED <<adapter, book, client, wsTask>> /\ Keeps(book')
      /\ client' \in Nat /\ wsTask' \in Nat
  <2>1. UNCHANGED <<adapter, book, client, wsTask>>
    BY DEF Return, linkVars, streamVars
  <2> QED BY <2>1, SameKeeps DEF Return, TradeInv
<1>2. PICK d : d = call[t]
  OBVIOUS
<1>3. PICK r : r = Report(d.op, d.answer)
  OBVIOUS
<1>4. PICK placed : placed = (d.op = "place" /\ d.answer \notin Failures)
  OBVIOUS
<1>5. /\ told' = told \cup (IF placed THEN {d.id} ELSE {})
      /\ Tells(d.answer, r, d.id)
      /\ altered' = altered \cup (IF placed THEN Altered(d.order, book[d.id].sent) ELSE {})
  BY <1>2, <1>3, <1>4 DEF Return
<1>6. /\ \A u \in untrue' : u \in untrue \/ <<u.answer, u.report>> \in KnownUntrue
      /\ untrue \subseteq untrue'
      /\ ~IsSo(r, d.id) => \E u \in untrue' : u.id = d.id /\ u.report = r
  <2>1. IsSo(r, d.id) \/ <<d.answer, r>> \in KnownUntrue
    BY <1>1, <1>2, <1>3, ReturnReport
  <2> QED BY <1>5, <2>1, TellsKnown
<1>7. d \in Call /\ CallFits(d)
  BY <1>2 DEF TradeInv, CallsInv
<1>8. CallsInv'
  <2>1. call' \in [Tasks -> Call] /\ call'[t] = Idle /\ \A u \in Tasks : u # t => call'[u] = call[u]
    BY <1>1 DEF Await, TradeInv, CallsInv, Idle, Call, Bare
  <2>2. ASSUME NEW u \in Tasks PROVE CallFits(call[u])'
    <3>1. PICK c : c = call'[u]
      OBVIOUS
    <3>2. CallFits(c)'
      <4>1. CASE u = t
        BY <2>1, <3>1, <4>1, PlainFits DEF Idle, Asks
      <4>2. CASE u # t
        BY <1>1, <2>1, <3>1, <4>2, FitsStays DEF TradeInv, CallsInv
      <4> QED BY <4>1, <4>2
    <3> QED BY <3>1, <3>2 DEF CallFits, PlaceFits, CancelFits, StatusFits, QueryFits, Payload
  <2> QED BY <2>1, <2>2 DEF CallsInv
<1>9. ASSUME d.op = "place"
      PROVE  /\ PlaceFits(d) /\ (d.answer \in Failures => r = "REJECTED")
             /\ d.answer \notin Failures => d.answer \in First[adapter]
  <2>1. PlaceFits(d)
    BY <1>7, <1>9 DEF CallFits
  <2> QED BY <1>1, <1>2, <1>3, <1>9, <2>1, PlaceReport
<1>10. placed => d.id \in DOMAIN book /\ book[d.id].sent = Payload(d.order) /\ d.order \in Orders
  <2> SUFFICES ASSUME placed PROVE d.id \in DOMAIN book /\ book[d.id].sent = Payload(d.order)
                                     /\ d.order \in Orders
    OBVIOUS
  <2>1. d.op = "place" /\ d.answer \notin Failures
    BY <1>4
  <2>2. d.order \in Orders
    BY <1>7, <2>1, CallOps DEF Placing
  <2> QED BY <1>9, <2>1, <2>2 DEF PlaceFits
<1>11. told' \subseteq DOMAIN book'
  BY <1>1, <1>5, <1>10 DEF TradeInv
<1>12. \A a \in altered' : a \in altered \/ Unsupported(a[1], a[2])
  <2>1. CASE placed
    <3>1. PICK o : o = d.order
      OBVIOUS
    <3>2. o \in Orders /\ altered' = altered \cup Altered(o, Payload(o))
      BY <1>5, <1>10, <2>1, <3>1
    <3>3. Altered(o, Payload(o)) \subseteq
            {a \in {o} \X {"type", "side", "quantity", "tif"} : Unsupported(a[1], a[2])}
      BY <3>2, PayloadSent DEF TradeInv, BookInv
    <3> QED BY <3>2, <3>3
  <2>2. CASE ~placed
    BY <1>5, <2>2
  <2> QED BY <2>1, <2>2
<1>13. ASSUME NEW i \in DOMAIN book, HasOwner(i) PROVE DeadUntraded(book[i]) \/ HasOwner(i)'
  <2>1. CASE i \in told
    BY <1>5, <2>1 DEF HasOwner
  <2>2. CASE \E u \in untrue : u.id = i /\ u.report = "REJECTED"
    BY <1>6, <2>2 DEF HasOwner
  <2>3. CASE PlacesIt(i)
    <3>1. PICK u \in Tasks : call[u].op = "place" /\ call[u].id = i
      BY <2>3 DEF PlacesIt
    <3>2. CASE u # t
      <4>1. call'[u] = call[u]
        BY <1>1, <3>2 DEF Await, TradeInv, CallsInv
      <4> QED BY <3>1, <4>1 DEF HasOwner, PlacesIt
    <3>3. CASE u = t
      <4>1. d.op = "place" /\ d.id = i /\ i # 0
        BY <1>2, <3>1, <3>3 DEF TradeInv, BookInv, Keeps
      <4>2. CASE d.answer \notin Failures
        BY <1>4, <1>5, <4>1, <4>2 DEF HasOwner
      <4>3. CASE d.answer \in Failures
        <5>1. r = "REJECTED"
          BY <1>9, <4>1, <4>3
        <5>2. DeadUntraded(book[i]) \/ ~IsSo(r, i)
          BY <4>1, <5>1 DEF IsSo
        <5> QED BY <1>6, <4>1, <5>1, <5>2 DEF HasOwner
      <4> QED BY <4>2, <4>3
    <3> QED BY <3>2, <3>3
  <2> QED BY <1>13, <2>1, <2>2, <2>3 DEF HasOwner
<1> QED BY <1>1, <1>6, <1>8, <1>11, <1>12, <1>13 DEF Moved

LEMMA IbPlaceMoves ==
  ASSUME TradeInv, NEW t \in Tasks, IbPlace(t)
  PROVE  Moved
<1>1. PICK o \in Orders, n \in First.ib :
        book' = Booked(book, IbPayload(o), o, n) /\ altered' = altered \cup Altered(o, IbPayload(o))
  BY DEF IbPlace
<1>2. /\ adapter = "ib" /\ told' = told \cup {Len(book')}
      /\ UNCHANGED <<adapter, call, untrue, client, wsTask>>
  BY DEF IbPlace, IbCall, linkVars, streamVars
<1>3. PICK p : p = Payload(o)
  OBVIOUS
<1>4. p = IbPayload(o) /\ n \in First[adapter] /\ p \in Sent /\ BookInv
  BY <1>2, <1>3, PayloadSent DEF Payload, TradeInv, BookInv
<1>5. PICK b : b = Booked(book, p, o, n)
  OBVIOUS
<1>6. Keeps(b) /\ Adds(b, p, n)
  BY <1>4, <1>5, BookedKeeps
<1>7. book' = b /\ Keeps(book')
  BY <1>1, <1>4, <1>5, <1>6
<1>8. CallsInv' /\ \A i \in DOMAIN book : PlacesIt(i) => PlacesIt(i)'
  BY <1>2, <1>7, CallsGo DEF CallGoes
<1>9. DOMAIN book' = DOMAIN book \cup {Len(book')}
  BY <1>6, <1>7 DEF Adds
<1>10. \A i \in DOMAIN book' : (i \in DOMAIN book => HasOwner(i)) => HasOwner(i)'
  BY <1>2, <1>8, <1>9 DEF HasOwner
<1>11. \A a \in altered' : a \in altered \/ Unsupported(a[1], a[2])
  <2>1. Altered(o, Payload(o)) \subseteq
            {a \in {o} \X {"type", "side", "quantity", "tif"} : Unsupported(a[1], a[2])}
    BY <1>4, PayloadSent DEF BookInv
  <2> QED BY <1>1, <1>3, <1>4, <2>1
<1> QED BY <1>2, <1>7, <1>8, <1>9, <1>10, <1>11 DEF Moved, TradeInv

\* A step that leaves the calls alone, may change statuses in the book, and tells
LEMMA IbMoves ==
  ASSUME TradeInv, UNCHANGED <<adapter, call, told, altered, client, wsTask>>,
         Keeps(book'), DOMAIN book' = DOMAIN book, untrue \subseteq untrue',
         \A u \in untrue' : u \in untrue \/ <<u.answer, u.report>> \in KnownUntrue
  PROVE  Moved
<1>1. CallsInv' /\ \A i \in DOMAIN book : PlacesIt(i) => PlacesIt(i)'
  BY CallsGo DEF CallGoes
<1>2. \A i \in DOMAIN book : HasOwner(i) => HasOwner(i)'
  BY <1>1 DEF HasOwner
<1> QED BY <1>1, <1>2 DEF Moved, TradeInv

LEMMA IbCancelMoves ==
  ASSUME TradeInv, NEW t \in Tasks, IbCancel(t)
  PROVE  Moved
<1>1. PICK i \in told :
        /\ ~Finished(book[i])
        /\ book' = [book EXCEPT ![i].native = Asked.ib]
        /\ untrue' = untrue \cup {[id |-> i, answer |-> Asked.ib, report |-> "CANCELLED"]}
  BY DEF IbCancel
<1>2. UNCHANGED <<adapter, call, told, altered, client, wsTask>> /\ adapter = "ib"
  BY DEF IbCancel, IbCall, linkVars, streamVars
<1>3. i \in DOMAIN book
  BY DEF TradeInv
<1>4. PICK b : b = [book EXCEPT ![i].native = Asked[adapter]]
  OBVIOUS
<1>5. Keeps(b)
  BY <1>1, <1>3, <1>4, AskKeeps DEF TradeInv
<1>6. book' = b /\ DOMAIN b = DOMAIN book
  BY <1>1, <1>2, <1>4
<1>7. PICK x : x = [id |-> i, answer |-> Asked.ib, report |-> "CANCELLED"]
  OBVIOUS
<1>8. <<x.answer, x.report>> \in KnownUntrue
  BY <1>7 DEF KnownUntrue, Asked
<1>9. untrue' = untrue \cup {x}
  BY <1>1, <1>7
<1> QED BY <1>2, <1>5, <1>6, <1>8, <1>9, IbMoves

LEMMA IbAskMoves ==
  ASSUME TradeInv, NEW t \in Tasks, IbAsk(t) \/ IbListFails(t)
  PROVE  Moved
<1>1. UNCHANGED <<adapter, call, book, told, altered, client, wsTask>> /\ adapter = "ib"
  BY DEF IbAsk, IbListFails, IbCall, linkVars, streamVars
<1>2. Keeps(book')
  BY <1>1, SameKeeps
<1>3. ASSUME NEW answer, NEW report, NEW i, Tells(answer, report, i),
             IsSo(report, i) \/ <<answer, report>> \in KnownUntrue
      PROVE  Moved
  BY <1>1, <1>2, <1>3, TellsKnown, IbMoves
<1>4. <<"error", "empty">> \in KnownUntrue /\ <<"error", "None">> \in KnownUntrue
  BY DEF KnownUntrue
<1>5. CASE IbListFails(t)
  BY <1>3, <1>4, <1>5 DEF IbListFails
<1>6. CASE IbAsk(t)
  <2>1. PICK i \in told : Tells(book[i].native, IbFound(i), i) \/ Tells("error", "None", i)
    BY <1>6 DEF IbAsk
  <2>2. PICK n : n = book[i].native
    OBVIOUS
  <2>3. PICK f : f = book[i].fills
    OBVIOUS
  <2>4. n \in Natives.ib /\ f \in Fills /\ Sound(n, f)
    <3>1. i \in DOMAIN book /\ book \in Seq(Booking) /\ Sound(n, f)
      BY <2>2, <2>3 DEF TradeInv, BookInv, Keeps
    <3>2. book[i] \in Booking
      BY <3>1, ElementOfSeq
    <3> QED BY <1>1, <2>3, <3>1, <3>2 DEF Booking, Sound
  <2>5. PICK r : r = IbFound(i)
    OBVIOUS
  <2>6. IsSo(r, i) \/ <<n, r>> \in KnownUntrue
    <3>1. CASE f = "all"
      <4>1. r = "FILLED"
        BY <2>3, <2>5, <3>1 DEF IbFound
      <4> QED BY <2>3, <3>1, <4>1 DEF IsSo
    <3>2. CASE f = "some"
      <4>1. r = "FILLED" /\ n \in {"Submitted", "Inactive", "PendingCancel", "Cancelled"}
        BY <1>1, <2>3, <2>4, <2>5, <3>2 DEF IbFound, Sound
      <4>2. \A m \in {"Submitted", "Inactive", "PendingCancel", "Cancelled"} :
              <<m, "FILLED">> \in KnownUntrue
        BY DEF KnownUntrue
      <4> QED BY <4>1, <4>2
    <3>3. CASE f = "none"
      <4>1. n \in {"PendingSubmit", "Submitted", "Inactive", "Cancelled", "PendingCancel"}
        BY <2>4, <3>3 DEF Sound, Natives, Filled
      <4>2. r = IF n = "Cancelled" THEN "None" ELSE IbStatus(n)
        BY <2>2, <2>3, <2>5, <3>3, <4>1 DEF IbFound, Finished, Dead
      <4>3. \/ r \in {"PENDING", "SUBMITTED"}
            \/ n = "Cancelled" /\ r = "None"
            \/ n = "Inactive" /\ r = "REJECTED"
            \/ n = "PendingCancel" /\ r = "CANCELLED"
        BY <4>1, <4>2 DEF IbStatus
      <4>4. r \in {"PENDING", "SUBMITTED"} => IsSo(r, i)
        BY DEF IsSo
      <4>5. /\ <<"Cancelled", "None">> \in KnownUntrue /\ <<"Inactive", "REJECTED">> \in KnownUntrue
            /\ <<"PendingCancel", "CANCELLED">> \in KnownUntrue
        BY DEF KnownUntrue
      <4> QED BY <4>3, <4>4, <4>5
    <3> QED BY <2>4, <3>1, <3>2, <3>3 DEF Fills
  <2> QED BY <1>3, <1>4, <2>1, <2>2, <2>5, <2>6
<1> QED BY <1>5, <1>6

LEMMA IbQuoteMoves ==
  ASSUME TradeInv, NEW t \in Tasks, IbQuote(t) \/ IbQuoteReturn(t)
  PROVE  Moved
<1>1. /\ UNCHANGED <<adapter, book, told, untrue, altered, client, wsTask>>
      /\ client \in Nat /\ wsTask \in Nat
  BY DEF TradeInv, IbQuote, IbQuoteReturn, orderVars, linkVars, streamVars
<1>2. PICK c : c \in {[op |-> "sleep"], Idle} /\ Await(t, c)
  BY DEF IbQuote, IbQuoteReturn
<1>3. c \in Call /\ c.op \in {"sleep", "idle"}
  BY <1>2 DEF Idle, Call, Bare
<1>4. call[t].op # "place"
  BY DEF IbQuote, IbQuoteReturn, IbCall, Idle
<1>5. CallGoes
  BY <1>2, <1>3, <1>4, PlainGoes DEF Asks
<1> QED BY <1>1, <1>5, QuietMoves

LEMMA BrokerStepMoves ==
  ASSUME TradeInv, BrokerMoves
  PROVE  Moved
<1>0. PICK i \in DOMAIN book : \E m \in Moves(book[i]) :
        ~Finished(book[i]) /\ book' = [book EXCEPT ![i].native = m[1], ![i].fills = m[2]]
  BY DEF BrokerMoves
<1>1. PICK m \in Moves(book[i]) :
        ~Finished(book[i]) /\ book' = [book EXCEPT ![i].native = m[1], ![i].fills = m[2]]
  BY <1>0
<1>2. UNCHANGED <<adapter, call, told, untrue, altered, client, wsTask>>
  BY DEF BrokerMoves, linkVars, streamVars
<1>3. PICK b : b = [book EXCEPT ![i].native = m[1], ![i].fills = m[2]]
  OBVIOUS
<1>4. Keeps(b) /\ DOMAIN b = DOMAIN book
  BY <1>1, <1>3, MoveKeeps DEF TradeInv
<1>5. book' = b
  BY <1>1, <1>3
<1> QED BY <1>2, <1>4, <1>5, IbMoves

-----------------------------------------------------------------------------
(* The invariants                                                          *)

LEMMA TradeStep ==
  ASSUME TradeInv, [AdapterNext]_adapterVars
  PROVE  Moved
<1>1. ASSUME NEW t \in Tasks, CallStep(t) PROVE Moved
  <2>1. CASE ConnectCall(t) \/ ConnectAnswered(t) \/ ConnectReturn(t)
    BY <2>1, ConnectMoves
  <2>2. CASE DisconnectCall(t) \/ StreamStopped(t) \/ DisconnectReturn(t) \/ IbDisconnect(t)
    BY <2>2, DisconnectMoves
  <2>3. CASE SubscribeCall(t) \/ SubscribeReturn(t)
    BY <2>3, StreamMoves
  <2>4. CASE PlaceCall(t) \/ OrderCall(t) \/ QueryCall(t)
    BY <2>4, RequestMoves
  <2>5. CASE Refused(t)
    BY <2>5, RefusedMoves
  <2>6. CASE Answered(t)
    BY <2>6, PlacementMoves, AskedMoves
  <2>7. CASE Return(t)
    BY <2>7, ReturnMoves
  <2>8. CASE IbPlace(t)
    BY <2>8, IbPlaceMoves
  <2>9. CASE IbCancel(t)
    BY <2>9, IbCancelMoves
  <2>10. CASE IbAsk(t) \/ IbListFails(t)
    BY <2>10, IbAskMoves
  <2>11. CASE IbQuote(t) \/ IbQuoteReturn(t)
    BY <2>11, IbQuoteMoves
  <2> QED BY <1>1, <2>1, <2>2, <2>3, <2>4, <2>5, <2>6, <2>7, <2>8, <2>9, <2>10, <2>11 DEF CallStep
<1>2. ASSUME NEW n \in 1..MaxStreams, StreamStep(n) PROVE Moved
  BY <1>2, StreamMoves
<1>3. CASE UNCHANGED adapterVars
  <2>1. UNCHANGED <<adapter, book, told, untrue, altered, call, client, wsTask>>
    BY <1>3 DEF adapterVars, orderVars, linkVars, streamVars
  <2> QED BY <2>1, QuietMoves DEF CallGoes, TradeInv
<1> QED BY <1>1, <1>2, <1>3, BrokerStepMoves DEF AdapterNext

LEMMA TradeStays ==
  ASSUME TradeInv, Moved
  PROVE  TradeInv'
<1>1. PICK b : b = book'
  OBVIOUS
<1>2. Keeps(b) /\ adapter' = adapter
  BY <1>1 DEF Moved
<1>3. BookInv'
  BY <1>1, <1>2 DEF Keeps, Sound, BookInv, TradeInv
<1> QED BY <1>3 DEF Moved, TradeInv

LEMMA TradeInit == AdapterInit => TradeInv
<1> SUFFICES ASSUME AdapterInit PROVE TradeInv
  OBVIOUS
<1>1. adapter \in {"alpaca", "oanda", "ib"} /\ book = <<>> /\ told = {} /\ client = 0 /\ wsTask = 0
  BY AdapterAssumption DEF AdapterInit
<1>2. BookInv
  BY <1>1 DEF BookInv, Keeps
<1>3. CallsInv
  <2>1. Idle \in Call /\ CallFits(Idle)
    BY DEF Idle, Call, Bare, CallFits
  <2> QED BY <2>1 DEF AdapterInit, CallsInv
<1> QED BY <1>1, <1>2, <1>3 DEF TradeInv

THEOREM TradeAlways == AdapterSpec => []TradeInv
<1>1. TradeInv /\ [AdapterNext]_adapterVars => TradeInv'
  BY TradeStep, TradeStays
<1> QED BY <1>1, TradeInit, PTL DEF AdapterSpec

\* Except for what is known, a final status that an adapter reports is final at the
\* broker, and an order is booked as it was given: for every order and adapter.
THEOREM FinalReportsHold == AdapterSpec => []ReportsAreTrue
<1>1. AdapterInit => ReportsAreTrue
  BY DEF AdapterInit, ReportsAreTrue
<1>2. TradeInv /\ ReportsAreTrue /\ [AdapterNext]_adapterVars => ReportsAreTrue'
  <2> SUFFICES ASSUME TradeInv, ReportsAreTrue, [AdapterNext]_adapterVars
               PROVE  ReportsAreTrue'
    OBVIOUS
  <2>1. Moved
    BY TradeStep
  <2>2. ASSUME NEW o, NEW f, Unsupported(o, f) PROVE Unsupported(o, f)'
    BY <2>1, <2>2 DEF Unsupported, Moved
  <2>3. \A u \in untrue' : <<u.answer, u.report>> \in KnownUntrue
    BY <2>1 DEF Moved, ReportsAreTrue
  <2>4. \A a \in altered' : Unsupported(a[1], a[2])
    BY <2>1 DEF Moved, ReportsAreTrue
  <2>5. \A a \in altered' : Unsupported(a[1], a[2])'
    BY <2>2, <2>4
  <2> QED BY <2>3, <2>5 DEF ReportsAreTrue, KnownUntrue
<1> QED BY <1>1, <1>2, TradeAlways, PTL DEF AdapterSpec

\* Every order that trades or may trade is one a caller has the id of or is about to
\* get, or was told is rejected: of any number of coroutines and orders.
THEOREM NoOrderIsLost == AdapterSpec => []NobodyIsUnaware
<1>1. AdapterInit => NobodyIsUnaware
  BY DEF AdapterInit, NobodyIsUnaware
<1>2. TradeInv /\ NobodyIsUnaware /\ [AdapterNext]_adapterVars => NobodyIsUnaware'
  <2> SUFFICES ASSUME TradeInv, NobodyIsUnaware, [AdapterNext]_adapterVars,
                      NEW i \in DOMAIN book'
               PROVE  DeadUntraded(book'[i]) \/ HasOwner(i)'
    BY DEF NobodyIsUnaware, HasOwner, PlacesIt, DeadUntraded, Dead
  <2>1. Moved
    BY TradeStep
  <2>2. CASE i \in DOMAIN book /\ DeadUntraded(book[i])
    <3>1. Finished(book[i])
      BY <2>2 DEF DeadUntraded, Finished
    <3>2. book'[i] = book[i]
      BY <2>1, <2>2, <3>1 DEF Moved, Keeps
    <3> QED BY <2>2, <3>2
  <2>3. CASE i \in DOMAIN book => HasOwner(i)
    BY <2>1, <2>3 DEF Moved
  <2>4. i \in DOMAIN book => DeadUntraded(book[i]) \/ HasOwner(i)
    BY DEF NobodyIsUnaware, HasOwner, PlacesIt
  <2> QED BY <2>2, <2>3, <2>4
<1> QED BY <1>1, <1>2, TradeAlways, PTL DEF AdapterSpec

-----------------------------------------------------------------------------
(* Connections and streams                                                 *)

Stream == [state : {"ready", "opening", "open", "sleeping", "done"}, cancel : BOOLEAN]

LinkTypes ==
  /\ connected \in BOOLEAN /\ client \in Nat /\ closed \subseteq 1..client
  /\ raced \in BOOLEAN /\ unclean \in BOOLEAN
  /\ streams \in Seq(Stream) /\ wsTask \in 0..Len(streams)

\* Only Alpaca has streams.
StreamsInv ==
  adapter # "alpaca" => streams = <<>> /\ \A t \in Tasks : call[t].op # "resubscribe"

Changes(t) == call[t].op \in {"connect", "stop", "close", "resubscribe"}

\* One coroutine changes the connection at a time.  While it closes the client no
\* stream runs; while it connects the client is open; the stream it waits for is the
\* last one; and while nobody closes, a connected adapter has an open client.
Orderly ==
  /\ \A t, u \in Tasks : Changes(t) /\ Changes(u) => t = u
  /\ \A n \in DOMAIN streams : Active(n) => n = wsTask /\ connected
  /\ \A t \in Tasks : call[t].op = "close" => \A n \in DOMAIN streams : ~Active(n)
  /\ \A t \in Tasks : call[t].op = "connect" => client \notin closed
  /\ \A t \in Tasks : call[t].op = "stop" => call[t].stream = wsTask
  /\ \A t \in Tasks : call[t].op = "resubscribe" => connected /\ call[t].stream = wsTask
  /\ connected /\ (\A t \in Tasks : call[t].op # "close") => client \notin closed

LinkInv == LinkTypes /\ (raced \/ unclean \/ Orderly)

\* No other call changes
LEMMA CallAwaits ==
  ASSUME CallsInv, NEW t \in Tasks, NEW c, Await(t, c)
  PROVE  call'[t] = c /\ \A u \in Tasks : u # t => call'[u] = call[u]
  BY DEF CallsInv, Await

\* A step that neither changes the connection nor is about to
LEMMA QuietLink ==
  ASSUME LinkInv, UNCHANGED <<adapter, linkVars, streamVars, ghosts>>,
         \A t \in Tasks : call'[t] = call[t] \/ (~Changes(t) /\ ~Changes(t)')
  PROVE  LinkInv'
<1>1. LinkTypes'
  BY DEF LinkInv, LinkTypes, linkVars, streamVars, ghosts
<1>2. UNCHANGED <<connected, client, closed, streams, wsTask, raced, unclean>>
  BY DEF linkVars, streamVars, ghosts
<1>3. \A n \in DOMAIN streams : Active(n)' = Active(n)
  BY <1>2 DEF Active
<1>4. Orderly => Orderly'
  BY <1>2, <1>3 DEF Orderly, Changes
<1> QED BY <1>1, <1>2, <1>4 DEF LinkInv

LEMMA ConnectLink ==
  ASSUME CallsInv, LinkInv, NEW t \in Tasks,
         ConnectCall(t) \/ ConnectAnswered(t) \/ ConnectReturn(t)
  PROVE  LinkInv'
<1>1. CASE ConnectCall(t)
  <2>1. PICK c : c = [op |-> "connect", client |-> client', answer |-> "none"]
    OBVIOUS
  <2>2. call'[t] = c /\ c.op = "connect" /\ \A u \in Tasks : u # t => call'[u] = call[u]
    BY <1>1, <2>1, CallAwaits DEF ConnectCall
  <2>3. /\ client' = client + 1 /\ raced' = (raced \/ Changing)
        /\ UNCHANGED <<adapter, connected, closed, streams, wsTask, unclean>>
    BY <1>1 DEF ConnectCall, streamVars
  <2>4. LinkTypes' /\ client' \notin closed
    <3>1. closed \subseteq 1..client' /\ client' \in Nat /\ client' \notin closed
      BY <2>3 DEF LinkInv, LinkTypes
    <3>2. raced' \in BOOLEAN
      BY <2>3 DEF LinkInv, LinkTypes
    <3> QED BY <2>3, <3>1, <3>2 DEF LinkInv, LinkTypes
  <2>5. \A n \in DOMAIN streams : Active(n)' = Active(n)
    BY <2>3 DEF Active
  <2>6. ASSUME Orderly, ~Changing PROVE Orderly'
    BY <2>2, <2>3, <2>4, <2>5, <2>6 DEF Orderly, Changes, Changing
  <2> QED BY <2>3, <2>4, <2>6 DEF LinkInv
<1>2. CASE ConnectAnswered(t)
  <2>1. PICK a \in {"ok", "error"} : Await(t, [call[t] EXCEPT !.answer = a])
    BY <1>2 DEF ConnectAnswered
  <2>2. call[t] \in Connecting /\ call[t].op = "connect"
    BY <1>2, CallOps DEF ConnectAnswered, CallsInv
  <2>3. PICK c : c = [call[t] EXCEPT !.answer = a]
    OBVIOUS
  <2>4. c.op = "connect"
    BY <2>2, <2>3 DEF Connecting
  <2>5. call'[t] = c /\ \A u \in Tasks : u # t => call'[u] = call[u]
    BY <2>1, <2>3, CallAwaits
  <2>6. UNCHANGED <<adapter, connected, client, closed, streams, wsTask, raced, unclean>>
    BY <1>2 DEF ConnectAnswered, linkVars, streamVars, ghosts
  <2>7. \A n \in DOMAIN streams : Active(n)' = Active(n)
    BY <2>6 DEF Active
  <2>8. Orderly => Orderly'
    BY <2>2, <2>4, <2>5, <2>6, <2>7 DEF Orderly, Changes
  <2>9. LinkTypes'
    BY <2>6 DEF LinkInv, LinkTypes
  <2> QED BY <2>6, <2>8, <2>9 DEF LinkInv
<1>3. CASE ConnectReturn(t)
  <2>1. call'[t] = Idle /\ \A u \in Tasks : u # t => call'[u] = call[u]
    BY <1>3, CallAwaits DEF ConnectReturn
  <2>2. /\ call[t].op = "connect" /\ connected' = (connected \/ call[t].answer = "ok")
        /\ UNCHANGED <<adapter, client, closed, streams, wsTask, raced, unclean>>
    BY <1>3 DEF ConnectReturn, streamVars, ghosts
  <2>3. connected => connected'
    BY <2>2
  <2>4. \A n \in DOMAIN streams : Active(n)' = Active(n)
    BY <2>2 DEF Active
  <2>5. Orderly => Orderly'
    BY <2>1, <2>2, <2>3, <2>4 DEF Orderly, Changes, Idle
  <2>6. LinkTypes'
    BY <2>2 DEF LinkInv, LinkTypes
  <2> QED BY <2>2, <2>5, <2>6 DEF LinkInv
<1> QED BY <1>1, <1>2, <1>3

LEMMA StreamChange ==
  ASSUME LinkTypes, NEW n \in DOMAIN streams, NEW y \in Stream, streams' = [streams EXCEPT ![n] = y]
  PROVE  /\ streams' \in Seq(Stream) /\ Len(streams') = Len(streams)
         /\ DOMAIN streams' = DOMAIN streams
         /\ streams'[n] = y /\ \A m \in DOMAIN streams : m # n => streams'[m] = streams[m]
<1>1. streams \in Seq(Stream) /\ n \in 1..Len(streams)
  BY DEF LinkTypes
<1>2. PICK s : s = [streams EXCEPT ![n] = y]
  OBVIOUS
<1>3. s \in Seq(Stream) /\ Len(s) = Len(streams) /\ \A j \in 1..Len(streams) : s[j] = IF j = n THEN y ELSE streams[j]
  BY <1>1, <1>2, ExceptSeq
<1>4. DOMAIN s = DOMAIN streams /\ DOMAIN streams = 1..Len(streams)
  BY <1>1, <1>2
<1>5. streams' = s
  BY <1>2
<1> QED BY <1>1, <1>3, <1>4, <1>5

\* The stream that goes on is asked to stop: it goes on until it notices.
LEMMA CancelStream ==
  ASSUME LinkTypes, Streaming, streams' = [streams EXCEPT ![wsTask].cancel = TRUE]
  PROVE  /\ streams' \in Seq(Stream) /\ Len(streams') = Len(streams)
         /\ DOMAIN streams' = DOMAIN streams
         /\ \A n \in DOMAIN streams : Active(n)' = Active(n)
<1>1. wsTask \in DOMAIN streams
  BY DEF LinkTypes, Streaming
<1>2. streams[wsTask] \in Stream
  BY <1>1, ElementOfSeq DEF LinkTypes
<1>3. PICK y : y = [streams[wsTask] EXCEPT !.cancel = TRUE]
  OBVIOUS
<1>4. y \in Stream /\ y.state = streams[wsTask].state
  BY <1>2, <1>3 DEF Stream
<1>5. streams' = [streams EXCEPT ![wsTask] = y]
  BY <1>3
<1> QED BY <1>1, <1>4, <1>5, StreamChange DEF Active

\* A client is closed when no stream runs and nobody else changes the connection.
LEMMA CloseLink ==
  ASSUME CallsInv, LinkTypes, NEW t \in Tasks, CloseClient(t),
         UNCHANGED <<adapter, connected, client, streams, wsTask, unclean>>, raced' \in BOOLEAN,
         (raced' \/ unclean) \/
           /\ Orderly /\ \A u \in Tasks : Changes(u) => u = t
           /\ \A n \in DOMAIN streams : ~Active(n)
  PROVE  LinkInv'
<1>1. PICK c : c = IF client # 0 THEN [op |-> "close"] ELSE Idle
  OBVIOUS
<1>2. call'[t] = c /\ closed' = closed \cup ({client} \ {0})
      /\ \A u \in Tasks : u # t => call'[u] = call[u]
  BY <1>1, CallAwaits DEF CloseClient
<1>3. c.op = "close" \/ (c.op = "idle" /\ client = 0)
  BY <1>1 DEF Idle
<1>4. closed' \subseteq 1..client
  <2>1. closed \subseteq 1..client /\ client \in Nat
    BY DEF LinkTypes
  <2>2. client # 0 => client \in 1..client
    BY <2>1
  <2> QED BY <1>2, <2>1, <2>2
<1>5. LinkTypes'
  BY <1>4 DEF LinkTypes
<1>6. \A n \in DOMAIN streams : Active(n)' = Active(n)
  BY DEF Active
<1>7. ASSUME Orderly, \A u \in Tasks : Changes(u) => u = t, \A n \in DOMAIN streams : ~Active(n)
      PROVE  Orderly'
  <2>1. client = 0 => client \notin closed'
    BY <1>4 DEF LinkTypes
  <2>2. \A u \in Tasks : Changes(u)' => u = t
    BY <1>2, <1>7 DEF Changes
  <2>3. \A u \in Tasks : call'[u].op \notin {"connect", "stop", "resubscribe"}
    BY <1>2, <1>3, <1>7 DEF Changes
  <2> QED BY <1>2, <1>3, <1>6, <1>7, <2>1, <2>2, <2>3 DEF Orderly
<1> QED BY <1>5, <1>7 DEF LinkInv

LEMMA DisconnectLink ==
  ASSUME CallsInv, LinkInv, StreamsInv, NEW t \in Tasks,
         DisconnectCall(t) \/ StreamStopped(t) \/ DisconnectReturn(t) \/ IbDisconnect(t)
  PROVE  LinkInv'
<1>1. CASE DisconnectCall(t)
  <2>1. /\ call[t] = Idle /\ raced' = (raced \/ Changing)
        /\ UNCHANGED <<adapter, connected, client, wsTask, unclean>>
    BY <1>1 DEF DisconnectCall
  <2>2. raced' \in BOOLEAN /\ LinkTypes
    BY <2>1 DEF LinkInv, LinkTypes
  <2>3. CASE Streaming
    <3>1. PICK c : c = [op |-> "stop", stream |-> wsTask]
      OBVIOUS
    <3>2. /\ call'[t] = c /\ c.op = "stop" /\ c.stream = wsTask
          /\ \A u \in Tasks : u # t => call'[u] = call[u]
      BY <1>1, <2>3, <3>1, CallAwaits DEF DisconnectCall
    <3>3. closed' = closed /\ streams' = [streams EXCEPT ![wsTask].cancel = TRUE]
      BY <1>1, <2>3 DEF DisconnectCall
    <3>4. /\ streams' \in Seq(Stream) /\ Len(streams') = Len(streams)
          /\ DOMAIN streams' = DOMAIN streams
          /\ \A n \in DOMAIN streams : Active(n)' = Active(n)
      BY <2>2, <2>3, <3>3, CancelStream
    <3>5. LinkTypes'
      BY <2>1, <2>2, <3>3, <3>4 DEF LinkTypes
    <3>6. ASSUME Orderly, ~Changing PROVE Orderly'
      BY <2>1, <3>2, <3>3, <3>4, <3>6 DEF Orderly, Changes, Changing
    <3> QED BY <2>1, <3>5, <3>6 DEF LinkInv
  <2>4. CASE ~Streaming
    <3>1. CloseClient(t) /\ UNCHANGED streams
      BY <1>1, <2>4 DEF DisconnectCall
    <3>2. (raced' \/ unclean) \/
            /\ Orderly /\ \A u \in Tasks : Changes(u) => u = t
            /\ \A n \in DOMAIN streams : ~Active(n)
      <4>1. Orderly => \A n \in DOMAIN streams : ~Active(n)
        <5>1. \A n \in DOMAIN streams : n # 0
          BY DEF LinkInv, LinkTypes
        <5> QED BY <2>4, <5>1 DEF Orderly, Streaming
      <4>2. ~Changing => \A u \in Tasks : Changes(u) => u = t
        BY DEF Changing, Changes
      <4> QED BY <2>1, <4>1, <4>2 DEF LinkInv
    <3> QED BY <2>1, <2>2, <3>1, <3>2, CloseLink
  <2> QED BY <2>3, <2>4
<1>2. CASE StreamStopped(t)
  <2>1. /\ call[t].op = "stop" /\ ~Active(call[t].stream) /\ CloseClient(t)
        /\ UNCHANGED <<adapter, connected, client, streams, wsTask, raced, unclean>>
    BY <1>2 DEF StreamStopped, streamVars, ghosts
  <2>2. Orderly => /\ \A u \in Tasks : Changes(u) => u = t
                   /\ \A n \in DOMAIN streams : ~Active(n)
    BY <2>1 DEF Orderly, Changes
  <2> QED BY <2>1, <2>2, CloseLink DEF LinkInv, LinkTypes
<1>3. CASE DisconnectReturn(t)
  <2>1. call'[t] = Idle /\ \A u \in Tasks : u # t => call'[u] = call[u]
    BY <1>3, CallAwaits DEF DisconnectReturn
  <2>2. /\ call[t].op = "close"
        /\ UNCHANGED <<adapter, client, closed, streams, wsTask, raced>>
        /\ (connected' = FALSE /\ unclean' = unclean) \/ (unclean' = TRUE /\ connected' = connected)
    BY <1>3 DEF DisconnectReturn, streamVars
  <2>3. LinkTypes'
    BY <2>2 DEF LinkInv, LinkTypes
  <2>4. \A n \in DOMAIN streams : Active(n)' = Active(n)
    BY <2>2 DEF Active
  <2>5. ASSUME Orderly, connected' = FALSE PROVE Orderly'
    <3>1. \A n \in DOMAIN streams : ~Active(n)
      BY <2>2, <2>5 DEF Orderly
    <3>2. \A u \in Tasks : ~Changes(u)'
      BY <2>1, <2>2, <2>5 DEF Orderly, Changes, Idle
    <3> QED BY <2>2, <2>4, <2>5, <3>1, <3>2 DEF Orderly, Changes
  <2> QED BY <2>2, <2>3, <2>5 DEF LinkInv
<1>4. CASE IbDisconnect(t)
  <2>1. /\ adapter = "ib" /\ client # 0 /\ closed' = closed \cup {client}
        /\ raced' = (raced \/ Changing)
        /\ (connected' = FALSE /\ unclean' = unclean) \/ (unclean' = TRUE /\ connected' = connected)
        /\ UNCHANGED <<adapter, client, call, streams, wsTask>>
    BY <1>4 DEF IbDisconnect, Rest, Ensured, streamVars
  <2>2. LinkTypes'
    <3>1. closed \subseteq 1..client /\ client \in Nat
      BY DEF LinkInv, LinkTypes
    <3>2. client \in 1..client
      BY <2>1, <3>1
    <3>3. closed' \subseteq 1..client /\ raced' \in BOOLEAN /\ connected' \in BOOLEAN
      BY <2>1, <3>1, <3>2 DEF LinkInv, LinkTypes
    <3> QED BY <2>1, <3>3 DEF LinkInv, LinkTypes
  <2>3. streams = <<>>
    BY <2>1 DEF StreamsInv
  <2>4. ASSUME ~Changing, connected' = FALSE PROVE Orderly'
    <3>1. \A u \in Tasks : ~Changes(u)'
      BY <2>1, <2>4 DEF Changing, Changes
    <3>2. DOMAIN streams' = {}
      BY <2>1, <2>3
    <3> QED BY <2>4, <3>1, <3>2 DEF Orderly, Changes
  <2> QED BY <2>1, <2>2, <2>4 DEF LinkInv
<1> QED BY <1>1, <1>2, <1>3, <1>4

\* A new stream is the last one, and the only one that runs if no other did.
LEMMA NewStreamRuns ==
  ASSUME LinkTypes, NewStream
  PROVE  /\ streams' \in Seq(Stream) /\ Len(streams') = Len(streams) + 1
         /\ wsTask' \in 1..Len(streams')
         /\ \A n \in DOMAIN streams' : n # wsTask' => n \in DOMAIN streams /\ Active(n)' = Active(n)
<1>1. PICK y : y = [state |-> "ready", cancel |-> FALSE]
  OBVIOUS
<1>2. y \in Stream /\ streams \in Seq(Stream) /\ Len(streams) \in Nat
  BY <1>1 DEF Stream, LinkTypes
<1>3. PICK s : s = Append(streams, y)
  OBVIOUS
<1>4. /\ s \in Seq(Stream) /\ Len(s) = Len(streams) + 1
      /\ \A n \in 1..Len(streams) : s[n] = streams[n]
  BY <1>2, <1>3, AppendProperties
<1>5. streams' = s /\ wsTask' = Len(streams) + 1
  BY <1>1, <1>3 DEF NewStream
<1>6. wsTask' \in 1..Len(s) /\ DOMAIN s = 1..(Len(streams) + 1) /\ DOMAIN streams = 1..Len(streams)
  BY <1>2, <1>4, <1>5
<1>7. ASSUME NEW n \in DOMAIN s, n # wsTask' PROVE n \in DOMAIN streams /\ s[n] = streams[n]
  BY <1>2, <1>4, <1>5, <1>6, <1>7
<1> QED BY <1>4, <1>5, <1>6, <1>7 DEF Active

LEMMA SubscribeLink ==
  ASSUME CallsInv, LinkInv, NEW t \in Tasks, SubscribeCall(t) \/ SubscribeReturn(t)
  PROVE  LinkInv'
<1>1. CASE SubscribeCall(t)
  <2>1. /\ call[t] = Idle /\ adapter = "alpaca" /\ connected /\ raced' = (raced \/ Changing)
        /\ UNCHANGED <<adapter, connected, client, closed, unclean>>
    BY <1>1 DEF SubscribeCall, Ensured, linkVars
  <2>2. LinkTypes /\ raced' \in BOOLEAN
    BY <2>1 DEF LinkInv, LinkTypes
  <2>3. CASE Streaming
    <3>1. PICK c : c = [op |-> "resubscribe", stream |-> wsTask]
      OBVIOUS
    <3>2. /\ call'[t] = c /\ c.op = "resubscribe" /\ c.stream = wsTask
          /\ \A u \in Tasks : u # t => call'[u] = call[u]
      BY <1>1, <2>3, <3>1, CallAwaits DEF SubscribeCall
    <3>3. wsTask' = wsTask /\ streams' = [streams EXCEPT ![wsTask].cancel = TRUE]
      BY <1>1, <2>3 DEF SubscribeCall
    <3>4. /\ streams' \in Seq(Stream) /\ Len(streams') = Len(streams)
          /\ DOMAIN streams' = DOMAIN streams
          /\ \A n \in DOMAIN streams : Active(n)' = Active(n)
      BY <2>2, <2>3, <3>3, CancelStream
    <3>5. LinkTypes'
      BY <2>1, <2>2, <3>3, <3>4 DEF LinkTypes
    <3>6. ASSUME Orderly, ~Changing PROVE Orderly'
      BY <2>1, <3>2, <3>3, <3>4, <3>6 DEF Orderly, Changes, Changing
    <3> QED BY <2>1, <3>5, <3>6 DEF LinkInv
  <2>4. CASE ~Streaming
    <3>1. NewStream /\ call' = call
      BY <1>1, <2>4 DEF SubscribeCall
    <3>2. /\ streams' \in Seq(Stream) /\ Len(streams') = Len(streams) + 1
          /\ wsTask' \in 1..Len(streams')
          /\ \A n \in DOMAIN streams' : n # wsTask' => n \in DOMAIN streams /\ Active(n)' = Active(n)
      BY <2>2, <3>1, NewStreamRuns
    <3>3. LinkTypes'
      BY <2>1, <2>2, <3>2 DEF LinkTypes
    <3>4. ASSUME Orderly, ~Changing PROVE Orderly'
      <4>1. \A n \in DOMAIN streams : ~Active(n)
        <5>1. \A n \in DOMAIN streams : n # 0
          BY <2>2 DEF LinkTypes
        <5> QED BY <2>4, <3>4, <5>1 DEF Orderly, Streaming
      <4>2. \A n \in DOMAIN streams' : Active(n)' => n = wsTask' /\ connected'
        BY <2>1, <3>2, <4>1
      <4>3. \A u \in Tasks : ~Changes(u)'
        BY <3>1, <3>4 DEF Changing, Changes
      <4>4. client' \notin closed'
        BY <2>1, <3>4 DEF Orderly, Changing
      <4> QED BY <4>2, <4>3, <4>4 DEF Orderly, Changes
    <3> QED BY <2>1, <3>3, <3>4 DEF LinkInv
  <2> QED BY <2>3, <2>4
<1>2. CASE SubscribeReturn(t)
  <2>1. call'[t] = Idle /\ \A u \in Tasks : u # t => call'[u] = call[u]
    BY <1>2, CallAwaits DEF SubscribeReturn
  <2>2. /\ call[t].op = "resubscribe" /\ ~Active(call[t].stream) /\ NewStream
        /\ UNCHANGED <<adapter, connected, client, closed, raced, unclean>> /\ LinkTypes
    BY <1>2 DEF SubscribeReturn, linkVars, ghosts, LinkInv
  <2>3. /\ streams' \in Seq(Stream) /\ Len(streams') = Len(streams) + 1
        /\ wsTask' \in 1..Len(streams')
        /\ \A n \in DOMAIN streams' : n # wsTask' => n \in DOMAIN streams /\ Active(n)' = Active(n)
    BY <2>2, NewStreamRuns
  <2>4. ASSUME Orderly PROVE Orderly'
    <3>1. connected /\ \A n \in DOMAIN streams : ~Active(n)
      BY <2>2, <2>4 DEF Orderly
    <3>2. \A n \in DOMAIN streams' : Active(n)' => n = wsTask' /\ connected'
      BY <2>2, <2>3, <3>1
    <3>3. \A u \in Tasks : ~Changes(u)'
      BY <2>1, <2>2, <2>4 DEF Orderly, Changes, Idle
    <3>4. \A u \in Tasks : call[u].op # "close"
      BY <2>2, <2>4 DEF Orderly, Changes
    <3>5. client' \notin closed'
      BY <2>2, <2>4, <3>1, <3>4 DEF Orderly
    <3> QED BY <3>2, <3>3, <3>5 DEF Orderly, Changes
  <2>5. LinkTypes'
    BY <2>2, <2>3 DEF LinkTypes
  <2> QED BY <2>2, <2>4, <2>5 DEF LinkInv
<1> QED BY <1>1, <1>2

\* A stream goes from one state to the next, and does not start again.
LEMMA StreamLink ==
  ASSUME LinkInv, NEW n, StreamStep(n)
  PROVE  LinkInv'
<1>1. UNCHANGED <<adapter, connected, client, closed, call, wsTask, raced, unclean>> /\ LinkTypes
  BY DEF StreamStep, StreamLoop, StreamOpens, StreamCloses, StreamBreaks, StreamWakes,
         StreamCancelled, StreamGoes, linkVars, ghosts, LinkInv
<1>2. PICK to \in {"ready", "opening", "open", "sleeping", "done"} :
        /\ n \in DOMAIN streams /\ Active(n) /\ streams' = [streams EXCEPT ![n].state = to]
  <2>1. ASSUME NEW from \in SUBSET {"ready", "opening", "open", "sleeping"},
               NEW to \in {"ready", "opening", "open", "sleeping", "done"}, StreamGoes(n, from, to)
        PROVE  n \in DOMAIN streams /\ Active(n) /\ streams' = [streams EXCEPT ![n].state = to]
    BY <2>1 DEF StreamGoes, Active
  <2>2. CASE StreamLoop(n)
    BY <2>1, <2>2 DEF StreamLoop
  <2>3. CASE StreamOpens(n)
    BY <2>1, <2>3 DEF StreamOpens
  <2>4. CASE StreamCloses(n)
    BY <2>1, <2>4 DEF StreamCloses
  <2>5. CASE StreamBreaks(n)
    BY <2>1, <2>5 DEF StreamBreaks
  <2>6. CASE StreamWakes(n)
    BY <2>1, <2>6 DEF StreamWakes
  <2>7. CASE StreamCancelled(n)
    BY <2>7 DEF StreamCancelled
  <2> QED BY <2>2, <2>3, <2>4, <2>5, <2>6, <2>7 DEF StreamStep
<1>3. PICK y : y = [streams[n] EXCEPT !.state = to]
  OBVIOUS
<1>4. streams[n] \in Stream
  BY <1>1, <1>2, ElementOfSeq DEF LinkTypes
<1>5. y \in Stream
  BY <1>2, <1>3, <1>4 DEF Stream
<1>6. streams' = [streams EXCEPT ![n] = y]
  BY <1>2, <1>3
<1>7. /\ streams' \in Seq(Stream) /\ Len(streams') = Len(streams)
      /\ DOMAIN streams' = DOMAIN streams
      /\ \A m \in DOMAIN streams : m # n => streams'[m] = streams[m]
  BY <1>1, <1>2, <1>5, <1>6, StreamChange
<1>8. \A m \in DOMAIN streams : Active(m)' => Active(m)
  BY <1>2, <1>7 DEF Active
<1>9. LinkTypes'
  BY <1>1, <1>2, <1>7 DEF LinkTypes
<1>10. Orderly => Orderly'
  BY <1>1, <1>7, <1>8 DEF Orderly, Changes
<1> QED BY <1>1, <1>9, <1>10 DEF LinkInv

\* A request goes on as the kind of request it is.
LEMMA WaitGoesOn ==
  ASSUME CallsInv, NEW t \in Tasks, Refused(t) \/ Answered(t)
  PROVE  /\ call[t].op \in {"place"} \cup Asks /\ call'[t].op = call[t].op
         /\ \A u \in Tasks : u # t => call'[u] = call[u]
<1>1. PICK d : d = call[t]
  OBVIOUS
<1>2. d \in Placing \cup Asking /\ d.op \in {"place"} \cup Asks
  BY <1>1, CallOps DEF CallsInv, Refused, Answered, Waits, Asks
<1>3. ASSUME NEW a, Await(t, [d EXCEPT !.answer = a])
      PROVE  call'[t].op = d.op /\ \A u \in Tasks : u # t => call'[u] = call[u]
  <2>1. PICK c : c = [d EXCEPT !.answer = a]
    OBVIOUS
  <2>2. c.op = d.op
    BY <1>2, <2>1 DEF Placing, Asking
  <2> QED BY <1>3, <2>1, <2>2, CallAwaits
<1>4. ASSUME NEW a, NEW k, Await(t, [d EXCEPT !.id = k, !.answer = a])
      PROVE  call'[t].op = d.op /\ \A u \in Tasks : u # t => call'[u] = call[u]
  <2>1. PICK c : c = [d EXCEPT !.id = k, !.answer = a]
    OBVIOUS
  <2>2. c.op = d.op
    BY <1>2, <2>1 DEF Placing, Asking
  <2> QED BY <1>4, <2>1, <2>2, CallAwaits
<1>5. CASE Refused(t)
  BY <1>1, <1>2, <1>3, <1>5 DEF Refused
<1>6. CASE Answered(t)
  <2>1. (\E a : Await(t, [d EXCEPT !.answer = a]))
          \/ \E a, k : Await(t, [d EXCEPT !.id = k, !.answer = a])
    BY <1>1, <1>6 DEF Answered
  <2> QED BY <1>1, <1>2, <1>3, <1>4, <2>1
<1> QED BY <1>5, <1>6

\* Trading does not touch the connection.
Trades(t) ==
  \/ PlaceCall(t) \/ OrderCall(t) \/ QueryCall(t) \/ Refused(t) \/ Answered(t) \/ Return(t)
  \/ IbPlace(t) \/ IbCancel(t) \/ IbAsk(t) \/ IbListFails(t) \/ IbQuote(t) \/ IbQuoteReturn(t)

LEMMA TradesQuietly ==
  ASSUME CallsInv, NEW t \in Tasks, Trades(t)
  PROVE  /\ UNCHANGED <<adapter, linkVars, streamVars, ghosts>>
         /\ \A u \in Tasks : call'[u] = call[u] \/ (~Changes(u) /\ ~Changes(u)')
<1>1. UNCHANGED <<adapter, linkVars, streamVars, ghosts>>
  BY DEF Trades, PlaceCall, OrderCall, QueryCall, Refused, Answered, Return, IbPlace, IbCancel,
         IbAsk, IbListFails, IbQuote, IbQuoteReturn
<1>2. ASSUME NEW c, Await(t, c), c.op \notin {"connect", "stop", "close", "resubscribe"}, ~Changes(t)
      PROVE  \A u \in Tasks : call'[u] = call[u] \/ (~Changes(u) /\ ~Changes(u)')
  BY <1>2, CallAwaits DEF Changes
<1>3. CASE PlaceCall(t)
  <2>1. PICK o \in Orders :
          Await(t, [op |-> "place", client |-> client, id |-> 0, answer |-> "none", order |-> o])
    BY <1>3 DEF PlaceCall
  <2>2. PICK c : c = [op |-> "place", client |-> client, id |-> 0, answer |-> "none", order |-> o]
    OBVIOUS
  <2>3. Await(t, c) /\ c.op = "place" /\ call[t].op = "idle"
    BY <1>3, <2>1, <2>2 DEF PlaceCall, Idle
  <2> QED BY <1>1, <1>2, <2>3 DEF Changes
<1>4. CASE OrderCall(t) \/ QueryCall(t)
  <2>1. PICK op, i : op \in Asks /\ Request(t, op, i)
    BY <1>4 DEF OrderCall, QueryCall, Asks
  <2>2. PICK c : c = [op |-> op, client |-> client, id |-> i, answer |-> "none"]
    OBVIOUS
  <2>3. Await(t, c) /\ c.op \in Asks /\ call[t].op = "idle"
    BY <1>4, <2>1, <2>2 DEF OrderCall, QueryCall, Request, Idle
  <2> QED BY <1>1, <1>2, <2>3 DEF Changes, Asks
<1>5. CASE Refused(t) \/ Answered(t)
  BY <1>1, <1>5, WaitGoesOn DEF Changes, Asks
<1>6. CASE Return(t)
  BY <1>1, <1>2, <1>6 DEF Return, Waits, Changes, Idle
<1>7. CASE IbPlace(t) \/ IbCancel(t) \/ IbAsk(t) \/ IbListFails(t)
  BY <1>1, <1>7 DEF IbPlace, IbCancel, IbAsk, IbListFails
<1>8. CASE IbQuote(t) \/ IbQuoteReturn(t)
  <2>1. PICK c : Await(t, c) /\ c \in {[op |-> "sleep"], Idle}
    BY <1>8 DEF IbQuote, IbQuoteReturn
  <2>2. c.op \in {"sleep", "idle"} /\ call[t].op \in {"sleep", "idle"}
    BY <1>8, <2>1 DEF Idle, IbQuote, IbQuoteReturn, IbCall
  <2> QED BY <1>1, <1>2, <2>1, <2>2 DEF Changes
<1> QED BY <1>3, <1>4, <1>5, <1>6, <1>7, <1>8 DEF Trades

LEMMA StreamsStep ==
  ASSUME CallsInv, LinkTypes, StreamsInv, [AdapterNext]_adapterVars
  PROVE  StreamsInv'
<1> DEFINE Quiet == /\ streams = <<>> => streams' = <<>>
                    /\ \A u \in Tasks : call'[u].op = "resubscribe" => call[u].op = "resubscribe"
                    /\ adapter' = adapter
<1>1. Quiet => StreamsInv'
  BY DEF StreamsInv
<1>2. ASSUME NEW t \in Tasks, NEW c, Await(t, c), c.op # "resubscribe"
      PROVE  \A u \in Tasks : call'[u].op = "resubscribe" => call[u].op = "resubscribe"
  BY <1>2, CallAwaits
<1>3. ASSUME NEW t \in Tasks, CallStep(t) PROVE StreamsInv'
  <2>1. CASE ConnectCall(t)
    <3>1. PICK c : c = [op |-> "connect", client |-> client', answer |-> "none"]
      OBVIOUS
    <3>2. Await(t, c) /\ c.op = "connect"
      BY <2>1, <3>1 DEF ConnectCall
    <3> QED BY <1>1, <1>2, <2>1, <3>2 DEF ConnectCall, streamVars
  <2>2. CASE ConnectAnswered(t)
    <3>1. PICK a : Await(t, [call[t] EXCEPT !.answer = a])
      BY <2>2 DEF ConnectAnswered
    <3>2. call[t] \in Connecting
      BY <2>2, CallOps DEF ConnectAnswered, CallsInv
    <3>3. PICK c : c = [call[t] EXCEPT !.answer = a]
      OBVIOUS
    <3>4. Await(t, c) /\ c.op = "connect"
      BY <3>1, <3>2, <3>3 DEF Connecting
    <3> QED BY <1>1, <1>2, <2>2, <3>4 DEF ConnectAnswered, streamVars
  <2>3. CASE ConnectReturn(t) \/ DisconnectReturn(t)
    <3>1. Await(t, Idle) /\ UNCHANGED <<adapter, streams>> /\ Idle.op # "resubscribe"
      BY <2>3 DEF ConnectReturn, DisconnectReturn, streamVars, Idle
    <3> QED BY <1>1, <1>2, <3>1
  <2>4. CASE DisconnectCall(t) \/ StreamStopped(t)
    <3>1. PICK c : c \in {[op |-> "stop", stream |-> wsTask], [op |-> "close"], Idle} /\ Await(t, c)
      BY <2>4 DEF DisconnectCall, StreamStopped, CloseClient
    <3>2. c.op # "resubscribe"
      BY <3>1 DEF Idle
    <3>3. streams' = streams \/ streams' = [streams EXCEPT ![wsTask].cancel = TRUE]
      BY <2>4 DEF DisconnectCall, StreamStopped, streamVars
    <3>4. streams = <<>> => streams' = <<>>
      BY <3>3
    <3> QED BY <1>1, <1>2, <2>4, <3>1, <3>2, <3>4 DEF DisconnectCall, StreamStopped
  <2>5. CASE IbDisconnect(t)
    BY <1>1, <2>5 DEF IbDisconnect, streamVars
  <2>6. CASE SubscribeCall(t)
    BY <2>6 DEF SubscribeCall, StreamsInv
  <2>7. CASE SubscribeReturn(t)
    BY <2>7 DEF SubscribeReturn, StreamsInv
  <2>8. CASE Trades(t)
    <3>1. UNCHANGED <<adapter, streams>>
      BY <2>8, TradesQuietly DEF streamVars
    <3>2. \A u \in Tasks : call'[u] = call[u] \/ (~Changes(u) /\ ~Changes(u)')
      BY <2>8, TradesQuietly
    <3> QED BY <1>1, <3>1, <3>2 DEF Changes
  <2> QED BY <1>3, <2>1, <2>2, <2>3, <2>4, <2>5, <2>6, <2>7, <2>8 DEF CallStep, Trades
<1>4. ASSUME NEW n, StreamStep(n) PROVE StreamsInv'
  <2>1. n \in DOMAIN streams /\ UNCHANGED <<adapter, call>>
    BY <1>4 DEF StreamStep, StreamLoop, StreamOpens, StreamCloses, StreamBreaks, StreamWakes,
                StreamCancelled, StreamGoes
  <2>2. streams # <<>>
    BY <2>1
  <2> QED BY <1>1, <2>1, <2>2
<1>5. CASE BrokerMoves
  BY <1>1, <1>5 DEF BrokerMoves, streamVars
<1>6. CASE UNCHANGED adapterVars
  BY <1>1, <1>6 DEF adapterVars, streamVars
<1> QED BY <1>3, <1>4, <1>5, <1>6 DEF AdapterNext

LEMMA LinkStep ==
  ASSUME CallsInv, StreamsInv, LinkInv, [AdapterNext]_adapterVars
  PROVE  LinkInv'
<1>1. ASSUME NEW t \in Tasks, CallStep(t) PROVE LinkInv'
  <2>1. CASE ConnectCall(t) \/ ConnectAnswered(t) \/ ConnectReturn(t)
    BY <2>1, ConnectLink
  <2>2. CASE DisconnectCall(t) \/ StreamStopped(t) \/ DisconnectReturn(t) \/ IbDisconnect(t)
    BY <2>2, DisconnectLink
  <2>3. CASE SubscribeCall(t) \/ SubscribeReturn(t)
    BY <2>3, SubscribeLink
  <2>4. CASE Trades(t)
    BY <2>4, TradesQuietly, QuietLink
  <2> QED BY <1>1, <2>1, <2>2, <2>3, <2>4 DEF CallStep, Trades
<1>2. CASE BrokerMoves
  BY <1>2, QuietLink DEF BrokerMoves
<1>3. CASE UNCHANGED adapterVars
  BY <1>3, QuietLink DEF adapterVars
<1> QED BY <1>1, <1>2, <1>3, StreamLink DEF AdapterNext

\* Unless changes of the connection overlap or a close raises, a connected adapter that
\* is not about to change that has an open client, and no stream but the last one runs,
\* and only while it is connected: for any number of coroutines, clients and streams.
THEOREM ConnectedMeansUsable == AdapterSpec => []ConnectionIsUsable
<1> DEFINE Inv == StreamsInv /\ LinkInv
<1>1. AdapterInit => Inv
  <2> SUFFICES ASSUME AdapterInit PROVE Inv
    OBVIOUS
  <2>1. /\ connected = FALSE /\ client = 0 /\ closed = {} /\ streams = <<>> /\ wsTask = 0
        /\ raced = FALSE /\ unclean = FALSE /\ \A t \in Tasks : call[t].op = "idle"
    BY DEF AdapterInit, Idle
  <2>2. LinkTypes
    <3>1. streams \in Seq(Stream) /\ wsTask \in 0..Len(streams)
      BY <2>1
    <3>2. connected \in BOOLEAN /\ raced \in BOOLEAN /\ unclean \in BOOLEAN
      BY <2>1
    <3>3. client \in Nat /\ closed \subseteq 1..client
      BY <2>1
    <3> QED BY <3>1, <3>2, <3>3 DEF LinkTypes
  <2> QED BY <2>1, <2>2 DEF StreamsInv, LinkInv, Orderly, Changes
<1>2. TradeInv /\ Inv /\ [AdapterNext]_adapterVars => Inv'
  BY StreamsStep, LinkStep DEF TradeInv, LinkInv
<1>3. Inv => ConnectionIsUsable
  <2> SUFFICES ASSUME Orderly PROVE ConnectionIsUsable
    BY DEF LinkInv, ConnectionIsUsable
  <2> QED BY DEF Orderly, ConnectionIsUsable, Changing
<1> QED BY <1>1, <1>2, <1>3, TradeAlways, PTL DEF AdapterSpec
=============================================================================
