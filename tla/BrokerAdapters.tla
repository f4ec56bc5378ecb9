--------------------------- MODULE BrokerAdapters ---------------------------
(***************************************************************************)
(* The adapters of remote brokers (src/ist/execution: adapter.py,          *)
(* alpaca_broker.py, oanda_broker.py, ib_broker.py): connections, orders,  *)
(* queries, and the trade stream of Alpaca.                                *)
(*                                                                         *)
(* Alpaca and OANDA are reached by HTTP: a request is a call, an answer of *)
(* the broker and a return, and others move in between.  Interactive       *)
(* Brokers is reached through ib_insync, which answers from memory, so     *)
(* that only connecting and quotes await.  A client is a number; replaced  *)
(* ones are not closed by anybody.  Quantities count halves.               *)
(***************************************************************************)
EXTENDS Integers, Sequences, FiniteSets

CONSTANTS
  Tasks, Adapters,
  Orders,          \* what callers may place: records type, side, quantity, tif, priced
  MaxConnects, MaxOrders, MaxStreams \* bounds: clients, placements, streams

ASSUME AdapterAssumption ==
  /\ Adapters \subseteq {"alpaca", "oanda", "ib"}
  /\ Orders \subseteq [type : {"market", "limit", "stop", "stop_limit"}, side : {"buy", "sell"},
                       quantity : Nat, tif : {"GTC", "IOC", "FOK", "DAY"}, priced : BOOLEAN]
  /\ MaxConnects \in Nat /\ MaxOrders \in Nat /\ MaxStreams \in Nat

VARIABLES
  adapter,         \* the class BrokerFactory.create has made an instance of
  connected,       \* _connected
  client, closed,  \* _client or _ib, 0 for None; the clients that were closed
  call,            \* what each coroutine waits for
  streams, wsTask, \* the stream tasks; _ws_task, 0 for None
  book,            \* the broker's orders
  told,            \* the ids callers were given
  untrue,          \* what the adapter said that was not so: order, the broker's answer, report
  altered,         \* <<order, field>> in which an order was booked other than it was given
  raced, unclean   \* connects, disconnects or subscriptions overlapped; a close raised

linkVars == <<connected, client, closed>>
streamVars == <<streams, wsTask>>
orderVars == <<book, told, untrue, altered>>
ghosts == <<raced, unclean>>
adapterVars == <<adapter, linkVars, call, streamVars, orderVars, ghosts>>

Idle == [op |-> "idle"]
Await(t, c) == call' = [call EXCEPT ![t] = c]
Rest == adapter # "ib"

\* _ensure_connected passes.
Ensured == connected /\ client # 0

Active(n) == streams[n].state # "done"
Streaming == wsTask # 0 /\ Active(wsTask)

\* Some coroutine is in the middle of connect, disconnect or subscribe_trades.
Changing == \E t \in Tasks : call[t].op \in {"connect", "stop", "close", "resubscribe"}

-----------------------------------------------------------------------------
(* connect, disconnect and reconnect                                       *)

\* The client is made, and takes the place of the one before, before it is tried.
\* reconnect calls connect unless it is connected.
ConnectCall(t) ==
  /\ call[t] = Idle /\ client < MaxConnects
  /\ client' = client + 1
  /\ Await(t, [op |-> "connect", client |-> client', answer |-> "none"])
  /\ raced' = (raced \/ Changing)
  /\ UNCHANGED <<adapter, connected, closed, streamVars, orderVars, unclean>>

ConnectAnswered(t) ==
  /\ call[t].op = "connect" /\ call[t].answer = "none"
  /\ \E answer \in {"ok", "error"} :
       /\ call[t].client \in closed => answer = "error"
       /\ Await(t, [call[t] EXCEPT !.answer = answer])
  /\ UNCHANGED <<adapter, linkVars, streamVars, orderVars, ghosts>>

ConnectReturn(t) ==
  /\ call[t].op = "connect" /\ call[t].answer # "none"
  /\ connected' = (connected \/ call[t].answer = "ok")
  /\ Await(t, Idle)
  /\ UNCHANGED <<adapter, client, closed, streamVars, orderVars, ghosts>>

\* aclose marks the client closed before it awaits.
CloseClient(t) ==
  /\ Await(t, IF client # 0 THEN [op |-> "close"] ELSE Idle)
  /\ closed' = closed \cup ({client} \ {0})

\* Mutant: the client is closed while its stream goes on.
DisconnectCall_KeepsStream(t) ==
  /\ call[t] = Idle /\ Rest
  /\ CloseClient(t)
  /\ raced' = (raced \/ Changing)
  /\ UNCHANGED <<adapter, connected, client, streamVars, orderVars, unclean>>

\* Alpaca cancels the stream first, and waits until it is done.
DisconnectCall(t) ==
  /\ call[t] = Idle /\ Rest
  /\ IF Streaming
       THEN /\ streams' = [streams EXCEPT ![wsTask].cancel = TRUE]
            /\ Await(t, [op |-> "stop", stream |-> wsTask])
            /\ UNCHANGED closed
       ELSE CloseClient(t) /\ UNCHANGED streams
  /\ raced' = (raced \/ Changing)
  /\ UNCHANGED <<adapter, connected, client, wsTask, orderVars, unclean>>

StreamStopped(t) ==
  /\ call[t].op = "stop" /\ ~Active(call[t].stream)
  /\ CloseClient(t)
  /\ UNCHANGED <<adapter, connected, client, streamVars, orderVars, ghosts>>

\* An exception out of aclose leaves the adapter connected.
DisconnectReturn(t) ==
  /\ call[t].op = "close"
  /\ \/ connected' = FALSE /\ UNCHANGED unclean
     \/ unclean' = TRUE /\ UNCHANGED connected
  /\ Await(t, Idle)
  /\ UNCHANGED <<adapter, client, closed, streamVars, orderVars, raced>>

\* ib_insync disconnects without an await, and only when connected.
IbDisconnect(t) ==
  /\ call[t] = Idle /\ ~Rest /\ Ensured
  /\ closed' = closed \cup {client}
  /\ \/ connected' = FALSE /\ UNCHANGED unclean
     \/ unclean' = TRUE /\ UNCHANGED connected
  /\ raced' = (raced \/ Changing)
  /\ UNCHANGED <<adapter, client, call, streamVars, orderVars>>

-----------------------------------------------------------------------------
(* subscribe_trades and _ws_stream                                         *)

NewStream ==
  /\ streams' = Append(streams, [state |-> "ready", cancel |-> FALSE])
  /\ wsTask' = Len(streams) + 1

SubscribeCall(t) ==
  /\ call[t] = Idle /\ adapter = "alpaca" /\ Ensured
  /\ Len(streams) + Cardinality({u \in Tasks : call[u].op = "resubscribe"}) < MaxStreams
  /\ IF Streaming
       THEN /\ streams' = [streams EXCEPT ![wsTask].cancel = TRUE]
            /\ Await(t, [op |-> "resubscribe", stream |-> wsTask])
            /\ UNCHANGED wsTask
       ELSE NewStream /\ UNCHANGED call
  /\ raced' = (raced \/ Changing)
  /\ UNCHANGED <<adapter, linkVars, orderVars, unclean>>

\* Nothing is checked again: another task may have been started meanwhile.
SubscribeReturn(t) ==
  /\ call[t].op = "resubscribe" /\ ~Active(call[t].stream)
  /\ NewStream
  /\ Await(t, Idle)
  /\ UNCHANGED <<adapter, linkVars, orderVars, ghosts>>

StreamGoes(n, from, to) ==
  /\ n \in DOMAIN streams /\ streams[n].state \in from /\ ~streams[n].cancel
  /\ streams' = [streams EXCEPT ![n].state = to]
  /\ UNCHANGED <<adapter, linkVars, call, wsTask, orderVars, ghosts>>

StreamLoop(n) == StreamGoes(n, {"ready"}, IF connected THEN "opening" ELSE "done")
\* Connected, authenticated and subscribed
StreamOpens(n) == StreamGoes(n, {"opening"}, "open")
\* The server closes the connection in order: no exception, no sleep.
StreamCloses(n) == StreamGoes(n, {"open"}, "ready")

\* Mutant: an error ends the stream.
StreamBreaks_Ends(n) ==
  \/ StreamGoes(n, {"open"}, "sleeping")
  \/ StreamGoes(n, {"opening"}, "done")

\* The connection or the callback fails.
StreamBreaks(n) == StreamGoes(n, {"opening", "open"}, "sleeping")

StreamWakes(n) == StreamGoes(n, {"sleeping"}, "ready")

\* CancelledError ends the loop, also out of the sleep.
StreamCancelled(n) ==
  /\ n \in DOMAIN streams /\ Active(n) /\ streams[n].cancel
  /\ streams' = [streams EXCEPT ![n].state = "done"]
  /\ UNCHANGED <<adapter, linkVars, call, wsTask, orderVars, ghosts>>

-----------------------------------------------------------------------------
(* Orders as the brokers know them (external): what was booked, the native *)
(* status, and how much of it has been traded.                             *)

Dead == {"canceled", "expired", "rejected", "replaced", "CANCELLED", "EXPIRED", "Cancelled"}
Finished(x) == x.fills = "all" \/ x.native \in Dead
DeadUntraded(x) == x.fills = "none" /\ x.native \in Dead

\* Native status and fills an order may go to; none goes back from "some" to "none".
Moves(x) ==
  CASE adapter = "alpaca" ->
         {<<"accepted", x.fills>>, <<"pending_replace", x.fills>>, <<"partially_filled", "some">>,
          <<"filled", "all">>, <<"done_for_day", x.fills>>, <<"canceled", x.fills>>,
          <<"expired", x.fills>>, <<"replaced", x.fills>>}
    [] adapter = "oanda" ->
         {<<"TRIGGERED", x.fills>>, <<"FILLED", "all">>, <<"CANCELLED", x.fills>>,
          <<"EXPIRED", x.fills>>}
    [] adapter = "ib" ->
         {<<"Submitted", x.fills>>, <<"Submitted", "some">>, <<"Filled", "all">>,
          <<"Inactive", x.fills>>, <<"Cancelled", x.fills>>}

BrokerMoves ==
  \E i \in DOMAIN book : \E m \in Moves(book[i]) :
    /\ ~Finished(book[i])
    /\ book' = [book EXCEPT ![i].native = m[1], ![i].fills = m[2]]
    /\ UNCHANGED <<adapter, linkVars, call, streamVars, told, untrue, altered, ghosts>>

First == [alpaca |-> {"new", "accepted", "filled"}, oanda |-> {"PENDING", "FILLED", "CANCELLED"},
          ib |-> {"PendingSubmit", "Filled"}]
Asked == [alpaca |-> "pending_cancel", oanda |-> "CANCELLED", ib |-> "PendingCancel"]

\* The broker books what it was sent.
Booked(b, sent, order, native) ==
  Append(b, [order |-> order, sent |-> sent, native |-> native,
             fills |-> IF native \in {"filled", "FILLED", "Filled"} THEN "all" ELSE "none"])

-----------------------------------------------------------------------------
(* What is sent for an order                                               *)

\* A stop-limit order, and one that lacks its price, is sent as a market order.
Kind(o) == IF o.type \in {"limit", "stop"} /\ o.priced THEN o.type ELSE "market"

\* time_in_force is not looked at.
AlpacaPayload(o) == [type |-> Kind(o), side |-> o.side, quantity |-> o.quantity, tif |-> "GTC"]

\* Whole units only, and market orders are fill or kill
OandaPayload(o) ==
  [type |-> Kind(o), side |-> o.side, quantity |-> 2 * (o.quantity \div 2),
   tif |-> IF Kind(o) = "market" THEN "FOK" ELSE "GTC"]

IbPayload(o) == [type |-> Kind(o), side |-> o.side, quantity |-> o.quantity, tif |-> "GTC"]

Payload(o) ==
  CASE adapter = "alpaca" -> AlpacaPayload(o)
    [] adapter = "oanda" -> OandaPayload(o)
    [] adapter = "ib" -> IbPayload(o)

-----------------------------------------------------------------------------
(* Native statuses in the words of OrderStatus                             *)

\* Mutant: a partial fill is a fill.
AlpacaStatus_Partial(native) ==
  CASE native \in {"new", "pending_cancel", "pending_replace", "suspended"} -> "PENDING"
    [] native \in {"partially_filled", "filled", "done_for_day"} -> "FILLED"
    [] native \in {"canceled", "replaced"} -> "CANCELLED"
    [] native = "expired" -> "EXPIRED"
    [] native = "rejected" -> "REJECTED"
    [] OTHER -> "SUBMITTED"

AlpacaStatus(native) ==
  CASE native \in {"new", "pending_cancel", "pending_replace", "suspended"} -> "PENDING"
    [] native = "partially_filled" -> "PARTIAL_FILL"
    [] native \in {"filled", "done_for_day"} -> "FILLED"
    [] native \in {"canceled", "replaced"} -> "CANCELLED"
    [] native = "expired" -> "EXPIRED"
    [] native = "rejected" -> "REJECTED"
    [] OTHER -> "SUBMITTED"

OandaStatus(native) ==
  CASE native \in {"PENDING", "LIMIT", "STOP"} -> "PENDING"
    [] native \in {"FILLED", "TRIGGERED"} -> "FILLED"
    [] native \in {"CANCELLED", "REJECTED", "EXPIRED"} -> native
    [] OTHER -> "SUBMITTED"

IbStatus(native) ==
  CASE native \in {"PendingSubmit", "PreSubmitted", "ApiPending"} -> "PENDING"
    [] native \in {"ApiCancelled", "Cancelled", "PendingCancel"} -> "CANCELLED"
    [] native = "Filled" -> "FILLED"
    [] native = "Inactive" -> "REJECTED"
    [] OTHER -> "SUBMITTED"

-----------------------------------------------------------------------------
(* What the methods return for an answer: a native status, "ok", "missing" *)
(* (404) or "error" (any other failure, a closed client, a lost answer)    *)

Failures == {"error", "missing"}

AlpacaPlaced(a) == IF a \in Failures THEN "REJECTED" ELSE AlpacaStatus(a)
OandaPlaced(a) == IF a \in Failures THEN "REJECTED" ELSE "SUBMITTED"

AlpacaCancelled(a) == a \notin Failures
OandaCancelled(a) == a \notin Failures

AlpacaFound(a) == IF a \in Failures THEN "None" ELSE AlpacaStatus(a)
OandaFound(a) == IF a \in Failures THEN "None" ELSE OandaStatus(a)

\* get_positions and get_open_orders: the list, or an empty one
AlpacaListed(a) == IF a \in Failures THEN "empty" ELSE "listed"
OandaListed(a) == IF a \in Failures THEN "empty" ELSE "listed"

\* get_account_info raises; get_quote and get_candles answer None or [].
AlpacaData(a) == IF a \in Failures THEN "unavailable" ELSE "data"
OandaData(a) == IF a \in Failures THEN "unavailable" ELSE "data"
OandaCandles(a) == IF a \in Failures THEN "unavailable" ELSE "data"

Report(op, a) ==
  LET alpaca == adapter = "alpaca" IN
  CASE op = "place" -> IF alpaca THEN AlpacaPlaced(a) ELSE OandaPlaced(a)
    [] op = "cancel" ->
         IF (IF alpaca THEN AlpacaCancelled(a) ELSE OandaCancelled(a)) THEN "CANCELLED" ELSE "refused"
    [] op = "status" -> IF alpaca THEN AlpacaFound(a) ELSE OandaFound(a)
    [] op = "list" -> IF alpaca THEN AlpacaListed(a) ELSE OandaListed(a)
    [] op = "data" -> IF alpaca THEN AlpacaData(a) ELSE OandaData(a)
    [] op = "candles" -> OandaCandles(a)

-----------------------------------------------------------------------------
(* Whether a report is so.  Reports that are not final may be out of date; *)
(* a final one holds for good.                                             *)

IsSo(report, i) ==
  CASE report = "FILLED" -> book[i].fills = "all"
    [] report \in {"CANCELLED", "EXPIRED"} -> Finished(book[i])
    [] report = "REJECTED" -> i = 0 \/ DeadUntraded(book[i])
    [] report = "None" -> i = 0
    [] report = "empty" -> book = <<>>
    [] OTHER -> TRUE

\* The fields in which an order was booked other than it was given
Altered(o, sent) == {<<o, f>> : f \in {g \in {"type", "side", "quantity", "tif"} : o[g] # sent[g]}}

Tells(answer, report, i) ==
  untrue' = untrue \cup
    (IF IsSo(report, i) THEN {} ELSE {[id |-> i, answer |-> answer, report |-> report]})

-----------------------------------------------------------------------------
(* Requests over HTTP                                                      *)

Request(t, op, i) ==
  Await(t, [op |-> op, client |-> client, id |-> i, answer |-> "none"])

PlaceCall(t) ==
  /\ call[t] = Idle /\ Rest /\ Ensured
  /\ Len(book) + Cardinality({u \in Tasks : call[u].op = "place"}) < MaxOrders
  /\ \E o \in Orders :
       Await(t, [op |-> "place", client |-> client, id |-> 0, answer |-> "none", order |-> o])
  /\ UNCHANGED <<adapter, linkVars, streamVars, orderVars, ghosts>>

\* cancel_order and get_order_status, of ids that callers were given
OrderCall(t) ==
  /\ call[t] = Idle /\ Rest /\ Ensured
  /\ \E i \in told, op \in {"cancel", "status"} : Request(t, op, i)
  /\ UNCHANGED <<adapter, linkVars, streamVars, orderVars, ghosts>>

QueryCall(t) ==
  /\ call[t] = Idle /\ Rest /\ Ensured /\ MaxOrders > 0
  /\ \E op \in {"list", "data"} \cup (IF adapter = "oanda" THEN {"candles"} ELSE {}) :
       Request(t, op, 0)
  /\ UNCHANGED <<adapter, linkVars, streamVars, orderVars, ghosts>>

Waits(t) == call[t].op \in {"place", "cancel", "status", "list", "data", "candles"}

\* The broker refuses, or the request never gets to it.
Refused(t) ==
  /\ Waits(t) /\ call[t].answer = "none"
  /\ Await(t, [call[t] EXCEPT !.answer = "error"])
  /\ UNCHANGED <<adapter, linkVars, streamVars, orderVars, ghosts>>

\* An order is booked; its answer may get lost.
Answered(t) ==
  /\ Waits(t) /\ call[t].answer = "none" /\ call[t].client \notin closed
  /\ \/ /\ call[t].op = "place"
        /\ \E native \in First[adapter], arrives \in BOOLEAN :
             /\ book' = Booked(book, Payload(call[t].order), call[t].order, native)
             /\ Await(t, [call[t] EXCEPT !.id = Len(book'),
                                         !.answer = IF arrives THEN native ELSE "error"])
     \/ /\ call[t].op = "cancel" /\ ~Finished(book[call[t].id])
        /\ book' = [book EXCEPT ![call[t].id].native = Asked[adapter]]
        /\ Await(t, [call[t] EXCEPT !.answer = Asked[adapter]])
     \/ /\ call[t].op = "cancel" /\ Finished(book[call[t].id])
        /\ Await(t, [call[t] EXCEPT !.answer = "missing"])
        /\ UNCHANGED book
     \/ /\ call[t].op = "status"
        /\ Await(t, [call[t] EXCEPT !.answer = book[call[t].id].native])
        /\ UNCHANGED book
     \/ /\ call[t].op \in {"list", "data", "candles"}
        /\ Await(t, [call[t] EXCEPT !.answer = "ok"])
        /\ UNCHANGED book
  /\ UNCHANGED <<adapter, linkVars, streamVars, told, untrue, altered, ghosts>>

\* Mutant: an order that is filled at once gives no id.
Return_OpenOnly(t) ==
  /\ Waits(t) /\ call[t].answer # "none"
  /\ LET c == call[t]
         report == Report(c.op, c.answer)
         placed == c.op = "place" /\ c.answer \notin Failures \cup {"filled"}
     IN /\ told' = told \cup (IF placed THEN {c.id} ELSE {})
        /\ Tells(c.answer, report, c.id)
        /\ altered' = altered \cup (IF placed THEN Altered(c.order, book[c.id].sent) ELSE {})
  /\ Await(t, Idle)
  /\ UNCHANGED <<adapter, linkVars, streamVars, book, ghosts>>

Return(t) ==
  /\ Waits(t) /\ call[t].answer # "none"
  /\ LET c == call[t]
         report == Report(c.op, c.answer)
         placed == c.op = "place" /\ c.answer \notin Failures
     IN /\ told' = told \cup (IF placed THEN {c.id} ELSE {})
        /\ Tells(c.answer, report, c.id)
        /\ altered' = altered \cup (IF placed THEN Altered(c.order, book[c.id].sent) ELSE {})
  /\ Await(t, Idle)
  /\ UNCHANGED <<adapter, linkVars, streamVars, book, ghosts>>

-----------------------------------------------------------------------------
(* Interactive Brokers answers from memory, except for quotes.             *)

IbCall(t) == call[t] = Idle /\ adapter = "ib" /\ Ensured

IbPlace(t) ==
  /\ IbCall(t) /\ Len(book) < MaxOrders /\ client \notin closed
  /\ \E o \in Orders, native \in First.ib :
       /\ book' = Booked(book, IbPayload(o), o, native)
       /\ altered' = altered \cup Altered(o, IbPayload(o))
  /\ told' = told \cup {Len(book')}
  /\ UNCHANGED <<adapter, linkVars, call, streamVars, untrue, ghosts>>

IbCancel(t) ==
  /\ IbCall(t) /\ client \notin closed
  /\ \E i \in told :
       /\ ~Finished(book[i])
       /\ book' = [book EXCEPT ![i].native = Asked.ib]
       /\ untrue' = untrue \cup {[id |-> i, answer |-> Asked.ib, report |-> "CANCELLED"]}
  /\ UNCHANGED <<adapter, linkVars, call, streamVars, told, altered, ghosts>>

\* The first fill found says FILLED; orders that are over are not among the open ones.
IbFound(i) ==
  IF book[i].fills # "none" THEN "FILLED"
  ELSE IF Finished(book[i]) THEN "None" ELSE IbStatus(book[i].native)

\* get_order_status, and an error of it
IbAsk(t) ==
  /\ IbCall(t)
  /\ \E i \in told :
       \/ client \notin closed /\ Tells(book[i].native, IbFound(i), i)
       \/ Tells("error", "None", i)
  /\ UNCHANGED <<adapter, linkVars, call, streamVars, book, told, altered, ghosts>>

\* get_positions and get_open_orders fail and answer an empty list.
IbListFails(t) ==
  /\ IbCall(t) /\ Tells("error", "empty", 0)
  /\ UNCHANGED <<adapter, linkVars, call, streamVars, book, told, altered, ghosts>>

\* A quote waits half a second for the market's data.
IbQuote(t) ==
  /\ IbCall(t) /\ MaxOrders > 0
  /\ Await(t, [op |-> "sleep"])
  /\ UNCHANGED <<adapter, linkVars, streamVars, orderVars, ghosts>>

IbQuoteReturn(t) ==
  /\ call[t].op = "sleep" /\ Await(t, Idle)
  /\ UNCHANGED <<adapter, linkVars, streamVars, orderVars, ghosts>>

-----------------------------------------------------------------------------
AdapterInit ==
  /\ adapter \in Adapters
  /\ connected = FALSE /\ client = 0 /\ closed = {}
  /\ call = [t \in Tasks |-> Idle]
  /\ streams = <<>> /\ wsTask = 0
  /\ book = <<>> /\ told = {} /\ untrue = {} /\ altered = {}
  /\ raced = FALSE /\ unclean = FALSE

CallStep(t) ==
  \/ ConnectCall(t) \/ ConnectAnswered(t) \/ ConnectReturn(t)
  \/ DisconnectCall(t) \/ StreamStopped(t) \/ DisconnectReturn(t) \/ IbDisconnect(t)
  \/ SubscribeCall(t) \/ SubscribeReturn(t)
  \/ PlaceCall(t) \/ OrderCall(t) \/ QueryCall(t) \/ Refused(t) \/ Answered(t) \/ Return(t)
  \/ IbPlace(t) \/ IbCancel(t) \/ IbAsk(t) \/ IbListFails(t) \/ IbQuote(t) \/ IbQuoteReturn(t)

StreamStep(n) ==
  \/ StreamLoop(n) \/ StreamOpens(n) \/ StreamCloses(n) \/ StreamBreaks(n)
  \/ StreamWakes(n) \/ StreamCancelled(n)

AdapterNext ==
  \/ \E t \in Tasks : CallStep(t)
  \/ \E n \in 1..MaxStreams : StreamStep(n)
  \/ BrokerMoves

AdapterSpec == AdapterInit /\ [][AdapterNext]_adapterVars

\* The loop of a stream runs, its sleep ends and its cancellation arrives; the server
\* is not unreachable for ever.
AdapterFairness ==
  \A n \in 1..MaxStreams :
    /\ WF_adapterVars(StreamLoop(n)) /\ WF_adapterVars(StreamWakes(n))
    /\ WF_adapterVars(StreamCancelled(n)) /\ SF_adapterVars(StreamOpens(n))

FairAdapterSpec == AdapterSpec /\ AdapterFairness

-----------------------------------------------------------------------------
\* What the adapters are known to say that is not so: a partial fill of Interactive
\* Brokers is a fill, and an order of it that is over is not found; done for the day,
\* triggered, inactive and about to be cancelled are taken for final; a placement
\* whose answer is lost is rejected, and a failed query says there is nothing.
KnownUntrue ==
  {<<"done_for_day", "FILLED">>, <<"TRIGGERED", "FILLED">>, <<"Inactive", "REJECTED">>,
   <<"pending_cancel", "CANCELLED">>, <<"PendingCancel", "CANCELLED">>, <<"Cancelled", "None">>,
   <<"error", "REJECTED">>, <<"error", "None">>, <<"error", "empty">>}
  \cup {<<native, "FILLED">> : native \in {"Submitted", "Inactive", "PendingCancel", "Cancelled"}}

\* Orders that are not sent as they are given
Unsupported(o, field) ==
  CASE field = "type" -> o.type = "stop_limit" \/ ~o.priced
    [] field = "quantity" -> adapter = "oanda" /\ o.quantity % 2 = 1
    [] field = "tif" -> TRUE
    [] field = "side" -> FALSE

\* Except for these, a final status that an adapter reports is final at the broker,
\* whatever it does between its answer and the return, and an order for which a
\* caller has an id is booked as it was given.
ReportsAreTrue ==
  /\ \A u \in untrue : <<u.answer, u.report>> \in KnownUntrue
  /\ \A a \in altered : Unsupported(a[1], a[2])

\* Every order that trades or may trade is one a caller has the id of, or is about to
\* get; or its answer was lost, and the caller was told that it was rejected.
NobodyIsUnaware ==
  \A i \in DOMAIN book :
    \/ DeadUntraded(book[i])
    \/ i \in told \/ \E u \in untrue : u.id = i /\ u.report = "REJECTED"
    \/ \E t \in Tasks : call[t].op = "place" /\ call[t].id = i

\* Unless changes of the connection overlap or a close raises, an adapter that is
\* connected, and not about to change that, has an open client; and no trade stream
\* runs but the last one, and that one only while it is connected.
ConnectionIsUsable ==
  raced \/ unclean \/
    /\ connected /\ ~Changing => client \notin closed
    /\ \A n \in DOMAIN streams : Active(n) => n = wsTask /\ connected

Is(n, state) == n \in DOMAIN streams /\ streams[n].state = state
Cancelling(n) == n \in DOMAIN streams /\ streams[n].cancel

\* "Reconnects automatically on failure": a stream that tries to connect gets there
\* in the end, unless it is cancelled or the adapter is disconnected.
StreamReconnects ==
  \A n \in 1..MaxStreams :
    Is(n, "opening") ~> (Is(n, "open") \/ Cancelling(n) \/ ~connected)
=============================================================================
