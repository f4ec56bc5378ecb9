-------------------------------- MODULE OMS --------------------------------
(***************************************************************************)
(* The order management system (src/ist/execution/oms.py) between the      *)
(* coroutines that call it and one broker adapter.                         *)
(*                                                                         *)
(* Everything between two awaits of a coroutine is one step, since the     *)
(* code runs on one asyncio event loop; every await of a broker call is a  *)
(* point where the other coroutines run.  A call therefore has three       *)
(* steps: the coroutine issues it (...Call), the broker handles it and     *)
(* answers (Broker...), and the coroutine resumes with an answer that may  *)
(* be stale by then (...Return).                                           *)
(*                                                                         *)
(* OrderResult is abstracted to its order_id, its status and a stamp that  *)
(* stands for every other field (quantities, prices, times): two results   *)
(* are equal exactly when all three are.                                   *)
(***************************************************************************)
EXTENDS Naturals, FiniteSets, Sequences, Functions

CONSTANTS
  Orders,       \* the internal ids create_order may hand out
  Tasks,        \* the coroutines that call the OMS
  NoOrder,      \* "no order", distinct from every order
  Stamps,       \* what OrderResults may differ in apart from id and status
  CancelIsSync, \* TRUE if a successful cancel answer means "cancelled now"
  LosesAnswers, \* TRUE if the answer to an accepted place call may get lost
  MaxReports,   \* bound: no poll of an order once polls made this many of one change
  MaxCancels    \* bound: cancel calls per order

ASSUME OrdersAssumption == NoOrder \notin Orders
ASSUME StampsAssumption == Stamps # {}
ASSUME SwitchAssumption == CancelIsSync \in BOOLEAN /\ LosesAnswers \in BOOLEAN
ASSUME BoundAssumption == MaxReports \in Nat /\ MaxCancels \in Nat

VARIABLES
  state,         \* ManagedOrder.state; "ABSENT" before create_order
  history,       \* ManagedOrder.events: how many events of each state
  brokerOrderId, \* ManagedOrder.broker_order_id; NoId while it is None
  result,        \* ManagedOrder.result
  completed,     \* ManagedOrder.completed_at is not None
  index,         \* _broker_to_internal, as a function on broker ids
  stats,         \* _stats
  call,          \* what each coroutine waits for
  book           \* the broker's own orders; an order's id is its position

omsVars == <<state, history, brokerOrderId, result, completed, index, stats>>
vars == <<omsVars, call, book>>

OrderState == {"CREATED", "VALIDATED", "SUBMITTED", "ACKNOWLEDGED", "PENDING",
               "PARTIAL_FILL", "FILLED", "CANCEL_REQUESTED", "CANCELLED",
               "REJECTED", "EXPIRED", "ERROR"}

OrderStatus == {"PENDING", "SUBMITTED", "PARTIAL_FILL", "FILLED", "CANCELLED",
                "REJECTED", "EXPIRED"}

LiveStatus == {"PENDING", "SUBMITTED", "PARTIAL_FILL"}

NoId == 0           \* both None and "": the code only tests the id for truth
Result == [id : Nat, status : OrderStatus, stamp : Stamps]
NoResult == [id |-> NoId]

Waiting == [kind |-> "waiting"]
Raised == [kind |-> "raised"]      \* the adapter raised
None == [kind |-> "none"]          \* get_order_status returned None
Yes == [kind |-> "yes"]            \* cancel_order returned True
No == [kind |-> "no"]              \* cancel_order returned False
Answer(r) == [kind |-> "result", result |-> r]
Answers == [kind : {"result"}, result : Result]

Idle == [op |-> "idle"]
Calls ==
  {Idle}
  \cup [op : {"submit"}, order : Orders, reply : {Waiting, Raised} \cup Answers]
  \cup [op : {"cancel"}, order : Orders, reply : {Waiting, Raised, Yes, No}]
  \cup [op : {"poll"}, order : Orders, reply : {Waiting, Raised, None} \cup Answers]

Created == {o \in Orders : state[o] # "ABSENT"}

TypeOK ==
  /\ state \in [Orders -> OrderState \cup {"ABSENT"}]
  /\ history \in [Orders -> [OrderState -> Nat]]
  /\ brokerOrderId \in [Orders -> Nat]
  /\ result \in [Orders -> Result \cup {NoResult}]
  /\ completed \in [Orders -> BOOLEAN]
  /\ DOMAIN index \subseteq Nat /\ \A i \in DOMAIN index : index[i] \in Orders
  /\ stats \in [{"created", "submitted", "filled", "cancelled", "rejected"} -> Nat]
  /\ call \in [Tasks -> Calls]
  /\ book \in Seq([order : Orders, status : OrderStatus])

-----------------------------------------------------------------------------
(* Helpers                                                                 *)

\* add_event for each of the states evs in turn, the last of them being s
AddEvents(o, evs, s) ==
  /\ state' = [state EXCEPT ![o] = s]
  /\ history' = [history EXCEPT ![o] =
                   [e \in OrderState |-> IF e \in evs THEN @[e] + 1 ELSE @[e]]]

Bump(counter) == [stats EXCEPT ![counter] = @ + 1]

Issue(t, op, o) ==
  call' = [call EXCEPT ![t] = [op |-> op, order |-> o, reply |-> Waiting]]

Reaches(t, op) == call[t].op = op /\ call[t].reply = Waiting
Resumes(t, op) == call[t].op = op /\ call[t].reply # Waiting
Give(t, reply) ==
  call' = [call EXCEPT ![t] = [op |-> @.op, order |-> @.order, reply |-> reply]]
Finish(t) == call' = [call EXCEPT ![t] = Idle]

-----------------------------------------------------------------------------
(* The OMS                                                                 *)

\* An order that fails validation raises before it is stored: it stays ABSENT.
create_order(o) ==
  /\ state[o] = "ABSENT"
  /\ AddEvents(o, {"CREATED", "VALIDATED"}, "VALIDATED")
  /\ stats' = Bump("created")
  /\ UNCHANGED <<brokerOrderId, result, completed, index, call, book>>

\* Mutant: the state changes only when the broker has answered.
SubmitCall_MarksLate(t, o) ==
  /\ call[t] = Idle
  /\ state[o] \in {"CREATED", "VALIDATED"}
  /\ Issue(t, "submit", o)
  /\ UNCHANGED <<omsVars, book>>

SubmitCall(t, o) ==
  /\ call[t] = Idle
  /\ state[o] \in {"CREATED", "VALIDATED"}
  /\ AddEvents(o, {"SUBMITTED"}, "SUBMITTED")
  /\ Issue(t, "submit", o)
  /\ UNCHANGED <<brokerOrderId, result, completed, index, stats, book>>

\* Mutant: a partial fill is taken for a fill.
Settled_PartialIsFill(status) ==
  IF status \in {"FILLED", "REJECTED", "PENDING"} THEN status
  ELSE IF status = "PARTIAL_FILL" THEN "FILLED" ELSE "ACKNOWLEDGED"

\* The state an order is left in by the answer to place_order.
Settled(status) ==
  IF status \in {"FILLED", "REJECTED", "PENDING"} THEN status ELSE "ACKNOWLEDGED"

\* Mutant: the index is replaced instead of updated.
Indexed_Replaced(o, id) == [i \in {id} |-> o]

Indexed(o, id) == [i \in DOMAIN index \cup {id} |-> IF i = id THEN o ELSE index[i]]

SubmitReturn(t) ==
  LET o == call[t].order
      r == call[t].reply.result
  IN
  /\ Resumes(t, "submit")
  /\ call[t].reply # Raised
  /\ result' = [result EXCEPT ![o] = r]
  /\ brokerOrderId' = [brokerOrderId EXCEPT ![o] = r.id]
  /\ index' = Indexed(o, r.id)
  /\ AddEvents(o, {"ACKNOWLEDGED", Settled(r.status)}, Settled(r.status))
  /\ completed' = [completed EXCEPT ![o] = @ \/ r.status \in {"FILLED", "REJECTED"}]
  /\ stats' = [stats EXCEPT
                 !["submitted"] = @ + 1,
                 !["filled"] = IF r.status = "FILLED" THEN @ + 1 ELSE @,
                 !["rejected"] = IF r.status = "REJECTED" THEN @ + 1 ELSE @]
  /\ Finish(t)
  /\ UNCHANGED book

SubmitRaise(t) ==
  /\ Resumes(t, "submit")
  /\ call[t].reply = Raised
  /\ AddEvents(call[t].order, {"ERROR"}, "ERROR")
  /\ Finish(t)
  /\ UNCHANGED <<brokerOrderId, result, completed, index, stats, book>>

CancelCall(t, o) ==
  /\ call[t] = Idle
  /\ o \in Created
  /\ state[o] \notin {"FILLED", "CANCELLED", "REJECTED"}
  /\ history[o]["CANCEL_REQUESTED"] < MaxCancels
  /\ AddEvents(o, {"CANCEL_REQUESTED"}, "CANCEL_REQUESTED")
  /\ IF brokerOrderId[o] # NoId THEN Issue(t, "cancel", o) ELSE UNCHANGED call
  /\ UNCHANGED <<brokerOrderId, result, completed, index, stats, book>>

ApplyCancel(o) ==
  /\ AddEvents(o, {"CANCELLED"}, "CANCELLED")
  /\ completed' = [completed EXCEPT ![o] = TRUE]
  /\ stats' = Bump("cancelled")

\* Mutant: the broker's answer is not looked at.
CancelReturn_IgnoresAnswer(t) ==
  /\ Resumes(t, "cancel")
  /\ ApplyCancel(call[t].order)
  /\ Finish(t)
  /\ UNCHANGED <<brokerOrderId, result, index, book>>

\* Mutant: a cancelled order forgets its broker id.
CancelReturn_DropsId(t) ==
  LET o == call[t].order IN
  /\ Resumes(t, "cancel")
  /\ IF call[t].reply = Yes
       THEN ApplyCancel(o) /\ brokerOrderId' = [brokerOrderId EXCEPT ![o] = NoId]
       ELSE UNCHANGED <<state, history, completed, stats, brokerOrderId>>
  /\ Finish(t)
  /\ UNCHANGED <<result, index, book>>

\* An exception out of the adapter leaves the order as the call left it.
CancelReturn(t) ==
  /\ Resumes(t, "cancel")
  /\ IF call[t].reply = Yes
       THEN ApplyCancel(call[t].order)
       ELSE UNCHANGED <<state, history, completed, stats>>
  /\ Finish(t)
  /\ UNCHANGED <<brokerOrderId, result, index, book>>

ReportedStatus == {"FILLED", "PARTIAL_FILL", "CANCELLED", "EXPIRED"}

\* Mutant: orders being cancelled are not polled.
PollCall_NotWhileCancelling(t, o) ==
  /\ call[t] = Idle
  /\ o \in Created
  /\ brokerOrderId[o] # NoId
  /\ state[o] # "CANCEL_REQUESTED"
  /\ \A s \in ReportedStatus : history[o][s] < MaxReports
  /\ Issue(t, "poll", o)
  /\ UNCHANGED <<omsVars, book>>

PollCall(t, o) ==
  /\ call[t] = Idle
  /\ o \in Created
  /\ brokerOrderId[o] # NoId
  /\ \A s \in ReportedStatus : history[o][s] < MaxReports
  /\ Issue(t, "poll", o)
  /\ UNCHANGED <<omsVars, book>>

Record(o, r) ==
  /\ result' = [result EXCEPT ![o] = r]
  /\ IF r.status \in ReportedStatus
       THEN AddEvents(o, {r.status}, r.status)
       ELSE UNCHANGED <<state, history>>

\* Mutant: a partial fill is processed as a fill.
ApplyResult_PartialIsFill(o, r) ==
  LET fill == r.status \in {"FILLED", "PARTIAL_FILL"} IN
  /\ Record(o, IF fill THEN [r EXCEPT !.status = "FILLED"] ELSE r)
  /\ completed' = [completed EXCEPT ![o] = @ \/ fill \/ r.status = "EXPIRED"]
  /\ stats' = IF fill THEN Bump("filled") ELSE stats

\* Mutant: a fill learnt by polling is not counted.
ApplyResult_FillNotCounted(o, r) ==
  /\ Record(o, r)
  /\ completed' = [completed EXCEPT ![o] = @ \/ r.status \in {"FILLED", "EXPIRED"}]
  /\ UNCHANGED stats

\* The state changes update_order_status makes for a result that is news.
ApplyResult(o, r) ==
  /\ Record(o, r)
  /\ completed' = [completed EXCEPT ![o] = @ \/ r.status \in {"FILLED", "EXPIRED"}]
  /\ stats' = IF r.status = "FILLED" THEN Bump("filled") ELSE stats

PollReturn(t) ==
  LET o == call[t].order
      reply == call[t].reply
  IN
  /\ Resumes(t, "poll")
  /\ IF reply.kind = "result" /\ result[o] # reply.result
       THEN ApplyResult(o, reply.result)
       ELSE UNCHANGED <<state, history, result, completed, stats>>
  /\ Finish(t)
  /\ UNCHANGED <<brokerOrderId, index, book>>

-----------------------------------------------------------------------------
(* The broker behind a BrokerAdapter.  The adapters raise only before they *)
(* talk to the broker (_ensure_connected); a refusal and a failed request  *)
(* both come back as REJECTED with an empty order id.                      *)

MoveTo(i, s) == book' = [book EXCEPT ![i] = [order |-> @.order, status |-> s]]

PlaceStatus == LiveStatus \cup {"FILLED", "REJECTED"}

BrokerAccepts(t) ==
  /\ Reaches(t, "submit")
  /\ \E s \in PlaceStatus, x \in Stamps :
       /\ book' = Append(book, [order |-> call[t].order, status |-> s])
       /\ Give(t, Answer([id |-> Len(book) + 1, status |-> s, stamp |-> x]))
  /\ UNCHANGED omsVars

Refusal(x) == Answer([id |-> NoId, status |-> "REJECTED", stamp |-> x])

BrokerRefuses(t) ==
  /\ Reaches(t, "submit")
  /\ \E x \in Stamps : Give(t, Refusal(x))
  /\ UNCHANGED <<omsVars, book>>

\* The request arrived but its answer did not: the adapter reports a refusal.
BrokerAcceptsAnswerLost(t) ==
  /\ LosesAnswers
  /\ Reaches(t, "submit")
  /\ book' = Append(book, [order |-> call[t].order, status |-> "PENDING"])
  /\ \E x \in Stamps : Give(t, Refusal(x))
  /\ UNCHANGED omsVars

AdapterRaises(t) ==
  /\ call[t] # Idle
  /\ call[t].reply = Waiting
  /\ Give(t, Raised)
  /\ UNCHANGED <<omsVars, book>>

BrokerCancels(t) ==
  LET i == brokerOrderId[call[t].order] IN
  /\ Reaches(t, "cancel")
  /\ book[i].status \in LiveStatus
  /\ \/ /\ MoveTo(i, "CANCELLED")
        /\ \E answer \in {Yes, No} : Give(t, answer)
     \/ /\ ~CancelIsSync
        /\ Give(t, Yes)
        /\ UNCHANGED book
  /\ UNCHANGED omsVars

BrokerKeepsOrder(t) ==
  /\ Reaches(t, "cancel")
  /\ Give(t, No)
  /\ UNCHANGED <<omsVars, book>>

BrokerReports(t) ==
  LET i == brokerOrderId[call[t].order] IN
  /\ Reaches(t, "poll")
  /\ \E x \in Stamps :
       Give(t, Answer([id |-> i, status |-> book[i].status, stamp |-> x]))
  /\ UNCHANGED <<omsVars, book>>

BrokerReportsNothing(t) ==
  /\ Reaches(t, "poll")
  /\ Give(t, None)
  /\ UNCHANGED <<omsVars, book>>

\* The market and the venue move an order of the book on.
Advance(i) ==
  /\ book[i].status \in LiveStatus
  /\ \E s \in OrderStatus \ {"PENDING"} :
       /\ s # book[i].status
       /\ book[i].status = "PARTIAL_FILL" => s \notin {"SUBMITTED", "REJECTED"}
       /\ MoveTo(i, s)
  /\ UNCHANGED <<omsVars, call>>

-----------------------------------------------------------------------------
Init ==
  /\ state = [o \in Orders |-> "ABSENT"]
  /\ history = [o \in Orders |-> [e \in OrderState |-> 0]]
  /\ brokerOrderId = [o \in Orders |-> NoId]
  /\ result = [o \in Orders |-> NoResult]
  /\ completed = [o \in Orders |-> FALSE]
  /\ index = [i \in {} |-> NoOrder]
  /\ stats = [s \in {"created", "submitted", "filled", "cancelled", "rejected"} |-> 0]
  /\ call = [t \in Tasks |-> Idle]
  /\ book = <<>>

Resume(t) == SubmitReturn(t) \/ SubmitRaise(t) \/ CancelReturn(t) \/ PollReturn(t)

Client(t) ==
  \/ \E o \in Orders : SubmitCall(t, o) \/ CancelCall(t, o) \/ PollCall(t, o)
  \/ Resume(t)

Broker(t) ==
  \/ BrokerAccepts(t)
  \/ BrokerRefuses(t)
  \/ BrokerAcceptsAnswerLost(t)
  \/ AdapterRaises(t)
  \/ BrokerCancels(t)
  \/ BrokerKeepsOrder(t)
  \/ BrokerReports(t)
  \/ BrokerReportsNothing(t)

Next ==
  \/ \E o \in Orders : create_order(o)
  \/ \E t \in Tasks : Client(t) \/ Broker(t)
  \/ \E i \in DOMAIN book : Advance(i)

Spec == Init /\ [][Next]_vars

\* A caller's poll of an order, and the broker's answer to it: what a caller that
\* keeps polling does again and again.
Polled(o) == \E t \in Tasks : PollCall(t, o)
Reported(o) == \E t \in Tasks : BrokerReports(t) /\ call[t].order = o

-----------------------------------------------------------------------------
(* The abstract promise: OrderTracking, with the broker's orders as the    *)
(* orders sent and the recorded fills as the fills reported.               *)

Filled == {book[i].order : i \in {j \in DOMAIN book : book[j].status = "FILLED"}}

Tracking == INSTANCE OrderTracking WITH
  sent <- [i \in DOMAIN book |-> book[i].order],
  filled <- Filled,
  reported <- {o \in Orders : history[o]["FILLED"] > 0}

\* The OMS implements OrderTracking: each order is sent once, is filled once, and
\* a fill is reported only after it happened and never taken back.
ImplementsTracking == Tracking!Spec

-----------------------------------------------------------------------------
(* Properties                                                              *)

\* No order reaches the broker twice, however many coroutines submit it and
\* whatever the broker answered: submit_order leaves the submittable states
\* before it awaits place_order, and nothing ever leads back to them.
PlacedAtMostOnce ==
  \A i, j \in DOMAIN book : book[i].order = book[j].order => i = j

\* A fill the OMS ever recorded for an order happened: the broker holds a filled
\* order placed for it.  Late answers may be out of date but not of another order.
FillsAreReal ==
  \A o \in Orders : history[o]["FILLED"] > 0 =>
    \E i \in DOMAIN book : book[i].order = o /\ book[i].status = "FILLED"

\* The broker id of a managed order leads back to it through
\* _broker_to_internal, and is the id of the order placed for it; refused orders
\* all share the empty id and never displace another order.
IndexFindsOrder ==
  \A o \in Orders : brokerOrderId[o] # NoId =>
    /\ brokerOrderId[o] \in DOMAIN index \cap DOMAIN book
    /\ index[brokerOrderId[o]] = o
    /\ book[brokerOrderId[o]].order = o

\* No broker order is out of the OMS's reach: it is known by its id, or the
\* coroutine that placed it has yet to resume.  Only an order whose answer was lost
\* is out of reach, and its caller has been told REJECTED.
NoOrphanedOrder ==
  \A i \in DOMAIN book :
    \/ brokerOrderId[book[i].order] = i
    \/ \E t \in Tasks : call[t].op = "submit" /\ call[t].order = book[i].order
    \/ LosesAnswers /\ history[book[i].order]["REJECTED"] > 0

Recorded(s) == SumFunction([o \in Orders |-> history[o][s]])

\* The statistics agree with the orders' histories at every await.  Cancellations
\* learnt by polling are in the histories and not in total_cancelled.
StatsMatchHistory ==
  /\ stats["created"] = Recorded("CREATED")
  /\ stats["submitted"] = Recorded("ACKNOWLEDGED")
  /\ stats["filled"] = Recorded("FILLED")
  /\ stats["rejected"] = Recorded("REJECTED")
  /\ stats["cancelled"] <= Recorded("CANCELLED")

\* Where a successful cancel answer means that the order is cancelled, an order
\* the OMS ever recorded as cancelled can no longer trade.
CancelIsFinal ==
  CancelIsSync =>
    \A o \in Orders : history[o]["CANCELLED"] > 0 =>
      \A i \in DOMAIN book : book[i].order = o => book[i].status \notin LiveStatus

\* Every fill is learnt for good: late answers may set an order back to an older
\* state, but not for ever.  It takes a caller that keeps polling.
FillIsLearnt ==
  <>[](\A o \in Orders :
         (brokerOrderId[o] # NoId /\ book[brokerOrderId[o]].status = "FILLED")
           => state[o] = "FILLED")

\* get_open_orders: the orders the engine cancels when it stops.
get_open_orders == {o \in Orders : state[o] \in {"SUBMITTED", "PARTIAL_FILL"}}
=============================================================================
