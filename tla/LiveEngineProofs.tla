-------------------------- MODULE LiveEngineProofs --------------------------
(***************************************************************************)
(* What TLAPS proves of OMS and of LiveEngine, for every number of orders  *)
(* and coroutines.                                                         *)
(*                                                                         *)
(* The inductive invariant of OMS adds to the checked invariants what the  *)
(* coroutines in flight may still bring: an order in a submit call that    *)
(* the broker has not handled is not in the book, an order is in at most   *)
(* one submit call, and an answer carries the id of the order it is about. *)
(* The engine's steps are steps of OMS or leave it alone, so that these    *)
(* theorems hold of the orders of an engine; its own invariants follow     *)
(* from an inductive one that says who is about to submit a validated      *)
(* order.                                                                  *)
(***************************************************************************)
EXTENDS LiveEngine, FiniteSums, SequenceTheorems

-----------------------------------------------------------------------------
(* The OMS                                                                 *)

Submittable == {"ABSENT", "CREATED", "VALIDATED"}

Submitting(t) == call[t].op = "submit"

\* Who may still place an order: nobody once it left the submittable states.
SubmitInv ==
  /\ \A i \in DOMAIN book : state[book[i].order] \notin Submittable
  /\ \A t \in Tasks : Submitting(t) => state[call[t].order] \notin Submittable
  /\ \A t, u \in Tasks :
       Submitting(t) /\ Submitting(u) /\ call[t].order = call[u].order => t = u
  /\ \A t \in Tasks : Reaches(t, "submit") =>
       \A i \in DOMAIN book : book[i].order # call[t].order

\* An answer on its way names an order of the book placed for the order it is
\* about, and reports a fill only if there was one.
Truthful(o, r) ==
  /\ r.id = NoId => r.status = "REJECTED"
  /\ r.id # NoId => /\ r.id \in DOMAIN book
                    /\ book[r.id].order = o
                    /\ r.status = "FILLED" => book[r.id].status = "FILLED"

AnswerInv ==
  \A t \in Tasks :
    call[t] # Idle /\ call[t].reply.kind = "result"
      => /\ call[t].op \in {"submit", "poll"}
         /\ Truthful(call[t].order, call[t].reply.result)

\* An order has no broker id until its submit call returns; cancel and poll calls
\* are only made for orders that have one.
CallInv ==
  /\ \A o \in Orders : state[o] \in Submittable => brokerOrderId[o] = NoId
  /\ \A t \in Tasks : Submitting(t) => brokerOrderId[call[t].order] = NoId
  /\ \A t \in Tasks : call[t].op \in {"cancel", "poll"} => brokerOrderId[call[t].order] # NoId

IInv ==
  /\ TypeOK
  /\ PlacedAtMostOnce
  /\ SubmitInv
  /\ AnswerInv
  /\ CallInv
  /\ IndexFindsOrder
  /\ FillsAreReal

-----------------------------------------------------------------------------
USE OrdersAssumption, StampsAssumption, SwitchAssumption, BoundAssumption

\* The shape of a call: what TypeOK says of the record of a coroutine.
LEMMA CallShape ==
  ASSUME TypeOK, NEW t \in Tasks
  PROVE  /\ call[t] \in Calls
         /\ call[t] # Idle => /\ call[t].order \in Orders
                              /\ call[t].op \in {"submit", "cancel", "poll"}
         /\ call[t].op # "idle" <=> call[t] # Idle
         /\ call[t] = Idle => call[t].op = "idle"
         /\ call[t].op = "submit" => call[t].reply \in {Waiting, Raised} \cup Answers
         /\ call[t].op = "cancel" => call[t].reply \in {Waiting, Raised, Yes, No}
         /\ call[t].op = "poll" => call[t].reply \in {Waiting, Raised, None} \cup Answers
  BY DEF TypeOK, Calls, Idle

LEMMA InitInv == Init => IInv
  <1> SUFFICES ASSUME Init PROVE IInv
    OBVIOUS
  <1>1. TypeOK
    BY DEF Init, TypeOK, NoId, Calls
  <1>2. QED
    BY <1>1 DEF Init, IInv, PlacedAtMostOnce, SubmitInv, AnswerInv, CallInv, IndexFindsOrder,
         FillsAreReal, OrderState, Submitting, Reaches, Idle

-----------------------------------------------------------------------------
(* Type correctness                                                        *)

\* add_event keeps states and histories well-typed.
LEMMA AddEventsType ==
  ASSUME TypeOK, NEW o \in Orders, NEW evs, NEW s \in OrderState, AddEvents(o, evs, s)
  PROVE  /\ state' \in [Orders -> OrderState \cup {"ABSENT"}]
         /\ history' \in [Orders -> [OrderState -> Nat]]
  BY DEF TypeOK, AddEvents

\* A counter may be bumped.
LEMMA BumpType ==
  ASSUME TypeOK, NEW c \in {"created", "submitted", "filled", "cancelled", "rejected"}
  PROVE  Bump(c) \in [{"created", "submitted", "filled", "cancelled", "rejected"} -> Nat]
  BY DEF TypeOK, Bump

\* An answer of the right kind keeps the calls well-typed.
LEMMA GiveType ==
  ASSUME TypeOK, NEW t \in Tasks, call[t] # Idle, NEW reply, Give(t, reply),
         \/ reply = Raised
         \/ call[t].op = "submit" /\ reply \in Answers
         \/ call[t].op = "cancel" /\ reply \in {Yes, No}
         \/ call[t].op = "poll" /\ reply \in {None} \cup Answers
  PROVE  call' \in [Tasks -> Calls]
  <1>1. call[t].order \in Orders /\ call[t].op \in {"submit", "cancel", "poll"}
    BY CallShape
  <1>2. [op |-> call[t].op, order |-> call[t].order, reply |-> reply] \in Calls
    BY <1>1 DEF Calls
  <1>3. QED
    BY <1>2 DEF Give, TypeOK

\* The book is an array of well-typed orders.
LEMMA BookShape ==
  ASSUME TypeOK
  PROVE  /\ Len(book) \in Nat
         /\ DOMAIN book = 1 .. Len(book)
         /\ \A j \in DOMAIN book : /\ j \in Nat \ {0}
                                   /\ book[j] \in [order : Orders, status : OrderStatus]
                                   /\ book[j].order \in Orders
                                   /\ book[j].status \in OrderStatus
  <1>1. book \in Seq([order : Orders, status : OrderStatus])
    BY DEF TypeOK
  <1>2. /\ Len(book) \in Nat
        /\ DOMAIN book = 1 .. Len(book)
        /\ \A j \in 1 .. Len(book) : book[j] \in [order : Orders, status : OrderStatus]
    BY <1>1, LenProperties, ElementOfSeq
  <1>3. QED
    BY <1>2

\* A status change keeps the book a sequence of orders.
LEMMA MoveToType ==
  ASSUME TypeOK, NEW i \in DOMAIN book, NEW s \in OrderStatus, MoveTo(i, s)
  PROVE  /\ book' \in Seq([order : Orders, status : OrderStatus])
         /\ DOMAIN book' = DOMAIN book
         /\ \A j \in DOMAIN book :
              /\ book'[j].order = book[j].order
              /\ j # i => book'[j] = book[j]
              /\ j = i => book'[j].status = s
  <1> DEFINE e == [order |-> book[i].order, status |-> s]
             B == [order : Orders, status : OrderStatus]
  <1>1. book \in Seq(B) /\ i \in 1 .. Len(book) /\ e \in B /\ book' = [book EXCEPT ![i] = e]
    BY BookShape DEF TypeOK, MoveTo
  <1>2. /\ book' \in Seq(B)
        /\ Len(book') = Len(book)
        /\ \A j \in 1 .. Len(book) : book'[j] = IF j = i THEN e ELSE book[j]
    <2> HIDE DEF e, B
    <2> QED
      BY <1>1, ExceptSeq
  <1>3. DOMAIN book' = DOMAIN book
    BY <1>1
  <1>4. QED
    BY <1>2, <1>3, BookShape

\* A newly placed order is appended to the book.
LEMMA AppendShape ==
  ASSUME TypeOK, NEW o \in Orders, NEW s \in OrderStatus,
         book' = Append(book, [order |-> o, status |-> s])
  PROVE  /\ book' \in Seq([order : Orders, status : OrderStatus])
         /\ DOMAIN book' = DOMAIN book \cup {Len(book) + 1}
         /\ \A j \in DOMAIN book : book'[j] = book[j] /\ j # Len(book) + 1
         /\ book'[Len(book) + 1] = [order |-> o, status |-> s]
  <1> DEFINE e == [order |-> o, status |-> s]
             B == [order : Orders, status : OrderStatus]
  <1>1. book \in Seq(B) /\ e \in B
    BY DEF TypeOK
  <1>2. book' = Append(book, e)
    OBVIOUS
  <1>3. /\ book' \in Seq(B)
        /\ Len(book') = Len(book) + 1
        /\ \A j \in 1 .. Len(book) : book'[j] = book[j]
        /\ book'[Len(book) + 1] = e
    <2> HIDE DEF e, B
    <2> QED
      BY <1>1, <1>2
  <1>4. DOMAIN book' = 1 .. Len(book) + 1
    BY <1>3, LenProperties
  <1>5. QED
    BY <1>3, <1>4, BookShape

LEMMA TypeStep == IInv /\ [Next]_vars => TypeOK'
  <1> SUFFICES ASSUME IInv, [Next]_vars PROVE TypeOK'
    OBVIOUS
  <1> USE DEF IInv
  <1>1. ASSUME NEW o \in Orders, create_order(o) PROVE TypeOK'
    <2>1. AddEvents(o, {"CREATED", "VALIDATED"}, "VALIDATED") /\ "VALIDATED" \in OrderState
      BY <1>1 DEF create_order, OrderState
    <2>2. QED
      BY <1>1, <2>1, AddEventsType, BumpType DEF create_order, TypeOK
  <1>2. ASSUME NEW t \in Tasks, NEW o \in Orders, SubmitCall(t, o) PROVE TypeOK'
    <2>1. AddEvents(o, {"SUBMITTED"}, "SUBMITTED") /\ "SUBMITTED" \in OrderState
      BY <1>2 DEF SubmitCall, OrderState
    <2>2. call' \in [Tasks -> Calls]
      BY <1>2 DEF SubmitCall, Issue, TypeOK, Calls
    <2>3. QED
      BY <1>2, <2>1, <2>2, AddEventsType DEF SubmitCall, TypeOK
  <1>3. ASSUME NEW t \in Tasks, NEW o \in Orders, CancelCall(t, o) PROVE TypeOK'
    <2>1. AddEvents(o, {"CANCEL_REQUESTED"}, "CANCEL_REQUESTED")
          /\ "CANCEL_REQUESTED" \in OrderState
      BY <1>3 DEF CancelCall, OrderState
    <2>2. call' \in [Tasks -> Calls]
      <3>1. [op |-> "cancel", order |-> o, reply |-> Waiting] \in Calls
        BY DEF Calls
      <3>2. QED
        BY <1>3, <3>1 DEF CancelCall, Issue, TypeOK
    <2>3. QED
      BY <1>3, <2>1, <2>2, AddEventsType DEF CancelCall, TypeOK
  <1>4. ASSUME NEW t \in Tasks, NEW o \in Orders, PollCall(t, o) PROVE TypeOK'
    <2>1. call' \in [Tasks -> Calls]
      BY <1>4 DEF PollCall, Issue, TypeOK, Calls
    <2>2. QED
      BY <1>4, <2>1 DEF PollCall, TypeOK, omsVars
  <1>5. ASSUME NEW t \in Tasks, SubmitReturn(t) PROVE TypeOK'
    <2> DEFINE o == call[t].order
               r == call[t].reply.result
    <2>1. o \in Orders /\ r \in Result
      BY <1>5, CallShape DEF SubmitReturn, Resumes, Answers
    <2>2. AddEvents(o, {"ACKNOWLEDGED", Settled(r.status)}, Settled(r.status))
          /\ Settled(r.status) \in OrderState
      BY <1>5 DEF SubmitReturn, Settled, OrderState
    <2>3. call' \in [Tasks -> Calls]
      BY <1>5 DEF SubmitReturn, Finish, TypeOK, Calls
    <2>4. result' \in [Orders -> Result \cup {NoResult}]
          /\ brokerOrderId' \in [Orders -> Nat]
          /\ completed' \in [Orders -> BOOLEAN]
      BY <1>5, <2>1 DEF SubmitReturn, TypeOK, Result
    <2>5. DOMAIN index' \subseteq Nat /\ \A i \in DOMAIN index' : index'[i] \in Orders
      BY <1>5, <2>1 DEF SubmitReturn, Indexed, TypeOK, Result
    <2>6. stats' \in [{"created", "submitted", "filled", "cancelled", "rejected"} -> Nat]
      <3>1. \A c \in {"created", "submitted", "filled", "cancelled", "rejected"} :
              stats[c] \in Nat /\ stats[c] + 1 \in Nat
        BY DEF TypeOK
      <3>2. QED
        BY <1>5, <3>1 DEF SubmitReturn, TypeOK
    <2>7. state' \in [Orders -> OrderState \cup {"ABSENT"}]
          /\ history' \in [Orders -> [OrderState -> Nat]]
      BY <2>1, <2>2, AddEventsType
    <2>8. QED
      BY <1>5, <2>3, <2>4, <2>5, <2>6, <2>7 DEF SubmitReturn, TypeOK
  <1>6. ASSUME NEW t \in Tasks, SubmitRaise(t) PROVE TypeOK'
    <2>1. AddEvents(call[t].order, {"ERROR"}, "ERROR") /\ "ERROR" \in OrderState
          /\ call[t].order \in Orders
      BY <1>6, CallShape DEF SubmitRaise, Resumes, OrderState
    <2>2. call' \in [Tasks -> Calls]
      BY <1>6 DEF SubmitRaise, Finish, TypeOK, Calls
    <2>3. QED
      BY <1>6, <2>1, <2>2, AddEventsType DEF SubmitRaise, TypeOK
  <1>7. ASSUME NEW t \in Tasks, CancelReturn(t) PROVE TypeOK'
    <2>1. call[t].order \in Orders /\ "CANCELLED" \in OrderState
      BY <1>7, CallShape DEF CancelReturn, Resumes, OrderState
    <2>2. call' \in [Tasks -> Calls]
      BY <1>7 DEF CancelReturn, Finish, TypeOK, Calls
    <2>3. CASE call[t].reply = Yes
      BY <1>7, <2>1, <2>2, <2>3, AddEventsType, BumpType DEF CancelReturn, ApplyCancel, TypeOK
    <2>4. CASE call[t].reply # Yes
      BY <1>7, <2>2, <2>4 DEF CancelReturn, TypeOK
    <2>5. QED
      BY <2>3, <2>4
  <1>8. ASSUME NEW t \in Tasks, PollReturn(t) PROVE TypeOK'
    <2> DEFINE o == call[t].order
               r == call[t].reply.result
    <2>1. o \in Orders
      BY <1>8, CallShape DEF PollReturn, Resumes
    <2>2. call' \in [Tasks -> Calls]
      BY <1>8 DEF PollReturn, Finish, TypeOK, Calls
    <2>3. CASE call[t].reply.kind = "result" /\ result[o] # r
      <3>1. r \in Result /\ ApplyResult(o, r)
        BY <1>8, <2>3, CallShape DEF PollReturn, Resumes, Answers, Waiting, Raised, None
      <3>2. state' \in [Orders -> OrderState \cup {"ABSENT"}]
            /\ history' \in [Orders -> [OrderState -> Nat]]
        <4>1. CASE r.status \in ReportedStatus
          <5>1. AddEvents(o, {r.status}, r.status)
            BY <3>1, <4>1 DEF ApplyResult, Record
          <5>2. r.status \in OrderState
            BY <4>1 DEF ReportedStatus, OrderState
          <5>3. QED
            BY <2>1, <5>1, <5>2, AddEventsType
        <4>2. CASE r.status \notin ReportedStatus
          BY <3>1, <4>2 DEF ApplyResult, Record, TypeOK
        <4>3. QED
          BY <4>1, <4>2
      <3>3. result' \in [Orders -> Result \cup {NoResult}]
            /\ completed' \in [Orders -> BOOLEAN]
        BY <2>1, <3>1 DEF ApplyResult, Record, TypeOK
      <3>4. stats' \in [{"created", "submitted", "filled", "cancelled", "rejected"} -> Nat]
        BY <3>1, BumpType DEF ApplyResult, Record, TypeOK
      <3>5. QED
        BY <1>8, <2>2, <3>2, <3>3, <3>4 DEF PollReturn, TypeOK
    <2>4. CASE ~(call[t].reply.kind = "result" /\ result[o] # r)
      BY <1>8, <2>2, <2>4 DEF PollReturn, TypeOK
    <2>5. QED
      BY <2>3, <2>4
  <1>9. ASSUME NEW t \in Tasks, Broker(t) PROVE TypeOK'
    <2>1. ASSUME BrokerAccepts(t) PROVE TypeOK'
      <3>1. PICK s \in PlaceStatus, x \in Stamps :
              /\ book' = Append(book, [order |-> call[t].order, status |-> s])
              /\ Give(t, Answer([id |-> Len(book) + 1, status |-> s, stamp |-> x]))
        BY <2>1 DEF BrokerAccepts
      <3>2. /\ call[t].op = "submit" /\ call[t] # Idle
            /\ call[t].order \in Orders
            /\ s \in OrderStatus
        BY <2>1, CallShape DEF BrokerAccepts, Reaches, PlaceStatus, LiveStatus, OrderStatus
      <3>3. call' \in [Tasks -> Calls]
        <4>1. Answer([id |-> Len(book) + 1, status |-> s, stamp |-> x]) \in Answers
          BY <3>2 DEF Answer, Answers, Result, TypeOK
        <4>2. QED
          BY <3>1, <3>2, <4>1, GiveType
      <3>4. book' \in Seq([order : Orders, status : OrderStatus])
        BY <3>1, <3>2, AppendShape
      <3>5. QED
        BY <2>1, <3>3, <3>4 DEF BrokerAccepts, omsVars, TypeOK
    <2>2. ASSUME BrokerRefuses(t) \/ BrokerAcceptsAnswerLost(t) PROVE TypeOK'
      <3>1. PICK x \in Stamps : Give(t, Refusal(x))
        BY <2>2 DEF BrokerRefuses, BrokerAcceptsAnswerLost
      <3>2. call[t].op = "submit" /\ call[t] # Idle /\ call[t].order \in Orders
        BY <2>2, CallShape DEF BrokerRefuses, BrokerAcceptsAnswerLost, Reaches
      <3>3. Refusal(x) \in Answers
        BY DEF Refusal, Answer, Answers, Result, NoId, OrderStatus
      <3>4. call' \in [Tasks -> Calls]
        BY <3>1, <3>2, <3>3, GiveType
      <3>5. book' \in Seq([order : Orders, status : OrderStatus])
        <4>1. CASE BrokerRefuses(t)
          BY <4>1 DEF BrokerRefuses, TypeOK
        <4>2. CASE BrokerAcceptsAnswerLost(t)
          BY <3>2, <4>2, AppendShape DEF BrokerAcceptsAnswerLost, OrderStatus
        <4>3. QED
          BY <2>2, <4>1, <4>2
      <3>6. QED
        BY <2>2, <3>4, <3>5 DEF BrokerRefuses, BrokerAcceptsAnswerLost, omsVars, TypeOK
    <2>3. ASSUME AdapterRaises(t) PROVE TypeOK'
      <3>1. call' \in [Tasks -> Calls]
        BY <2>3, GiveType, CallShape DEF AdapterRaises
      <3>2. QED
        BY <2>3, <3>1 DEF AdapterRaises, omsVars, TypeOK
    <2>4. ASSUME BrokerCancels(t) \/ BrokerKeepsOrder(t) PROVE TypeOK'
      <3>1. PICK answer \in {Yes, No} : Give(t, answer)
        BY <2>4 DEF BrokerCancels, BrokerKeepsOrder
      <3>2. call' \in [Tasks -> Calls]
        BY <2>4, <3>1, GiveType, CallShape DEF BrokerCancels, BrokerKeepsOrder, Reaches
      <3>3. \/ MoveTo(brokerOrderId[call[t].order], "CANCELLED")
            \/ UNCHANGED book
        BY <2>4 DEF BrokerCancels, BrokerKeepsOrder
      <3>4. book' \in Seq([order : Orders, status : OrderStatus])
        <4>1. brokerOrderId[call[t].order] \in DOMAIN book
          BY <2>4, CallShape DEF BrokerCancels, BrokerKeepsOrder, Reaches, CallInv, IndexFindsOrder
        <4>2. QED
          BY <3>3, <4>1, MoveToType DEF TypeOK, OrderStatus
      <3>5. QED
        BY <2>4, <3>2, <3>4 DEF BrokerCancels, BrokerKeepsOrder, omsVars, TypeOK
    <2>5. ASSUME BrokerReports(t) PROVE TypeOK'
      <3> DEFINE i == brokerOrderId[call[t].order]
      <3>1. call[t].op = "poll" /\ call[t] # Idle /\ call[t].order \in Orders
        BY <2>5, CallShape DEF BrokerReports, Reaches
      <3>2. i \in DOMAIN book /\ i \in Nat
        BY <3>1 DEF CallInv, IndexFindsOrder, TypeOK
      <3>3. book[i].status \in OrderStatus
        BY <3>2, BookShape
      <3>4. PICK x \in Stamps :
              Give(t, Answer([id |-> i, status |-> book[i].status, stamp |-> x]))
        BY <2>5 DEF BrokerReports
      <3>5. Answer([id |-> i, status |-> book[i].status, stamp |-> x]) \in Answers
        BY <3>2, <3>3 DEF Answer, Answers, Result
      <3>6. call' \in [Tasks -> Calls]
        BY <3>1, <3>4, <3>5, GiveType
      <3>7. QED
        BY <2>5, <3>6 DEF BrokerReports, omsVars, TypeOK
    <2>6. ASSUME BrokerReportsNothing(t) PROVE TypeOK'
      <3>1. call' \in [Tasks -> Calls]
        BY <2>6, GiveType, CallShape DEF BrokerReportsNothing, Reaches
      <3>2. QED
        BY <2>6, <3>1 DEF BrokerReportsNothing, omsVars, TypeOK
    <2>7. QED
      BY <1>9, <2>1, <2>2, <2>3, <2>4, <2>5, <2>6 DEF Broker
  <1>10. ASSUME NEW i \in DOMAIN book, Advance(i) PROVE TypeOK'
    <2>1. PICK s \in OrderStatus : MoveTo(i, s)
      BY <1>10 DEF Advance
    <2>2. book' \in Seq([order : Orders, status : OrderStatus])
      BY <2>1, BookShape, MoveToType
    <2>3. QED
      BY <1>10, <2>2 DEF Advance, omsVars, TypeOK
  <1>11. CASE UNCHANGED vars
    BY <1>11 DEF vars, omsVars, TypeOK
  <1>12. QED
    BY <1>1, <1>2, <1>3, <1>4, <1>5, <1>6, <1>7, <1>8, <1>9, <1>10, <1>11
    DEF Next, Client, Resume

-----------------------------------------------------------------------------
(* Each order is placed at most once                                       *)

\* No step leads an order back to a state it could be submitted from.
LEMMA NeverSubmittableAgain ==
  ASSUME IInv, [Next]_vars, NEW p \in Orders, state[p] \notin Submittable
  PROVE  state'[p] \notin Submittable
  <1> USE DEF IInv
  <1>1. ASSUME NEW o \in Orders, NEW evs, NEW s, s \notin Submittable, AddEvents(o, evs, s)
        PROVE  state'[p] \notin Submittable
    BY <1>1 DEF AddEvents, TypeOK
  <1>2. ASSUME NEW o \in Orders, create_order(o) PROVE state'[p] \notin Submittable
    BY <1>2 DEF create_order, AddEvents, TypeOK, Submittable
  <1>3. ASSUME NEW t \in Tasks, NEW o \in Orders, SubmitCall(t, o)
        PROVE  state'[p] \notin Submittable
    BY <1>1, <1>3 DEF SubmitCall, Submittable
  <1>4. ASSUME NEW t \in Tasks, NEW o \in Orders, CancelCall(t, o)
        PROVE  state'[p] \notin Submittable
    BY <1>1, <1>4 DEF CancelCall, Submittable
  <1>5. ASSUME NEW t \in Tasks, NEW o \in Orders, PollCall(t, o)
        PROVE  state'[p] \notin Submittable
    BY <1>5 DEF PollCall, omsVars
  <1>6. ASSUME NEW t \in Tasks, SubmitReturn(t) PROVE state'[p] \notin Submittable
    <2>1. call[t].order \in Orders
      BY <1>6, CallShape DEF SubmitReturn, Resumes
    <2>2. Settled(call[t].reply.result.status) \notin Submittable
      BY DEF Settled, Submittable
    <2>3. QED
      BY <1>1, <1>6, <2>1, <2>2 DEF SubmitReturn
  <1>7. ASSUME NEW t \in Tasks, SubmitRaise(t) PROVE state'[p] \notin Submittable
    BY <1>1, <1>7, CallShape DEF SubmitRaise, Resumes, Submittable
  <1>8. ASSUME NEW t \in Tasks, CancelReturn(t) PROVE state'[p] \notin Submittable
    <2>1. call[t].order \in Orders
      BY <1>8, CallShape DEF CancelReturn, Resumes
    <2>2. AddEvents(call[t].order, {"CANCELLED"}, "CANCELLED") \/ state' = state
      BY <1>8 DEF CancelReturn, ApplyCancel
    <2>3. QED
      BY <1>1, <2>1, <2>2 DEF Submittable
  <1>9. ASSUME NEW t \in Tasks, PollReturn(t) PROVE state'[p] \notin Submittable
    <2> DEFINE s == call[t].reply.result.status
    <2>1. call[t].order \in Orders
      BY <1>9, CallShape DEF PollReturn, Resumes
    <2>2. (s \in ReportedStatus /\ AddEvents(call[t].order, {s}, s)) \/ state' = state
      BY <1>9 DEF PollReturn, ApplyResult, Record
    <2>3. QED
      BY <1>1, <2>1, <2>2 DEF Submittable, ReportedStatus
  <1>10. ASSUME NEW t \in Tasks, Broker(t) PROVE state'[p] \notin Submittable
    BY <1>10 DEF Broker, BrokerAccepts, BrokerRefuses, BrokerAcceptsAnswerLost, AdapterRaises,
         BrokerCancels, BrokerKeepsOrder, BrokerReports, BrokerReportsNothing, omsVars
  <1>11. ASSUME NEW i \in DOMAIN book, Advance(i) PROVE state'[p] \notin Submittable
    BY <1>11 DEF Advance, omsVars
  <1>12. CASE UNCHANGED vars
    BY <1>12 DEF vars, omsVars
  <1>13. QED
    BY <1>2, <1>3, <1>4, <1>5, <1>6, <1>7, <1>8, <1>9, <1>10, <1>11, <1>12
    DEF Next, Client, Resume

\* What happens to the calls outside the broker: a coroutine issues a call or
\* finishes one, and the others are left alone.
LEMMA ClientCalls ==
  ASSUME IInv, NEW t \in Tasks, Client(t)
  PROVE  /\ UNCHANGED book
         /\ \A u \in Tasks \ {t} : call'[u] = call[u]
         /\ \/ call'[t] = Idle
            \/ call'[t] = call[t]
            \/ \E o \in Orders : SubmitCall(t, o) /\ call'[t] = [op |-> "submit", order |-> o,
                                                                reply |-> Waiting]
            \/ \E o \in Orders, op \in {"cancel", "poll"} :
                 /\ brokerOrderId[o] # NoId
                 /\ UNCHANGED brokerOrderId
                 /\ call'[t] = [op |-> op, order |-> o, reply |-> Waiting]
  <1>1. CASE Resume(t)
    BY <1>1 DEF Resume, SubmitReturn, SubmitRaise, CancelReturn, PollReturn, Finish, IInv, TypeOK
  <1>2. ASSUME NEW o \in Orders, SubmitCall(t, o)
        PROVE  /\ UNCHANGED book
               /\ \A u \in Tasks \ {t} : call'[u] = call[u]
               /\ call'[t] = [op |-> "submit", order |-> o, reply |-> Waiting]
    BY <1>2 DEF SubmitCall, Issue, IInv, TypeOK
  <1>3. ASSUME NEW o \in Orders, CancelCall(t, o)
        PROVE  /\ UNCHANGED <<book, brokerOrderId>>
               /\ \A u \in Tasks \ {t} : call'[u] = call[u]
               /\ \/ call'[t] = call[t]
                  \/ /\ brokerOrderId[o] # NoId
                     /\ call'[t] = [op |-> "cancel", order |-> o, reply |-> Waiting]
    BY <1>3 DEF CancelCall, Issue, IInv, TypeOK
  <1>4. ASSUME NEW o \in Orders, PollCall(t, o)
        PROVE  /\ UNCHANGED <<book, brokerOrderId>>
               /\ \A u \in Tasks \ {t} : call'[u] = call[u]
               /\ brokerOrderId[o] # NoId
               /\ call'[t] = [op |-> "poll", order |-> o, reply |-> Waiting]
    BY <1>4 DEF PollCall, Issue, IInv, TypeOK, omsVars
  <1>5. QED
    BY <1>1, <1>2, <1>3, <1>4 DEF Client

\* What the broker does to the calls: one waiting call gets its answer.
LEMMA BrokerCalls ==
  ASSUME IInv, NEW t \in Tasks, Broker(t)
  PROVE  /\ call[t] # Idle /\ call[t].reply = Waiting
         /\ UNCHANGED omsVars
         /\ \E reply : /\ reply # Waiting
                       /\ call' = [call EXCEPT ![t] = [op |-> call[t].op,
                                                       order |-> call[t].order,
                                                       reply |-> reply]]
  <1>1. /\ call[t] # Idle /\ call[t].reply = Waiting
        /\ UNCHANGED omsVars
    BY DEF Broker, BrokerAccepts, BrokerRefuses, BrokerAcceptsAnswerLost, AdapterRaises,
         BrokerCancels, BrokerKeepsOrder, BrokerReports, BrokerReportsNothing, Reaches, Idle
  <1>2. \A r : Answer(r) # Waiting
    BY DEF Answer, Waiting
  <1>3. Raised # Waiting /\ None # Waiting /\ Yes # Waiting /\ No # Waiting
    BY DEF Raised, None, Yes, No, Waiting
  <1>4. \E reply : reply # Waiting /\ Give(t, reply)
    BY <1>2, <1>3 DEF Broker, BrokerAccepts, BrokerRefuses, BrokerAcceptsAnswerLost,
         AdapterRaises, BrokerCancels, BrokerKeepsOrder, BrokerReports, BrokerReportsNothing,
         Refusal
  <1>5. QED
    BY <1>1, <1>4 DEF Give

\* What the broker does to its book: it appends the order of a submit call, or
\* changes statuses only, and a filled order stays filled.
LEMMA BrokerBook ==
  ASSUME IInv, NEW t \in Tasks, Broker(t)
  PROVE  \/ /\ Reaches(t, "submit")
            /\ \E s \in OrderStatus :
                 book' = Append(book, [order |-> call[t].order, status |-> s])
         \/ /\ DOMAIN book' = DOMAIN book
            /\ \A j \in DOMAIN book :
                 /\ book'[j].order = book[j].order
                 /\ book[j].status = "FILLED" => book'[j].status = "FILLED"
  <1>1. CASE BrokerAccepts(t)
    BY <1>1 DEF BrokerAccepts, PlaceStatus, LiveStatus, OrderStatus
  <1>2. CASE BrokerAcceptsAnswerLost(t)
    BY <1>2 DEF BrokerAcceptsAnswerLost, OrderStatus
  <1>3. CASE BrokerCancels(t)
    <2> DEFINE i == brokerOrderId[call[t].order]
    <2>1. i \in DOMAIN book /\ book[i].status # "FILLED"
      BY <1>3, CallShape DEF BrokerCancels, Reaches, IInv, CallInv, IndexFindsOrder, LiveStatus
    <2>2. CASE MoveTo(i, "CANCELLED")
      BY <2>1, <2>2, MoveToType DEF IInv, OrderStatus
    <2>3. CASE UNCHANGED book
      BY <2>3
    <2>4. QED
      BY <1>3, <2>2, <2>3 DEF BrokerCancels
  <1>4. CASE UNCHANGED book
    BY <1>4
  <1>5. QED
    BY <1>1, <1>2, <1>3, <1>4 DEF Broker, BrokerRefuses, AdapterRaises, BrokerKeepsOrder,
         BrokerReports, BrokerReportsNothing

LEMMA PlacementStep ==
  ASSUME IInv, [Next]_vars
  PROVE  (PlacedAtMostOnce /\ SubmitInv)'
  <1> USE DEF IInv
  <1>1. TypeOK'
    BY TypeStep
  <1>2. \A i \in DOMAIN book : book[i].order \in Orders
    BY BookShape
  <1>3. ASSUME NEW o \in Orders, create_order(o)
        PROVE  (PlacedAtMostOnce /\ SubmitInv)'
    <2>1. UNCHANGED <<book, call>>
      BY <1>3 DEF create_order
    <2>2. QED
      BY <1>2, <2>1, NeverSubmittableAgain, CallShape
      DEF PlacedAtMostOnce, SubmitInv, Submitting, Reaches, Idle
  <1>4. ASSUME NEW t \in Tasks, Client(t)
        PROVE  (PlacedAtMostOnce /\ SubmitInv)'
    <2>1. UNCHANGED book /\ \A u \in Tasks \ {t} : call'[u] = call[u]
      BY <1>4, ClientCalls
    <2>2. PlacedAtMostOnce' /\ \A i \in DOMAIN book' : state'[book'[i].order] \notin Submittable
      BY <1>2, <2>1, NeverSubmittableAgain DEF PlacedAtMostOnce, SubmitInv
    <2>3. CASE ~Submitting(t)' \/ call'[t] = call[t]
      BY <2>1, <2>2, <2>3, NeverSubmittableAgain, CallShape
      DEF SubmitInv, Submitting, Reaches, Idle
    <2>4. CASE Submitting(t)' /\ call'[t] # call[t]
      <3>1. PICK o \in Orders : /\ SubmitCall(t, o)
                               /\ call'[t] = [op |-> "submit", order |-> o, reply |-> Waiting]
        <4>1. call'[t].op = "submit"
          BY <2>4 DEF Submitting
        <4>2. Idle.op # "submit"
          BY DEF Idle
        <4>3. \A o \in Orders, op \in {"cancel", "poll"} :
                call'[t] # [op |-> op, order |-> o, reply |-> Waiting]
          BY <4>1
        <4>4. QED
          BY <1>4, <2>4, <4>1, <4>2, <4>3, ClientCalls
      <3>2. state[o] \in Submittable /\ state'[o] \notin Submittable
        BY <3>1 DEF SubmitCall, AddEvents, TypeOK, Submittable
      <3>3. \A u \in Tasks \ {t} : Submitting(u) => call[u].order \in Orders /\ call[u].order # o
        BY <3>2, CallShape DEF SubmitInv, Submitting, Idle
      <3>4. \A i \in DOMAIN book : book[i].order # o
        BY <3>2 DEF SubmitInv
      <3>5. QED
        BY <2>1, <2>2, <3>1, <3>2, <3>3, <3>4, NeverSubmittableAgain
        DEF SubmitInv, Submitting, Reaches
    <2>5. QED
      BY <2>3, <2>4
  <1>5. ASSUME NEW t \in Tasks, Broker(t)
        PROVE  (PlacedAtMostOnce /\ SubmitInv)'
    <2>1. state' = state /\ call[t] # Idle /\ call[t].reply = Waiting
      BY <1>5, BrokerCalls DEF omsVars
    <2>2. PICK reply : /\ reply # Waiting
                       /\ call' = [call EXCEPT ![t] = [op |-> call[t].op,
                                                       order |-> call[t].order,
                                                       reply |-> reply]]
      BY <1>5, BrokerCalls
    <2>3. \A u \in Tasks :
            /\ call'[u].op = call[u].op
            /\ call[u].op = "submit" => call'[u].order = call[u].order
            /\ call'[u].reply = Waiting /\ call'[u].op = "submit"
                 => call[u].reply = Waiting /\ u # t
      <3>1. call'[t].op = call[t].op /\ call'[t].order = call[t].order /\ call'[t].reply # Waiting
        BY <2>2 DEF TypeOK
      <3>2. \A u \in Tasks \ {t} : call'[u] = call[u]
        BY <2>2 DEF TypeOK
      <3>3. QED
        BY <3>1, <3>2
    <2>4. CASE /\ Reaches(t, "submit")
               /\ \E s \in OrderStatus :
                    book' = Append(book, [order |-> call[t].order, status |-> s])
      <3> DEFINE o == call[t].order
      <3>1. o \in Orders
        BY <2>1, CallShape
      <3>2. /\ DOMAIN book' = DOMAIN book \cup {Len(book) + 1}
            /\ \A j \in DOMAIN book : book'[j] = book[j] /\ j # Len(book) + 1
            /\ book'[Len(book) + 1].order = o
        BY <2>4, <3>1, AppendShape
      <3>3. \A j \in DOMAIN book : book[j].order # o
        BY <2>4 DEF SubmitInv
      <3>4. PlacedAtMostOnce'
        BY <3>2, <3>3 DEF PlacedAtMostOnce
      <3>5. state[o] \notin Submittable
        BY <2>4 DEF SubmitInv, Submitting, Reaches
      <3>6. \A u \in Tasks : Reaches(u, "submit")' => call'[u].order # o
        BY <2>3, <2>4 DEF SubmitInv, Submitting, Reaches
      <3>7. \A j \in DOMAIN book' : state'[book'[j].order] \notin Submittable
        BY <2>1, <3>2, <3>5 DEF SubmitInv
      <3>8. \A u \in Tasks : Reaches(u, "submit")' =>
              \A j \in DOMAIN book' : book'[j].order # call'[u].order
        BY <2>3, <3>2, <3>6 DEF SubmitInv, Submitting, Reaches
      <3>9. QED
        BY <2>1, <2>3, <3>4, <3>7, <3>8 DEF SubmitInv, Submitting, Reaches
    <2>5. CASE /\ DOMAIN book' = DOMAIN book
               /\ \A j \in DOMAIN book : book'[j].order = book[j].order
      BY <2>1, <2>3, <2>5 DEF PlacedAtMostOnce, SubmitInv, Submitting, Reaches
    <2>6. QED
      BY <1>5, <2>4, <2>5, BrokerBook
  <1>6. ASSUME NEW i \in DOMAIN book, Advance(i)
        PROVE  (PlacedAtMostOnce /\ SubmitInv)'
    <2>1. UNCHANGED <<state, call>>
      BY <1>6 DEF Advance, omsVars
    <2>2. /\ DOMAIN book' = DOMAIN book
          /\ \A j \in DOMAIN book : book'[j].order = book[j].order
      BY <1>6, MoveToType DEF Advance
    <2>3. QED
      BY <2>1, <2>2 DEF PlacedAtMostOnce, SubmitInv, Submitting, Reaches
  <1>7. CASE UNCHANGED vars
    BY <1>7 DEF vars, omsVars, PlacedAtMostOnce, SubmitInv, Submitting, Reaches
  <1>8. QED
    BY <1>3, <1>4, <1>5, <1>6, <1>7 DEF Next

-----------------------------------------------------------------------------
(* Answers, broker ids and fills                                           *)

\* The broker never forgets an order, nor a fill.
LEMMA BookGrows ==
  ASSUME IInv, [Next]_vars, NEW j \in DOMAIN book
  PROVE  /\ j \in DOMAIN book'
         /\ book'[j].order = book[j].order
         /\ book[j].status = "FILLED" => book'[j].status = "FILLED"
  <1>1. CASE UNCHANGED book
    BY <1>1
  <1>2. ASSUME NEW t \in Tasks, Broker(t)
        PROVE  /\ j \in DOMAIN book'
               /\ book'[j].order = book[j].order
               /\ book[j].status = "FILLED" => book'[j].status = "FILLED"
    <2>1. CASE Reaches(t, "submit") /\ \E s \in OrderStatus :
                 book' = Append(book, [order |-> call[t].order, status |-> s])
      <3>1. call[t].order \in Orders
        BY <1>2, BrokerCalls, CallShape DEF IInv
      <3>2. QED
        BY <2>1, <3>1, AppendShape DEF IInv
    <2>2. QED
      BY <1>2, <2>1, BrokerBook
  <1>3. ASSUME NEW i \in DOMAIN book, Advance(i)
        PROVE  /\ j \in DOMAIN book'
               /\ book'[j].order = book[j].order
               /\ book[j].status = "FILLED" => book'[j].status = "FILLED"
    <2>1. book[i].status # "FILLED"
      BY <1>3 DEF Advance, LiveStatus
    <2>2. PICK s \in OrderStatus : MoveTo(i, s)
      BY <1>3 DEF Advance
    <2>3. QED
      BY <2>1, <2>2, MoveToType DEF IInv
  <1>4. QED
    BY <1>1, <1>2, <1>3, ClientCalls DEF Next, create_order, vars

\* Only the return of a submit call sets a broker id, and then it is the id in its
\* answer.
LEMMA IdStep ==
  ASSUME IInv, [Next]_vars
  PROVE  \/ UNCHANGED <<brokerOrderId, index>>
         \/ \E t \in Tasks : SubmitReturn(t)
  BY DEF Next, Client, Resume, create_order, SubmitCall, CancelCall, PollCall, SubmitRaise,
       CancelReturn, PollReturn, Broker, BrokerAccepts, BrokerRefuses, BrokerAcceptsAnswerLost,
       AdapterRaises, BrokerCancels, BrokerKeepsOrder, BrokerReports, BrokerReportsNothing,
       Advance, omsVars, vars

\* The answer a submit call returns with.
LEMMA SubmitAnswer ==
  ASSUME IInv, NEW t \in Tasks, SubmitReturn(t)
  PROVE  /\ call[t].order \in Orders
         /\ Submitting(t)
         /\ call[t].reply.result \in Result
         /\ Truthful(call[t].order, call[t].reply.result)
  <1>1. call[t].op = "submit" /\ call[t] # Idle /\ call[t].order \in Orders
        /\ call[t].reply \in Answers
    BY CallShape DEF SubmitReturn, Resumes, IInv
  <1>2. QED
    BY <1>1 DEF IInv, AnswerInv, Answers, Submitting

\* The news a poll returns with.
LEMMA PollAnswer ==
  ASSUME IInv, NEW t \in Tasks, PollReturn(t), call[t].reply.kind = "result"
  PROVE  /\ call[t].order \in Orders
         /\ call[t].reply.result \in Result
         /\ Truthful(call[t].order, call[t].reply.result)
  <1>1. call[t].op = "poll" /\ call[t] # Idle /\ call[t].order \in Orders
        /\ call[t].reply \in Answers
    BY CallShape DEF PollReturn, Resumes, IInv, Waiting, Raised, None
  <1>2. QED
    BY <1>1 DEF IInv, AnswerInv, Answers

LEMMA IndexStep ==
  ASSUME IInv, [Next]_vars
  PROVE  IndexFindsOrder'
  <1>1. CASE UNCHANGED <<brokerOrderId, index>>
    BY <1>1, BookGrows DEF IInv, IndexFindsOrder
  <1>2. ASSUME NEW t \in Tasks, SubmitReturn(t) PROVE IndexFindsOrder'
    <2> DEFINE o == call[t].order
               r == call[t].reply.result
    <2>1. o \in Orders /\ r.id \in Nat /\ Truthful(o, r)
      BY <1>2, SubmitAnswer DEF Result
    <2>2. /\ brokerOrderId' = [brokerOrderId EXCEPT ![o] = r.id]
          /\ index' = [i \in DOMAIN index \cup {r.id} |-> IF i = r.id THEN o ELSE index[i]]
          /\ book' = book
      BY <1>2 DEF SubmitReturn, Indexed
    <2>3. ASSUME NEW p \in Orders, brokerOrderId'[p] # NoId
          PROVE  /\ brokerOrderId'[p] \in DOMAIN index' \cap DOMAIN book'
                 /\ index'[brokerOrderId'[p]] = p
                 /\ book'[brokerOrderId'[p]].order = p
      <3>1. CASE p = o
        BY <2>1, <2>2, <2>3, <3>1 DEF IInv, TypeOK, Truthful
      <3>2. CASE p # o
        <4>1. brokerOrderId'[p] = brokerOrderId[p]
          BY <2>2, <3>2 DEF IInv, TypeOK
        <4>2. /\ brokerOrderId[p] \in DOMAIN index \cap DOMAIN book
              /\ index[brokerOrderId[p]] = p
              /\ book[brokerOrderId[p]].order = p
          BY <2>3, <4>1 DEF IInv, IndexFindsOrder
        <4>3. brokerOrderId[p] # r.id
          BY <2>1, <2>3, <3>2, <4>1, <4>2 DEF Truthful
        <4>4. QED
          BY <2>2, <4>1, <4>2, <4>3
      <3>3. QED
        BY <3>1, <3>2
    <2>4. QED
      BY <2>3 DEF IndexFindsOrder
  <1>3. QED
    BY <1>1, <1>2, IdStep

\* A step that records a fill of an order has a truthful answer that says so.
LEMMA FillRecorded ==
  ASSUME IInv, [Next]_vars, NEW o \in Orders, history'[o]["FILLED"] # history[o]["FILLED"]
  PROVE  \E r \in Result : Truthful(o, r) /\ r.status = "FILLED"
  <1> USE DEF IInv
  <1>1. "FILLED" \in OrderState
    BY DEF OrderState
  <1>2. ASSUME NEW p \in Orders, NEW evs, NEW s, AddEvents(p, evs, s)
        PROVE  o = p /\ "FILLED" \in evs
    BY <1>1, <1>2 DEF AddEvents, TypeOK
  <1>3. ASSUME NEW p \in Orders, create_order(p) PROVE FALSE
    BY <1>2, <1>3 DEF create_order
  <1>4. ASSUME NEW t \in Tasks, NEW p \in Orders, SubmitCall(t, p) \/ CancelCall(t, p)
        PROVE  FALSE
    BY <1>2, <1>4 DEF SubmitCall, CancelCall
  <1>5. ASSUME NEW t \in Tasks, SubmitRaise(t) \/ CancelReturn(t) PROVE FALSE
    <2>1. call[t].order \in Orders
      BY <1>5, CallShape DEF SubmitRaise, CancelReturn, Resumes
    <2>2. \/ AddEvents(call[t].order, {"ERROR"}, "ERROR")
          \/ AddEvents(call[t].order, {"CANCELLED"}, "CANCELLED")
          \/ history' = history
      BY <1>5 DEF SubmitRaise, CancelReturn, ApplyCancel
    <2>3. QED
      BY <1>2, <2>1, <2>2
  <1>6. ASSUME NEW t \in Tasks, SubmitReturn(t)
        PROVE  \E r \in Result : Truthful(o, r) /\ r.status = "FILLED"
    <2> DEFINE r == call[t].reply.result
    <2>1. AddEvents(call[t].order, {"ACKNOWLEDGED", Settled(r.status)}, Settled(r.status))
      BY <1>6 DEF SubmitReturn
    <2>2. o = call[t].order /\ Settled(r.status) = "FILLED"
      BY <1>2, <1>6, <2>1, SubmitAnswer
    <2>3. r.status = "FILLED"
      BY <2>2 DEF Settled
    <2>4. QED
      BY <1>6, <2>2, <2>3, SubmitAnswer
  <1>7. ASSUME NEW t \in Tasks, PollReturn(t)
        PROVE  \E r \in Result : Truthful(o, r) /\ r.status = "FILLED"
    <2> DEFINE r == call[t].reply.result
    <2>1. call[t].reply.kind = "result" /\ AddEvents(call[t].order, {r.status}, r.status)
      BY <1>7 DEF PollReturn, ApplyResult, Record
    <2>2. o = call[t].order /\ r.status = "FILLED"
      BY <1>2, <1>7, <2>1, PollAnswer
    <2>3. QED
      BY <1>7, <2>1, <2>2, PollAnswer
  <1>8. ~UNCHANGED history
    OBVIOUS
  <1>9. QED
    BY <1>3, <1>4, <1>5, <1>6, <1>7, <1>8, BrokerCalls
    DEF Next, Client, Resume, PollCall, Advance, omsVars, vars

LEMMA FillStep ==
  ASSUME IInv, [Next]_vars
  PROVE  FillsAreReal'
  <1> SUFFICES ASSUME NEW o \in Orders, history'[o]["FILLED"] > 0
               PROVE  \E i \in DOMAIN book' : book'[i].order = o /\ book'[i].status = "FILLED"
    BY DEF FillsAreReal
  <1>1. \E i \in DOMAIN book : book[i].order = o /\ book[i].status = "FILLED"
    <2>1. CASE history'[o]["FILLED"] = history[o]["FILLED"]
      BY <2>1 DEF IInv, FillsAreReal
    <2>2. CASE history'[o]["FILLED"] # history[o]["FILLED"]
      BY <2>2, FillRecorded DEF Truthful
    <2>3. QED
      BY <2>1, <2>2
  <1>2. QED
    BY <1>1, BookGrows

\* An answer that was truthful stays so: it may be out of date, never wrong.
LEMMA TruthfulStays ==
  ASSUME IInv, [Next]_vars, NEW o, NEW r, Truthful(o, r)
  PROVE  Truthful(o, r)'
  BY BookGrows DEF Truthful

LEMMA AnswerStep ==
  ASSUME IInv, [Next]_vars
  PROVE  AnswerInv'
  <1> SUFFICES ASSUME NEW u \in Tasks, call'[u] # Idle, call'[u].reply.kind = "result"
               PROVE  /\ call'[u].op \in {"submit", "poll"}
                      /\ Truthful(call[u].order, call[u].reply.result)'
    BY DEF AnswerInv, Truthful
  <1>1. CASE call'[u] = call[u]
    BY <1>1, TruthfulStays DEF IInv, AnswerInv
  <1>2. ASSUME NEW t \in Tasks, Client(t) PROVE call'[u] = call[u]
    <2>1. Waiting.kind # "result"
      BY DEF Waiting
    <2>2. \A o \in Orders, op \in {"submit", "cancel", "poll"} :
            call'[u] # [op |-> op, order |-> o, reply |-> Waiting]
      BY <2>1
    <2>3. QED
      BY <1>2, <2>2, ClientCalls
  <1>3. ASSUME NEW t \in Tasks, Broker(t), call'[u] # call[u]
        PROVE  /\ call'[u].op \in {"submit", "poll"}
               /\ Truthful(call[u].order, call[u].reply.result)'
    <2>1. u = t /\ call[t] # Idle
      BY <1>3, BrokerCalls DEF IInv, TypeOK
    <2>2. call[t].order \in Orders
      BY <2>1, CallShape DEF IInv
    <2>3. \A reply : Give(t, reply) =>
            /\ call'[u].op = call[t].op
            /\ call'[u].order = call[t].order
            /\ call'[u].reply = reply
      BY <2>1 DEF Give, IInv, TypeOK
    <2>4. CASE BrokerAccepts(t)
      <3>1. PICK s \in PlaceStatus, x \in Stamps :
              /\ book' = Append(book, [order |-> call[t].order, status |-> s])
              /\ Give(t, Answer([id |-> Len(book) + 1, status |-> s, stamp |-> x]))
        BY <2>4 DEF BrokerAccepts
      <3>2. /\ call'[u].op = "submit"
            /\ call'[u].order = call[t].order
            /\ call'[u].reply.result = [id |-> Len(book) + 1, status |-> s, stamp |-> x]
        <4>1. call'[u].reply = Answer([id |-> Len(book) + 1, status |-> s, stamp |-> x])
          BY <2>3, <3>1
        <4>2. QED
          BY <2>3, <2>4, <3>1, <4>1 DEF Answer, BrokerAccepts, Reaches
      <3>3. s \in OrderStatus
        BY DEF PlaceStatus, LiveStatus, OrderStatus
      <3>4. /\ Len(book) + 1 \in DOMAIN book'
            /\ book'[Len(book) + 1] = [order |-> call[t].order, status |-> s]
        BY <2>2, <3>1, <3>3, AppendShape DEF IInv
      <3>5. Len(book) + 1 # NoId
        BY BookShape DEF NoId, IInv
      <3>6. QED
        BY <3>2, <3>4, <3>5 DEF Truthful
    <2>5. CASE BrokerRefuses(t) \/ BrokerAcceptsAnswerLost(t)
      <3>1. PICK x \in Stamps : Give(t, Refusal(x))
        BY <2>5 DEF BrokerRefuses, BrokerAcceptsAnswerLost
      <3>2. /\ call'[u].op = "submit"
            /\ call'[u].reply.result = [id |-> NoId, status |-> "REJECTED", stamp |-> x]
        <4>1. call'[u].reply = Refusal(x)
          BY <2>3, <3>1
        <4>2. QED
          BY <2>3, <2>5, <3>1, <4>1
          DEF BrokerRefuses, BrokerAcceptsAnswerLost, Reaches, Refusal, Answer
      <3>3. QED
        BY <3>2 DEF Truthful
    <2>6. CASE BrokerReports(t)
      <3> DEFINE i == brokerOrderId[call[t].order]
      <3>1. PICK x \in Stamps :
              Give(t, Answer([id |-> i, status |-> book[i].status, stamp |-> x]))
        BY <2>6 DEF BrokerReports
      <3>2. /\ call[t].op = "poll"
            /\ call'[u].op = "poll"
            /\ call'[u].order = call[t].order
            /\ call'[u].reply.result = [id |-> i, status |-> book[i].status, stamp |-> x]
        <4>1. call'[u].reply = Answer([id |-> i, status |-> book[i].status, stamp |-> x])
          BY <2>3, <3>1
        <4>2. QED
          BY <2>3, <2>6, <3>1, <4>1 DEF BrokerReports, Reaches, Answer
      <3>3. i # NoId /\ i \in DOMAIN book /\ book[i].order = call[t].order /\ book' = book
        BY <2>2, <2>6, <3>2 DEF BrokerReports, IInv, CallInv, IndexFindsOrder
      <3>4. QED
        BY <3>2, <3>3 DEF Truthful
    <2>7. CASE AdapterRaises(t) \/ BrokerCancels(t) \/ BrokerKeepsOrder(t)
               \/ BrokerReportsNothing(t)
      <3>1. \E reply \in {Raised, Yes, No, None} : Give(t, reply)
        BY <2>7 DEF AdapterRaises, BrokerCancels, BrokerKeepsOrder, BrokerReportsNothing
      <3>2. call'[u].reply \in {Raised, Yes, No, None}
        BY <2>3, <3>1
      <3>3. QED
        BY <3>2 DEF Raised, Yes, No, None
    <2>8. QED
      BY <1>3, <2>4, <2>5, <2>6, <2>7 DEF Broker
  <1>4. CASE UNCHANGED call
    BY <1>1, <1>4
  <1>5. QED
    BY <1>1, <1>2, <1>3, <1>4 DEF Next, create_order, Advance, vars

LEMMA CallStep ==
  ASSUME IInv, [Next]_vars
  PROVE  CallInv'
  <1> USE DEF IInv
  <1>1. ASSUME NEW o \in Orders, state'[o] \in Submittable PROVE brokerOrderId'[o] = NoId
    <2>1. state[o] \in Submittable /\ brokerOrderId[o] = NoId
      BY <1>1, NeverSubmittableAgain DEF CallInv
    <2>2. ASSUME NEW t \in Tasks, SubmitReturn(t) PROVE brokerOrderId'[o] = brokerOrderId[o]
      <3>1. state[call[t].order] \notin Submittable
        BY <2>2, SubmitAnswer DEF SubmitInv
      <3>2. QED
        BY <2>1, <2>2, <3>1 DEF SubmitReturn, TypeOK
    <2>3. QED
      BY <2>1, <2>2, IdStep
  <1>2. ASSUME NEW u \in Tasks, Submitting(u)' PROVE brokerOrderId'[call'[u].order] = NoId
    <2>1. CASE call[u].op = "submit" /\ call'[u].order = call[u].order
      <3>1. call[u].order \in Orders /\ brokerOrderId[call[u].order] = NoId
        BY <2>1, CallShape DEF CallInv, Submitting, Idle
      <3>2. ASSUME NEW t \in Tasks, SubmitReturn(t)
            PROVE  brokerOrderId'[call[u].order] = brokerOrderId[call[u].order]
        <4>1. t # u
          BY <1>2, <3>2 DEF SubmitReturn, Finish, Submitting, Idle, TypeOK
        <4>2. call[t].order # call[u].order
          BY <2>1, <3>2, <4>1, SubmitAnswer DEF SubmitInv, Submitting
        <4>3. QED
          BY <3>1, <3>2, <4>2 DEF SubmitReturn, TypeOK
      <3>3. QED
        BY <2>1, <3>1, <3>2, IdStep
    <2>2. ASSUME NEW t \in Tasks, Client(t)
          PROVE  \/ call'[u] = call[u]
                 \/ \E o \in Orders : SubmitCall(t, o) /\ call'[u].order = o
      <3>1. call'[u].op = "submit" /\ Idle.op # "submit"
        BY <1>2 DEF Submitting, Idle
      <3>2. \A o \in Orders, op \in {"cancel", "poll"} :
              call'[u] # [op |-> op, order |-> o, reply |-> Waiting]
        BY <3>1
      <3>3. CASE u = t
        <4>1. \/ call'[t] = call[t]
              \/ \E o \in Orders : SubmitCall(t, o) /\ call'[t] = [op |-> "submit", order |-> o,
                                                                  reply |-> Waiting]
          BY <2>2, <3>1, <3>2, <3>3, ClientCalls
        <4>2. CASE call'[t] = call[t]
          BY <3>3, <4>2
        <4>3. CASE \E o \in Orders : SubmitCall(t, o) /\ call'[t] = [op |-> "submit", order |-> o,
                                                                  reply |-> Waiting]
          <5>1. PICK o \in Orders : SubmitCall(t, o) /\ call'[t] = [op |-> "submit", order |-> o,
                                                                  reply |-> Waiting]
            BY <4>3
          <5>2. call'[u].order = o
            BY <3>3, <5>1
          <5>3. QED
            BY <5>1, <5>2
        <4>4. QED
          BY <4>1, <4>2, <4>3
      <3>4. CASE u # t
        BY <2>2, <3>4, ClientCalls
      <3>5. QED
        BY <3>3, <3>4
    <2>3. ASSUME NEW t \in Tasks, NEW o \in Orders, SubmitCall(t, o), call'[u].order = o
          PROVE  brokerOrderId'[call'[u].order] = NoId
      BY <2>3 DEF SubmitCall, CallInv, Submittable
    <2>4. ASSUME NEW t \in Tasks, Broker(t)
          PROVE  call'[u].op = call[u].op /\ (u = t \/ call'[u] = call[u])
                 /\ (u = t => call'[u].order = call[u].order)
      BY <2>4, BrokerCalls DEF TypeOK
    <2>5. QED
      BY <1>2, <2>1, <2>2, <2>3, <2>4 DEF Next, create_order, Advance, vars, Submitting
  <1>3. ASSUME NEW u \in Tasks, call'[u].op \in {"cancel", "poll"}
        PROVE  brokerOrderId'[call'[u].order] # NoId
    <2>1. CASE call[u].op \in {"cancel", "poll"} /\ call'[u].order = call[u].order
      <3>1. call[u].order \in Orders /\ brokerOrderId[call[u].order] # NoId
        BY <2>1, CallShape DEF CallInv, Idle
      <3>2. ASSUME NEW t \in Tasks, SubmitReturn(t)
            PROVE  brokerOrderId'[call[u].order] = brokerOrderId[call[u].order]
        <4>1. call[t].order # call[u].order
          BY <3>1, <3>2, SubmitAnswer DEF CallInv, Submitting
        <4>2. QED
          BY <3>1, <3>2, <4>1 DEF SubmitReturn, TypeOK
      <3>3. QED
        BY <2>1, <3>1, <3>2, IdStep
    <2>2. ASSUME NEW t \in Tasks, Client(t)
          PROVE  \/ call'[u] = call[u]
                 \/ brokerOrderId'[call'[u].order] # NoId
      <3>1. Idle.op \notin {"cancel", "poll"}
        BY DEF Idle
      <3>2. \A o \in Orders : call'[u] # [op |-> "submit", order |-> o, reply |-> Waiting]
        BY <1>3
      <3>3. QED
        <4>1. \/ call'[u] = call[u]
              \/ \E o \in Orders, op \in {"cancel", "poll"} :
                   /\ brokerOrderId[o] # NoId
                   /\ UNCHANGED brokerOrderId
                   /\ call'[u] = [op |-> op, order |-> o, reply |-> Waiting]
          <5>1. CASE u = t
            BY <1>3, <2>2, <3>1, <3>2, <5>1, ClientCalls
          <5>2. CASE u # t
            BY <2>2, <5>2, ClientCalls
          <5>3. QED
            BY <5>1, <5>2
        <4>2. ASSUME NEW o \in Orders, NEW op \in {"cancel", "poll"}, brokerOrderId[o] # NoId,
                     UNCHANGED brokerOrderId,
                     call'[u] = [op |-> op, order |-> o, reply |-> Waiting]
              PROVE  brokerOrderId'[call'[u].order] # NoId
          BY <4>2
        <4>3. QED
          BY <4>1, <4>2
    <2>3. ASSUME NEW t \in Tasks, Broker(t)
          PROVE  call'[u].op = call[u].op /\ (u = t \/ call'[u] = call[u])
                 /\ (u = t => call'[u].order = call[u].order)
      BY <2>3, BrokerCalls DEF TypeOK
    <2>4. CASE call'[u] = call[u]
      BY <1>3, <2>1, <2>4
    <2>5. QED
      <3>1. CASE \E t \in Tasks : Client(t)
        BY <1>3, <2>2, <2>4, <3>1
      <3>2. CASE \E t \in Tasks : Broker(t)
        BY <1>3, <2>1, <2>3, <2>4, <3>2
      <3>3. CASE UNCHANGED call
        BY <2>4, <3>3
      <3>4. QED
        BY <3>1, <3>2, <3>3 DEF Next, create_order, Advance, vars
  <1>4. QED
    BY <1>1, <1>2, <1>3 DEF CallInv

-----------------------------------------------------------------------------
(* Nothing at the broker is out of reach                                   *)

\* A history changes only as add_event does, and only on the OMS's side.
LEMMA HistoryStep ==
  ASSUME IInv, [Next]_vars
  PROVE  \/ UNCHANGED history
         \/ /\ UNCHANGED book
            /\ \E o \in Orders, evs \in SUBSET OrderState, s \in OrderState : AddEvents(o, evs, s)
  <1> USE DEF IInv, OrderState
  <1>1. ASSUME NEW t \in Tasks, Client(t)
        PROVE  \/ UNCHANGED history
               \/ \E o \in Orders, evs \in SUBSET OrderState, s \in OrderState : AddEvents(o, evs, s)
    <2>1. CASE \E o \in Orders : SubmitCall(t, o) \/ CancelCall(t, o) \/ PollCall(t, o)
      BY <2>1 DEF SubmitCall, CancelCall, PollCall, omsVars
    <2>2. CASE SubmitReturn(t)
      <3>1. AddEvents(call[t].order, {"ACKNOWLEDGED", Settled(call[t].reply.result.status)},
                      Settled(call[t].reply.result.status))
        BY <2>2 DEF SubmitReturn
      <3>2. Settled(call[t].reply.result.status) \in OrderState
        BY DEF Settled
      <3>3. QED
        BY <2>2, <3>1, <3>2, SubmitAnswer
    <2>3. CASE SubmitRaise(t) \/ CancelReturn(t)
      BY <2>3, CallShape DEF SubmitRaise, CancelReturn, Resumes, ApplyCancel
    <2>4. CASE PollReturn(t)
      <3>1. \/ UNCHANGED history
            \/ \E s \in ReportedStatus : AddEvents(call[t].order, {s}, s)
        BY <2>4 DEF PollReturn, ApplyResult, Record
      <3>2. call[t].order \in Orders /\ ReportedStatus \subseteq OrderState
        BY <2>4, CallShape DEF PollReturn, Resumes, ReportedStatus
      <3>3. QED
        BY <3>1, <3>2
    <2>5. QED
      BY <1>1, <2>1, <2>2, <2>3, <2>4 DEF Client, Resume
  <1>2. ASSUME NEW o \in Orders, create_order(o)
        PROVE  /\ UNCHANGED book
               /\ \E evs \in SUBSET OrderState, s \in OrderState : AddEvents(o, evs, s)
    BY <1>2 DEF create_order
  <1>3. QED
    BY <1>1, <1>2, ClientCalls, BrokerCalls DEF Next, Advance, omsVars, vars

\* What an order went through once is never forgotten, and add_event records.
LEMMA HistoryGrows ==
  ASSUME TypeOK, NEW o \in Orders, NEW p \in Orders, NEW evs \in SUBSET OrderState,
         NEW s \in OrderState, AddEvents(o, evs, s), NEW e \in OrderState
  PROVE  /\ history[p][e] > 0 => history'[p][e] > 0
         /\ o = p /\ e \in evs => history'[p][e] > 0
  <1>1. history \in [Orders -> [OrderState -> Nat]] /\ history[p] \in [OrderState -> Nat]
    BY DEF TypeOK
  <1>2. history[p][e] \in Nat
    BY <1>1
  <1>3. history' = [history EXCEPT ![o] =
                      [f \in OrderState |-> IF f \in evs THEN @[f] + 1 ELSE @[f]]]
    BY DEF AddEvents
  <1>4. CASE o = p
    <2>1. history'[p][e] = IF e \in evs THEN history[p][e] + 1 ELSE history[p][e]
      BY <1>1, <1>3, <1>4
    <2>2. QED
      BY <1>2, <1>4, <2>1
  <1>5. CASE o # p
    <2>1. history'[p] = history[p]
      BY <1>1, <1>3, <1>5
    <2>2. QED
      BY <1>2, <1>5, <2>1
  <1>6. QED
    BY <1>4, <1>5

\* The answer to the submission says which broker order it is, or, when that answer
\* was lost, that it was refused.
Tells(r, i) ==
  \/ r.id = i
  \/ LosesAnswers /\ r.status = "REJECTED"

\* The order at i of the broker's book is known by its id or was reported rejected,
\* or the answer that tells so is on its way.
WithinReach(i) ==
  \/ brokerOrderId[book[i].order] = i
  \/ \E t \in Tasks : /\ Submitting(t) /\ call[t].order = book[i].order
                      /\ call[t].reply.kind = "result" /\ Tells(call[t].reply.result, i)
  \/ LosesAnswers /\ history[book[i].order]["REJECTED"] > 0

ReachInv == \A i \in DOMAIN book : WithinReach(i)

LEMMA ReachStep ==
  ASSUME IInv, ReachInv, [Next]_vars
  PROVE  ReachInv'
  <1> USE DEF IInv
  <1> SUFFICES ASSUME NEW i \in DOMAIN book' PROVE WithinReach(i)'
    BY DEF ReachInv
  <1>1. ASSUME i \in DOMAIN book, brokerOrderId[book[i].order] = i PROVE WithinReach(i)'
    <2>1. book[i].order \in Orders /\ i # NoId /\ book'[i].order = book[i].order
      BY <1>1, BookShape, BookGrows DEF NoId
    <2>2. ASSUME NEW t \in Tasks, SubmitReturn(t)
          PROVE  brokerOrderId'[book[i].order] = brokerOrderId[book[i].order]
      BY <1>1, <2>1, <2>2, SubmitAnswer DEF SubmitReturn, CallInv, TypeOK
    <2>3. brokerOrderId'[book[i].order] = i
      BY <1>1, <2>2, IdStep
    <2>4. QED
      BY <2>1, <2>3 DEF WithinReach
  <1>2. ASSUME i \in DOMAIN book, NEW t \in Tasks, Submitting(t), call[t].order = book[i].order,
               call[t].reply.kind = "result", Tells(call[t].reply.result, i)
        PROVE  WithinReach(i)'
    <2>1. /\ call[t].order \in Orders /\ call[t] # Idle
          /\ call[t].reply # Waiting /\ call[t].reply # Raised
          /\ book'[i].order = book[i].order
      BY <1>2, CallShape, BookGrows DEF Submitting, Waiting, Raised
    <2>2. CASE call'[t] = call[t]
      BY <1>2, <2>1, <2>2 DEF WithinReach, Submitting
    <2>3. CASE SubmitReturn(t)
      <3>1. CASE call[t].reply.result.id = i
        <4>1. brokerOrderId'[book[i].order] = i
          BY <1>2, <2>1, <2>3, <3>1 DEF SubmitReturn, TypeOK
        <4>2. QED
          BY <2>1, <4>1 DEF WithinReach
      <3>2. CASE LosesAnswers /\ call[t].reply.result.status = "REJECTED"
        <4>1. AddEvents(book[i].order, {"ACKNOWLEDGED", "REJECTED"}, "REJECTED")
          BY <1>2, <2>3, <3>2 DEF SubmitReturn, Settled
        <4>2. history'[book[i].order]["REJECTED"] > 0
          <5>1. "ACKNOWLEDGED" \in OrderState /\ "REJECTED" \in OrderState
            BY DEF OrderState
          <5>2. {"ACKNOWLEDGED", "REJECTED"} \in SUBSET OrderState
            BY <5>1
          <5>3. QED
            BY <1>2, <2>1, <4>1, <5>1, <5>2, HistoryGrows
        <4>3. QED
          BY <2>1, <3>2, <4>2 DEF WithinReach
      <3>3. QED
        BY <1>2, <3>1, <3>2 DEF Tells
    <2>4. ASSUME NEW u \in Tasks, Client(u) PROVE call'[t] = call[t] \/ SubmitReturn(t)
      <3>1. CASE u # t
        BY <2>4, <3>1, ClientCalls
      <3>2. CASE u = t
        BY <1>2, <2>1, <2>4, <3>2
        DEF Client, SubmitCall, CancelCall, PollCall, Resume, SubmitRaise, CancelReturn, PollReturn,
            Resumes, Submitting
      <3>3. QED
        BY <3>1, <3>2
    <2>5. ASSUME NEW u \in Tasks, Broker(u) PROVE call'[t] = call[t]
      BY <2>1, <2>5, BrokerCalls DEF TypeOK
    <2>6. QED
      BY <2>2, <2>3, <2>4, <2>5 DEF Next, create_order, Advance, vars
  <1>3. ASSUME i \in DOMAIN book, LosesAnswers, history[book[i].order]["REJECTED"] > 0
        PROVE  WithinReach(i)'
    <2>1. book[i].order \in Orders /\ book'[i].order = book[i].order
      BY <1>3, BookShape, BookGrows
    <2>2. history'[book[i].order]["REJECTED"] > 0
      <3>1. "REJECTED" \in OrderState
        BY DEF OrderState
      <3>2. ASSUME NEW o \in Orders, NEW evs \in SUBSET OrderState, NEW s \in OrderState,
                   AddEvents(o, evs, s)
            PROVE  history'[book[i].order]["REJECTED"] > 0
        BY <1>3, <2>1, <3>1, <3>2, HistoryGrows
      <3>3. QED
        BY <1>3, <3>2, HistoryStep
    <2>3. QED
      BY <1>3, <2>1, <2>2 DEF WithinReach
  <1>4. ASSUME i \notin DOMAIN book PROVE WithinReach(i)'
    <2>1. PICK t \in Tasks : BrokerAccepts(t) \/ BrokerAcceptsAnswerLost(t)
      <3>1. \A j \in DOMAIN book, s \in OrderStatus : MoveTo(j, s) => DOMAIN book' = DOMAIN book
        BY MoveToType
      <3>2. \A j \in DOMAIN book : ~Advance(j)
        BY <1>4, <3>1 DEF Advance
      <3>3. PICK t \in Tasks : Broker(t)
        BY <1>4, <3>2, ClientCalls DEF Next, create_order, vars
      <3>4. ~BrokerCancels(t)
        <4>1. Reaches(t, "cancel") => brokerOrderId[call[t].order] \in DOMAIN book
          BY CallShape DEF Reaches, CallInv, IndexFindsOrder
        <4>2. QED
          BY <1>4, <3>1, <4>1 DEF BrokerCancels, OrderStatus
      <3>5. QED
        BY <1>4, <3>3, <3>4 DEF Broker, BrokerRefuses, AdapterRaises, BrokerKeepsOrder,
             BrokerReports, BrokerReportsNothing
    <2>2. call[t].op = "submit" /\ call[t].order \in Orders
      BY <2>1, CallShape DEF BrokerAccepts, BrokerAcceptsAnswerLost, Reaches, Idle
    <2>3. PICK s \in OrderStatus, r \in Result :
            /\ book' = Append(book, [order |-> call[t].order, status |-> s])
            /\ Give(t, Answer(r))
            /\ Tells(r, Len(book) + 1)
      <3>1. CASE BrokerAccepts(t)
        <4>1. PICK s \in PlaceStatus, x \in Stamps :
                /\ book' = Append(book, [order |-> call[t].order, status |-> s])
                /\ Give(t, Answer([id |-> Len(book) + 1, status |-> s, stamp |-> x]))
          BY <3>1 DEF BrokerAccepts
        <4>2. s \in OrderStatus /\ Len(book) + 1 \in Nat
          BY DEF TypeOK, PlaceStatus, LiveStatus, OrderStatus
        <4>3. [id |-> Len(book) + 1, status |-> s, stamp |-> x] \in Result
          BY <4>2 DEF Result
        <4>4. Tells([id |-> Len(book) + 1, status |-> s, stamp |-> x], Len(book) + 1)
          BY DEF Tells
        <4>5. QED
          BY <4>1, <4>2, <4>3, <4>4
      <3>2. CASE BrokerAcceptsAnswerLost(t)
        <4>1. PICK x \in Stamps : Give(t, Refusal(x))
          BY <3>2 DEF BrokerAcceptsAnswerLost
        <4>2. [id |-> NoId, status |-> "REJECTED", stamp |-> x] \in Result
          BY DEF Result, NoId, OrderStatus
        <4>3. QED
          BY <3>2, <4>1, <4>2 DEF BrokerAcceptsAnswerLost, Refusal, Tells, OrderStatus
      <3>3. QED
        BY <2>1, <3>1, <3>2
    <2>4. i = Len(book) + 1 /\ book'[i].order = call[t].order
      BY <1>4, <2>2, <2>3, AppendShape
    <2>5. /\ call'[t].op = "submit" /\ call'[t].order = call[t].order
          /\ call'[t].reply = Answer(r)
      BY <2>2, <2>3 DEF Give, TypeOK
    <2>6. call'[t].reply.kind = "result" /\ call'[t].reply.result = r
      BY <2>5 DEF Answer
    <2>7. QED
      BY <2>3, <2>4, <2>5, <2>6 DEF WithinReach, Submitting, Tells
  <1>5. QED
    BY <1>1, <1>2, <1>3, <1>4 DEF ReachInv, WithinReach

-----------------------------------------------------------------------------
(* A cancelled order is over                                               *)

\* The broker holds the order, and it can no longer trade.
Over(o) ==
  /\ \E i \in DOMAIN book : book[i].order = o
  /\ \A i \in DOMAIN book : book[i].order = o => book[i].status \notin LiveStatus

\* What says that an order is cancelled: its history, or an answer on its way.
SaysCancelled(t) ==
  \/ call[t].op = "cancel" /\ call[t].reply = Yes
  \/ /\ call[t].op = "poll" /\ call[t].reply.kind = "result"
     /\ call[t].reply.result.status = "CANCELLED"

FinalInv ==
  CancelIsSync =>
    /\ \A o \in Orders : history[o]["CANCELLED"] > 0 => Over(o)
    /\ \A t \in Tasks : SaysCancelled(t) => Over(call[t].order)

\* An order of the book that is over does not change any more.
LEMMA EndedStays ==
  ASSUME IInv, [Next]_vars, NEW j \in DOMAIN book, book[j].status \notin LiveStatus
  PROVE  book'[j] = book[j]
  <1> USE DEF IInv
  <1>1. ASSUME NEW i \in DOMAIN book, NEW s \in OrderStatus, book[i].status \in LiveStatus,
               MoveTo(i, s)
        PROVE  book'[j] = book[j]
    BY <1>1, MoveToType
  <1>2. ASSUME NEW t \in Tasks, Broker(t) PROVE book'[j] = book[j]
    <2>1. CASE BrokerAccepts(t) \/ BrokerAcceptsAnswerLost(t)
      <3>1. call[t].order \in Orders /\ PlaceStatus \subseteq OrderStatus
        BY <2>1, CallShape DEF BrokerAccepts, BrokerAcceptsAnswerLost, Reaches, Idle, PlaceStatus,
           LiveStatus, OrderStatus
      <3>2. "PENDING" \in OrderStatus
        BY DEF OrderStatus
      <3>3. QED
        BY <2>1, <3>1, <3>2, AppendShape DEF BrokerAccepts, BrokerAcceptsAnswerLost
    <2>2. CASE BrokerCancels(t)
      <3>1. brokerOrderId[call[t].order] \in DOMAIN book
        BY <2>2, CallShape DEF BrokerCancels, Reaches, CallInv, IndexFindsOrder
      <3>2. "CANCELLED" \in OrderStatus
        BY DEF OrderStatus
      <3>3. QED
        BY <1>1, <2>2, <3>1, <3>2 DEF BrokerCancels
    <2>3. QED
      BY <1>2, <2>1, <2>2 DEF Broker, BrokerRefuses, AdapterRaises, BrokerKeepsOrder,
         BrokerReports, BrokerReportsNothing
  <1>3. ASSUME NEW i \in DOMAIN book, Advance(i) PROVE book'[j] = book[j]
    BY <1>1, <1>3 DEF Advance
  <1>4. QED
    BY <1>2, <1>3, ClientCalls DEF Next, create_order, vars

\* No order that is over comes back, and none is placed anew.
LEMMA OverStays ==
  ASSUME IInv, [Next]_vars, NEW o \in Orders, Over(o)
  PROVE  Over(o)'
  <1>1. PICK i \in DOMAIN book : book[i].order = o /\ book[i].status \notin LiveStatus
    BY DEF Over
  <1>2. i \in DOMAIN book' /\ book'[i] = book[i]
    BY <1>1, BookGrows, EndedStays
  <1>3. PlacedAtMostOnce'
    BY PlacementStep
  <1>4. QED
    BY <1>1, <1>2, <1>3 DEF Over, PlacedAtMostOnce

\* The one broker order of an order is the one its id names.
LEMMA OverById ==
  ASSUME IInv, NEW o \in Orders, brokerOrderId[o] # NoId,
         book[brokerOrderId[o]].status \notin LiveStatus
  PROVE  Over(o)
  BY DEF IInv, IndexFindsOrder, PlacedAtMostOnce, Over

\* A step that records a cancellation has an answer that says so.
LEMMA CancelRecorded ==
  ASSUME IInv, [Next]_vars, NEW o \in Orders,
         history'[o]["CANCELLED"] # history[o]["CANCELLED"]
  PROVE  \E t \in Tasks : SaysCancelled(t) /\ call[t].order = o
  <1> USE DEF IInv
  <1>1. ASSUME NEW p \in Orders, NEW evs, NEW s, AddEvents(p, evs, s)
        PROVE  o = p /\ "CANCELLED" \in evs
    BY <1>1 DEF AddEvents, TypeOK, OrderState
  <1>2. ~UNCHANGED history
    OBVIOUS
  <1>3. ASSUME NEW p \in Orders, create_order(p) PROVE FALSE
    BY <1>1, <1>3 DEF create_order
  <1>4. ASSUME NEW t \in Tasks, NEW p \in Orders, SubmitCall(t, p) \/ CancelCall(t, p)
        PROVE  FALSE
    BY <1>1, <1>4 DEF SubmitCall, CancelCall
  <1>5. ASSUME NEW t \in Tasks, SubmitReturn(t) \/ SubmitRaise(t) PROVE FALSE
    <2>1. call[t].order \in Orders
      BY <1>5, CallShape DEF SubmitReturn, SubmitRaise, Resumes
    <2>2. Settled(call[t].reply.result.status) # "CANCELLED"
      BY DEF Settled
    <2>3. QED
      BY <1>1, <1>5, <2>1, <2>2 DEF SubmitReturn, SubmitRaise
  <1>6. ASSUME NEW t \in Tasks, CancelReturn(t) PROVE SaysCancelled(t) /\ call[t].order = o
    <2>1. call[t].order \in Orders /\ call[t].op = "cancel"
      BY <1>6, CallShape DEF CancelReturn, Resumes
    <2>2. call[t].reply = Yes /\ AddEvents(call[t].order, {"CANCELLED"}, "CANCELLED")
      BY <1>2, <1>6 DEF CancelReturn, ApplyCancel
    <2>3. QED
      BY <1>1, <2>1, <2>2 DEF SaysCancelled
  <1>7. ASSUME NEW t \in Tasks, PollReturn(t) PROVE SaysCancelled(t) /\ call[t].order = o
    <2> DEFINE r == call[t].reply.result
    <2>1. /\ call[t].reply.kind = "result" /\ call[t].op = "poll"
          /\ AddEvents(call[t].order, {r.status}, r.status)
      BY <1>2, <1>7 DEF PollReturn, Resumes, ApplyResult, Record
    <2>2. o = call[t].order /\ r.status = "CANCELLED"
      BY <1>1, <1>7, <2>1, PollAnswer
    <2>3. QED
      BY <2>1, <2>2 DEF SaysCancelled
  <1>8. QED
    BY <1>2, <1>3, <1>4, <1>5, <1>6, <1>7, BrokerCalls
    DEF Next, Client, Resume, PollCall, Advance, omsVars, vars

LEMMA FinalStep ==
  ASSUME IInv, FinalInv, [Next]_vars
  PROVE  FinalInv'
  <1> USE DEF IInv
  <1> SUFFICES ASSUME CancelIsSync
               PROVE  /\ \A o \in Orders : history'[o]["CANCELLED"] > 0 => Over(o)'
                      /\ \A u \in Tasks : SaysCancelled(u)' => Over(call[u].order)'
    BY DEF FinalInv, Over
  <1>1. ASSUME NEW o \in Orders, history'[o]["CANCELLED"] > 0 PROVE Over(o)'
    <2>1. CASE history'[o]["CANCELLED"] = history[o]["CANCELLED"]
      BY <1>1, <2>1, OverStays DEF FinalInv
    <2>2. CASE history'[o]["CANCELLED"] # history[o]["CANCELLED"]
      BY <2>2, CancelRecorded, OverStays DEF FinalInv
    <2>3. QED
      BY <2>1, <2>2
  <1>2. ASSUME NEW u \in Tasks, SaysCancelled(u)' PROVE Over(call[u].order)'
    <2>1. CASE call'[u] = call[u]
      <3>1. SaysCancelled(u) /\ call[u].order \in Orders
        BY <1>2, <2>1, CallShape DEF SaysCancelled, Idle
      <3>2. DEFINE o == call[u].order
      <3>3. Over(o) /\ o \in Orders /\ call'[u].order = o
        BY <2>1, <3>1 DEF FinalInv
      <3>4. Over(o)'
        BY <3>3, OverStays
      <3>5. QED
        BY <3>3, <3>4 DEF Over
    <2>2. ASSUME NEW t \in Tasks, Client(t) PROVE call'[u] = call[u]
      <3>1. \A o \in Orders, op \in {"submit", "cancel", "poll"} :
              call'[u] # [op |-> op, order |-> o, reply |-> Waiting]
        BY <1>2 DEF SaysCancelled, Waiting, Yes
      <3>2. call'[u] # Idle
        BY <1>2 DEF SaysCancelled, Idle
      <3>3. CASE u = t
        BY <2>2, <3>1, <3>2, <3>3, ClientCalls
      <3>4. CASE u # t
        BY <2>2, <3>4, ClientCalls
      <3>5. QED
        BY <3>3, <3>4
    <2>3. ASSUME NEW t \in Tasks, Broker(t), call'[u] # call[u] PROVE Over(call[u].order)'
      <3> DEFINE o == call[t].order
                 i == brokerOrderId[o]
      <3>1. u = t /\ call[t] # Idle /\ o \in Orders
        BY <2>3, BrokerCalls, CallShape DEF TypeOK
      <3>2. \A reply : Give(t, reply) =>
              call'[u].op = call[t].op /\ call'[u].order = o /\ call'[u].reply = reply
        BY <3>1 DEF Give, TypeOK
      <3>3. CASE call[t].op = "submit"
        <4>1. call'[u].op = "submit"
          BY <2>3, <3>1, <3>3, BrokerCalls DEF TypeOK
        <4>2. QED
          BY <1>2, <4>1 DEF SaysCancelled
      <3>4. CASE BrokerCancels(t)
        <4>1. i # NoId /\ i \in DOMAIN book
          BY <3>1, <3>4 DEF BrokerCancels, Reaches, CallInv, IndexFindsOrder
        <4>2. MoveTo(i, "CANCELLED") /\ call'[u].order = o
          BY <3>2, <3>4 DEF BrokerCancels
        <4>3. book'[i].status \notin LiveStatus /\ UNCHANGED brokerOrderId
          BY <3>4, <4>1, <4>2, MoveToType DEF BrokerCancels, OrderStatus, LiveStatus, omsVars
        <4>4. PlacedAtMostOnce' /\ IndexFindsOrder'
          BY PlacementStep, IndexStep
        <4>5. /\ i \in DOMAIN book' /\ book'[i].order = o
          BY <3>1, <4>1, <4>3, <4>4 DEF IndexFindsOrder
        <4>6. QED
          BY <4>2, <4>3, <4>4, <4>5 DEF Over, PlacedAtMostOnce
      <3>5. CASE BrokerReports(t)
        <4>1. i # NoId /\ call[t].op = "poll"
          BY <3>1, <3>5 DEF BrokerReports, Reaches, CallInv
        <4>2. PICK x \in Stamps :
                Give(t, Answer([id |-> i, status |-> book[i].status, stamp |-> x]))
          BY <3>5 DEF BrokerReports
        <4>3. call'[u].op = "poll" /\ call'[u].order = o
              /\ call'[u].reply = Answer([id |-> i, status |-> book[i].status, stamp |-> x])
          BY <3>2, <4>1, <4>2
        <4>4. book[i].status = "CANCELLED"
          BY <1>2, <4>3 DEF SaysCancelled, Answer
        <4>5. PICK p \in Orders : p = o
          BY <3>1
        <4>6. Over(p)
          BY <4>1, <4>4, <4>5, OverById DEF LiveStatus
        <4>7. Over(p)' /\ call'[u].order = p
          BY <4>3, <4>5, <4>6, OverStays
        <4>8. QED
          BY <4>7 DEF Over
      <3>6. CASE AdapterRaises(t) \/ BrokerKeepsOrder(t) \/ BrokerReportsNothing(t)
        <4>1. call'[u].reply \in {Raised, No, None}
          BY <3>2, <3>6 DEF AdapterRaises, BrokerKeepsOrder, BrokerReportsNothing
        <4>2. QED
          BY <1>2, <4>1 DEF SaysCancelled, Raised, Yes, No, None
      <3>7. QED
        BY <2>3, <3>3, <3>4, <3>5, <3>6 DEF Broker, BrokerAccepts, BrokerRefuses,
           BrokerAcceptsAnswerLost, Reaches
    <2>4. QED
      BY <2>1, <2>2, <2>3 DEF Next, create_order, Advance, vars
  <1>3. QED
    BY <1>1, <1>2

-----------------------------------------------------------------------------
(* The statistics                                                          *)

\* add_event moves the totals of the events it adds by one, and no other.
LEMMA RecordedStep ==
  ASSUME TypeOK, IsFiniteSet(Orders), NEW o \in Orders, NEW evs, NEW s, AddEvents(o, evs, s),
         NEW e \in OrderState
  PROVE  /\ Recorded(e) \in Int
         /\ Recorded(e)' = IF e \in evs THEN Recorded(e) + 1 ELSE Recorded(e)
  <1> DEFINE f == [p \in Orders |-> history[p][e]]
             g == [p \in Orders |-> history'[p][e]]
  <1>1. Recorded(e) = SumFunctionOnSet(f, Orders) /\ Recorded(e)' = SumFunctionOnSet(g, Orders)
    BY DEF Recorded, SumFunction
  <1>2. \A p \in Orders : f[p] \in Int /\ g[p] \in Int
    BY DEF AddEvents, TypeOK
  <1>3. /\ \A p \in Orders \ {o} : g[p] = f[p]
        /\ g[o] - f[o] = IF e \in evs THEN 1 ELSE 0
    BY DEF AddEvents, TypeOK
  <1> HIDE DEF f, g
  <1>4. SumFunctionOnSet(f, Orders) \in Int
    BY <1>2, SumInt
  <1>5. SumFunctionOnSet(g, Orders) = SumFunctionOnSet(f, Orders) + (g[o] - f[o])
    BY <1>2, <1>3, SumChange
  <1>6. QED
    BY <1>1, <1>3, <1>4, <1>5

LEMMA StatsStep ==
  ASSUME IInv, StatsMatchHistory, IsFiniteSet(Orders), [Next]_vars
  PROVE  StatsMatchHistory'
  <1> USE DEF IInv
  <1> DEFINE Counters == {"created", "submitted", "filled", "cancelled", "rejected"}
  <1>1. \A c \in Counters : stats[c] \in Nat
    BY DEF TypeOK
  <1>2. ASSUME NEW o \in Orders, NEW evs, NEW s, AddEvents(o, evs, s)
        PROVE  /\ stats["created"] + (IF "CREATED" \in evs THEN 1 ELSE 0) = Recorded("CREATED")'
               /\ stats["submitted"] + (IF "ACKNOWLEDGED" \in evs THEN 1 ELSE 0)
                    = Recorded("ACKNOWLEDGED")'
               /\ stats["filled"] + (IF "FILLED" \in evs THEN 1 ELSE 0) = Recorded("FILLED")'
               /\ stats["rejected"] + (IF "REJECTED" \in evs THEN 1 ELSE 0) = Recorded("REJECTED")'
               /\ stats["cancelled"] + (IF "CANCELLED" \in evs THEN 1 ELSE 0)
                    <= Recorded("CANCELLED")'
    <2>1. {"CREATED", "ACKNOWLEDGED", "FILLED", "REJECTED", "CANCELLED"} \subseteq OrderState
      BY DEF OrderState
    <2>2. \A e \in {"CREATED", "ACKNOWLEDGED", "FILLED", "REJECTED", "CANCELLED"} :
            /\ Recorded(e) \in Int
            /\ Recorded(e)' = IF e \in evs THEN Recorded(e) + 1 ELSE Recorded(e)
      BY <1>2, <2>1, RecordedStep
    <2>3. QED
      BY <1>1, <2>2 DEF StatsMatchHistory
  <1>3. ASSUME UNCHANGED <<history, stats>> PROVE StatsMatchHistory'
    BY <1>3 DEF StatsMatchHistory, Recorded
  <1>4. ASSUME NEW o \in Orders, create_order(o) PROVE StatsMatchHistory'
    <2>1. /\ AddEvents(o, {"CREATED", "VALIDATED"}, "VALIDATED")
          /\ stats' = [stats EXCEPT !["created"] = @ + 1]
      BY <1>4 DEF create_order, Bump
    <2>2. /\ stats'["created"] = stats["created"] + 1
          /\ \A c \in Counters \ {"created"} : stats'[c] = stats[c]
      BY <2>1 DEF TypeOK
    <2>3. QED
      BY <1>1, <1>2, <2>1, <2>2 DEF StatsMatchHistory
  <1>5. ASSUME NEW t \in Tasks, NEW o \in Orders, SubmitCall(t, o) \/ CancelCall(t, o)
        PROVE  StatsMatchHistory'
    <2>1. /\ UNCHANGED stats
          /\ \/ AddEvents(o, {"SUBMITTED"}, "SUBMITTED")
             \/ AddEvents(o, {"CANCEL_REQUESTED"}, "CANCEL_REQUESTED")
      BY <1>5 DEF SubmitCall, CancelCall
    <2>2. QED
      BY <1>1, <1>2, <2>1 DEF StatsMatchHistory
  <1>6. ASSUME NEW t \in Tasks, SubmitReturn(t) PROVE StatsMatchHistory'
    <2> DEFINE s == call[t].reply.result.status
    <2>1. call[t].order \in Orders
      BY <1>6, SubmitAnswer
    <2>2. /\ AddEvents(call[t].order, {"ACKNOWLEDGED", Settled(s)}, Settled(s))
          /\ stats' = [stats EXCEPT !["submitted"] = @ + 1,
                                    !["filled"] = IF s = "FILLED" THEN @ + 1 ELSE @,
                                    !["rejected"] = IF s = "REJECTED" THEN @ + 1 ELSE @]
      BY <1>6 DEF SubmitReturn
    <2>3. /\ stats'["submitted"] = stats["submitted"] + 1
          /\ stats'["filled"] = stats["filled"] + (IF s = "FILLED" THEN 1 ELSE 0)
          /\ stats'["rejected"] = stats["rejected"] + (IF s = "REJECTED" THEN 1 ELSE 0)
          /\ stats'["created"] = stats["created"]
          /\ stats'["cancelled"] = stats["cancelled"]
      <3>1. stats \in [Counters -> Nat]
        BY DEF TypeOK
      <3> HIDE DEF s
      <3>2. /\ stats'["submitted"] = stats["submitted"] + 1
            /\ stats'["created"] = stats["created"]
            /\ stats'["cancelled"] = stats["cancelled"]
        BY <2>2, <3>1
      <3>3. stats'["filled"] = IF s = "FILLED" THEN stats["filled"] + 1 ELSE stats["filled"]
        BY <2>2, <3>1
      <3>4. stats'["rejected"] = IF s = "REJECTED" THEN stats["rejected"] + 1
                                 ELSE stats["rejected"]
        BY <2>2, <3>1
      <3>5. QED
        BY <1>1, <3>2, <3>3, <3>4
    <2> DEFINE evs == {"ACKNOWLEDGED", Settled(s)}
    <2>4. /\ "ACKNOWLEDGED" \in evs /\ "CREATED" \notin evs /\ "CANCELLED" \notin evs
          /\ "FILLED" \in evs <=> s = "FILLED"
          /\ "REJECTED" \in evs <=> s = "REJECTED"
      BY DEF Settled
    <2> HIDE DEF evs, s
    <2>5. QED
      BY <1>1, <1>2, <2>1, <2>2, <2>3, <2>4 DEF StatsMatchHistory, evs
  <1>7. ASSUME NEW t \in Tasks, SubmitRaise(t) PROVE StatsMatchHistory'
    <2>1. /\ call[t].order \in Orders /\ UNCHANGED stats
          /\ AddEvents(call[t].order, {"ERROR"}, "ERROR")
      BY <1>7, CallShape DEF SubmitRaise, Resumes
    <2>2. QED
      BY <1>1, <1>2, <2>1 DEF StatsMatchHistory
  <1>8. ASSUME NEW t \in Tasks, CancelReturn(t) PROVE StatsMatchHistory'
    <2>1. CASE call[t].reply = Yes
      <3>1. /\ call[t].order \in Orders
            /\ AddEvents(call[t].order, {"CANCELLED"}, "CANCELLED")
            /\ stats' = [stats EXCEPT !["cancelled"] = @ + 1]
        BY <1>8, <2>1, CallShape DEF CancelReturn, Resumes, ApplyCancel, Bump
      <3>2. /\ stats'["cancelled"] = stats["cancelled"] + 1
            /\ \A c \in Counters \ {"cancelled"} : stats'[c] = stats[c]
        BY <3>1 DEF TypeOK
      <3>3. QED
        BY <1>1, <1>2, <3>1, <3>2 DEF StatsMatchHistory
    <2>2. CASE call[t].reply # Yes
      BY <1>3, <1>8, <2>2 DEF CancelReturn
    <2>3. QED
      BY <2>1, <2>2
  <1>9. ASSUME NEW t \in Tasks, PollReturn(t) PROVE StatsMatchHistory'
    <2> DEFINE r == call[t].reply.result
    <2>1. \/ UNCHANGED <<history, stats>>
          \/ call[t].reply.kind = "result" /\ ApplyResult(call[t].order, r)
      BY <1>9 DEF PollReturn
    <2>2. CASE call[t].reply.kind = "result" /\ ApplyResult(call[t].order, r)
      <3>1. call[t].order \in Orders
        BY <1>9, <2>2, PollAnswer
      <3>2. CASE r.status \notin ReportedStatus
        BY <1>3, <2>2, <3>2 DEF ApplyResult, Record, ReportedStatus
      <3>3. CASE r.status \in ReportedStatus
        <4>1. AddEvents(call[t].order, {r.status}, r.status)
          BY <2>2, <3>3 DEF ApplyResult, Record
        <4>2. /\ stats'["filled"] = stats["filled"] + (IF r.status = "FILLED" THEN 1 ELSE 0)
              /\ \A c \in Counters \ {"filled"} : stats'[c] = stats[c]
          BY <1>1, <2>2 DEF ApplyResult, Bump, TypeOK
        <4>3. \A e \in {"CREATED", "ACKNOWLEDGED", "REJECTED"} : e \notin {r.status}
          BY <3>3 DEF ReportedStatus
        <4> DEFINE evs == {r.status}
        <4>4. /\ "FILLED" \in evs <=> r.status = "FILLED"
              /\ \A e \in {"CREATED", "ACKNOWLEDGED", "REJECTED"} : e \notin evs
          BY <4>3
        <4>5. AddEvents(call[t].order, evs, r.status)
          BY <4>1
        <4> HIDE DEF evs, r
        <4>6. /\ stats["created"] = Recorded("CREATED")'
              /\ stats["submitted"] = Recorded("ACKNOWLEDGED")'
              /\ stats["filled"] + (IF r.status = "FILLED" THEN 1 ELSE 0) = Recorded("FILLED")'
              /\ stats["rejected"] = Recorded("REJECTED")'
              /\ stats["cancelled"] + (IF "CANCELLED" \in evs THEN 1 ELSE 0)
                   <= Recorded("CANCELLED")'
          BY <1>1, <1>2, <3>1, <4>4, <4>5
        <4>7. TypeOK' /\ Recorded("CANCELLED")' \in Int
          <5>1. "CANCELLED" \in OrderState
            BY DEF OrderState
          <5>2. QED
            BY <3>1, <4>5, <5>1, TypeStep, RecordedStep
        <4>8. QED
          BY <1>1, <4>2, <4>6, <4>7 DEF StatsMatchHistory
      <3>4. QED
        BY <3>2, <3>3
    <2>3. QED
      BY <1>3, <2>1, <2>2
  <1>10. QED
    BY <1>3, <1>4, <1>5, <1>6, <1>7, <1>8, <1>9, BrokerCalls
    DEF Next, Client, Resume, PollCall, Advance, omsVars, vars

-----------------------------------------------------------------------------
(* The OMS implements OrderTracking                                        *)

\* The refinement mapping of Tracking, by name.
SentSeq == [i \in DOMAIN book |-> book[i].order]
ReportedFills == {o \in Orders : history[o]["FILLED"] > 0}

TrackingVars == <<SentSeq, Filled, ReportedFills>>

LEMMA TrackingMapping ==
  /\ Tracking!trackingVars = TrackingVars
  /\ Tracking!SentOrders = {book[i].order : i \in DOMAIN book}
  BY DEF Tracking!trackingVars, TrackingVars, SentSeq, ReportedFills, Tracking!SentOrders

\* A change of a status in the book fills an order, or nothing that is promised.
LEMMA MoveTracks ==
  ASSUME IInv, NEW i \in DOMAIN book, NEW s \in OrderStatus, book[i].status \in LiveStatus,
         MoveTo(i, s), UNCHANGED history
  PROVE  [Tracking!Next]_(Tracking!trackingVars)
  <1> DEFINE o == book[i].order
  <1>1. /\ DOMAIN book' = DOMAIN book
        /\ \A j \in DOMAIN book : /\ book'[j].order = book[j].order
                                  /\ j # i => book'[j] = book[j]
                                  /\ j = i => book'[j].status = s
    BY MoveToType DEF IInv
  <1>2. SentSeq' = SentSeq /\ ReportedFills' = ReportedFills
    BY <1>1 DEF SentSeq, ReportedFills
  <1>3. book[i].status # "FILLED"
    BY DEF LiveStatus
  <1>4. CASE s = "FILLED"
    <2>1. o \in Orders /\ o \notin Filled
      BY <1>3, BookShape DEF Filled, IInv, PlacedAtMostOnce
    <2>2. Filled' = Filled \cup {o}
      BY <1>1, <1>3, <1>4 DEF Filled
    <2>3. o \in Tracking!SentOrders
      BY TrackingMapping
    <2>4. Tracking!Fill(o)
      BY <1>2, <2>1, <2>2, <2>3 DEF Tracking!Fill, SentSeq, ReportedFills
    <2>5. QED
      BY <2>1, <2>4 DEF Tracking!Next
  <1>5. CASE s # "FILLED"
    <2>1. Filled' = Filled
      BY <1>1, <1>3, <1>5 DEF Filled
    <2>2. QED
      BY <1>2, <2>1 DEF Tracking!trackingVars, SentSeq, ReportedFills
  <1>6. QED
    BY <1>4, <1>5

\* An order that joins the book is sent.
LEMMA AppendTracks ==
  ASSUME IInv, NEW o \in Orders, NEW s \in OrderStatus, UNCHANGED history,
         \A j \in DOMAIN book : book[j].order # o,
         book' = Append(book, [order |-> o, status |-> s])
  PROVE  Tracking!Next
  <1>1. /\ DOMAIN book' = DOMAIN book \cup {Len(book) + 1}
        /\ \A j \in DOMAIN book : book'[j] = book[j] /\ j # Len(book) + 1
        /\ book'[Len(book) + 1] = [order |-> o, status |-> s]
    BY AppendShape DEF IInv
  <1>2. Len(book) \in Nat /\ DOMAIN book = 1 .. Len(book) /\ \A j \in DOMAIN book : book[j].order \in Orders
    BY BookShape DEF IInv
  <1>3. SentSeq \in Seq(Orders) /\ Len(SentSeq) = Len(book)
    <2>1. SentSeq \in [1 .. Len(book) -> Orders]
      BY <1>2 DEF SentSeq
    <2>2. SentSeq \in Seq(Orders)
      BY <1>2, <2>1
    <2>3. QED
      BY <1>2, <2>1, <2>2, LenProperties
  <1>4. SentSeq' = Append(SentSeq, o)
    <2> DEFINE A == Append(SentSeq, o)
    <2>1. /\ A \in Seq(Orders) /\ Len(A) = Len(book) + 1 /\ DOMAIN A = 1 .. Len(book) + 1
          /\ \A j \in 1 .. Len(book) : A[j] = SentSeq[j]
          /\ A[Len(book) + 1] = o
      BY <1>3, AppendProperties, LenProperties
    <2>2. A = [j \in 1 .. Len(book) + 1 |-> A[j]]
      <3> HIDE DEF A
      <3>1. A \in [1 .. Len(book) + 1 -> Orders]
        BY <2>1, LenProperties
      <3>2. QED
        BY <3>1
    <2>3. SentSeq' = [j \in 1 .. Len(book) + 1 |-> book'[j].order]
      BY <1>1, <1>2 DEF SentSeq
    <2>4. \A j \in 1 .. Len(book) + 1 : A[j] = book'[j].order
      BY <1>1, <1>2, <2>1 DEF SentSeq
    <2>5. QED
      <3> HIDE DEF A
      <3>1. SentSeq' = A
        BY <2>2, <2>3, <2>4
      <3>2. QED
        BY <3>1 DEF A
  <1>5. Filled' \in {Filled, Filled \cup {o}}
    <2>1. CASE s = "FILLED"
      BY <1>1, <2>1 DEF Filled
    <2>2. CASE s # "FILLED"
      BY <1>1, <2>2 DEF Filled
    <2>3. QED
      BY <2>1, <2>2
  <1>6. o \notin Tracking!SentOrders
    BY TrackingMapping
  <1>7. ReportedFills' = ReportedFills
    BY DEF ReportedFills
  <1>8. Tracking!Send(o)
    BY <1>4, <1>5, <1>6, <1>7 DEF Tracking!Send, SentSeq, ReportedFills
  <1>9. QED
    BY <1>8 DEF Tracking!Next

\* A fill is reported when it is first recorded, and by then it has happened.
LEMMA RecordTracks ==
  ASSUME IInv, [Next]_vars, UNCHANGED book
  PROVE  [Tracking!Next]_(Tracking!trackingVars)
  <1>1. SentSeq' = SentSeq /\ Filled' = Filled
    BY DEF SentSeq, Filled
  <1>2. CASE UNCHANGED history
    BY <1>1, <1>2 DEF Tracking!trackingVars, SentSeq
  <1>3. ASSUME NEW o \in Orders, NEW evs \in SUBSET OrderState, NEW s \in OrderState,
               AddEvents(o, evs, s)
        PROVE  [Tracking!Next]_(Tracking!trackingVars)
    <2>1. /\ \A p \in Orders \ {o} : history'[p]["FILLED"] = history[p]["FILLED"]
          /\ history[o]["FILLED"] \in Nat
          /\ history'[o]["FILLED"] \in {history[o]["FILLED"], history[o]["FILLED"] + 1}
      BY <1>3 DEF AddEvents, IInv, TypeOK, OrderState
    <2>2. CASE history'[o]["FILLED"] = 0 \/ history[o]["FILLED"] > 0
      <3>1. ReportedFills' = ReportedFills
        BY <2>1, <2>2 DEF ReportedFills
      <3>2. QED
        BY <1>1, <3>1 DEF Tracking!trackingVars, SentSeq, ReportedFills
    <2>3. CASE history'[o]["FILLED"] # 0 /\ ~(history[o]["FILLED"] > 0)
      <3>1. ReportedFills' = ReportedFills \cup {o} /\ o \notin ReportedFills
        BY <2>1, <2>3 DEF ReportedFills
      <3>2. PICK r \in Result : Truthful(o, r) /\ r.status = "FILLED"
        BY <2>1, <2>3, FillRecorded
      <3>3. o \in Filled
        BY <3>2 DEF Truthful, Filled
      <3>4. Tracking!Report(o)
        BY <1>1, <3>1, <3>3 DEF Tracking!Report, SentSeq, ReportedFills
      <3>5. QED
        BY <3>4 DEF Tracking!Next
    <2>4. QED
      BY <2>2, <2>3
  <1>4. QED
    BY <1>2, <1>3, HistoryStep

LEMMA TrackingStep ==
  ASSUME IInv, [Next]_vars
  PROVE  [Tracking!Next]_(Tracking!trackingVars)
  <1> USE DEF IInv
  <1>1. ASSUME NEW t \in Tasks, Broker(t)
        PROVE  UNCHANGED book \/ [Tracking!Next]_(Tracking!trackingVars)
    <2>1. UNCHANGED history
      BY <1>1, BrokerCalls DEF omsVars
    <2>2. CASE BrokerAccepts(t) \/ BrokerAcceptsAnswerLost(t)
      <3>1. /\ call[t].order \in Orders
            /\ \A j \in DOMAIN book : book[j].order # call[t].order
        BY <2>2, CallShape DEF BrokerAccepts, BrokerAcceptsAnswerLost, Reaches, Idle, SubmitInv
      <3>2. \E s \in OrderStatus : book' = Append(book, [order |-> call[t].order, status |-> s])
        BY <2>2 DEF BrokerAccepts, BrokerAcceptsAnswerLost, PlaceStatus, LiveStatus, OrderStatus
      <3>3. QED
        BY <2>1, <3>1, <3>2, AppendTracks
    <2>3. CASE BrokerCancels(t)
      <3>1. brokerOrderId[call[t].order] \in DOMAIN book
        BY <2>3, CallShape DEF BrokerCancels, Reaches, CallInv, IndexFindsOrder
      <3>2. "CANCELLED" \in OrderStatus
        BY DEF OrderStatus
      <3>3. QED
        BY <2>1, <2>3, <3>1, <3>2, MoveTracks DEF BrokerCancels
    <2>4. QED
      BY <1>1, <2>2, <2>3 DEF Broker, BrokerRefuses, AdapterRaises, BrokerKeepsOrder,
         BrokerReports, BrokerReportsNothing
  <1>2. ASSUME NEW i \in DOMAIN book, Advance(i)
        PROVE  [Tracking!Next]_(Tracking!trackingVars)
    BY <1>2, MoveTracks DEF Advance, omsVars
  <1>3. QED
    BY <1>1, <1>2, RecordTracks, ClientCalls DEF Next, create_order, vars

LEMMA TrackingStart == Init => Tracking!Init
  <1>1. SUFFICES ASSUME Init PROVE Tracking!Init
    OBVIOUS
  <1>2. SentSeq = <<>>
    <2>1. SentSeq = [i \in {} |-> book[i].order]
      BY <1>1 DEF Init, SentSeq
    <2>2. QED
      BY <2>1
  <1>3. Filled = {} /\ ReportedFills = {}
    BY <1>1 DEF Init, Filled, ReportedFills, OrderState
  <1>4. QED
    BY <1>2, <1>3 DEF Tracking!Init, SentSeq, ReportedFills

-----------------------------------------------------------------------------
(* The theorems                                                            *)

LEMMA Invariance == Spec => []IInv
  <1>1. IInv /\ [Next]_vars => IInv'
    <2> SUFFICES ASSUME IInv, [Next]_vars PROVE IInv'
      OBVIOUS
    <2>1. TypeOK'
      BY TypeStep
    <2>2. PlacedAtMostOnce' /\ SubmitInv'
      BY PlacementStep
    <2>3. AnswerInv' /\ CallInv'
      BY AnswerStep, CallStep
    <2>4. IndexFindsOrder' /\ FillsAreReal'
      BY IndexStep, FillStep
    <2>5. QED
      BY <2>1, <2>2, <2>3, <2>4 DEF IInv
  <1>2. QED
    BY InitInv, <1>1, PTL DEF Spec

\* The variables keep their types: whatever a late answer brings, an order is in
\* one of the states of OrderState and its counters are natural numbers.
THEOREM TypeCorrect == Spec => []TypeOK
  <1>1. IInv => TypeOK
    BY DEF IInv
  <1>2. QED
    BY Invariance, <1>1, PTL

\* However many coroutines submit an order, the broker gets it at most once.
THEOREM SubmitsOnce == Spec => []PlacedAtMostOnce
  <1>1. IInv => PlacedAtMostOnce
    BY DEF IInv
  <1>2. QED
    BY Invariance, <1>1, PTL

\* The OMS never records a fill the broker does not have, whatever the order in
\* which answers arrive and even if the answer to the submission was lost.
THEOREM FillsHappened == Spec => []FillsAreReal
  <1>1. IInv => FillsAreReal
    BY DEF IInv
  <1>2. QED
    BY Invariance, <1>1, PTL

\* A broker id always leads back to the managed order it was given for.
THEOREM IndexIsCorrect == Spec => []IndexFindsOrder
  <1>1. IInv => IndexFindsOrder
    BY DEF IInv
  <1>2. QED
    BY Invariance, <1>1, PTL

\* No broker order is out of the OMS's reach: it is known by its id, or its submission
\* has yet to return, or its answer was lost and the caller was told REJECTED.
THEOREM NoneOrphaned == Spec => []NoOrphanedOrder
  <1>1. Init => ReachInv
    BY DEF Init, ReachInv
  <1>2. IInv /\ ReachInv /\ [Next]_vars => ReachInv'
    BY ReachStep
  <1>3. ReachInv => NoOrphanedOrder
    BY DEF ReachInv, WithinReach, NoOrphanedOrder, Submitting
  <1>4. QED
    BY Invariance, <1>1, <1>2, <1>3, PTL DEF Spec

\* Where a cancel answer means what it says, an order recorded as cancelled is one
\* that the broker holds no more live part of, whatever other answers come late.
THEOREM CancelledIsOver == Spec => []CancelIsFinal
  <1>1. Init => FinalInv
    BY DEF Init, FinalInv, SaysCancelled, Idle, OrderState
  <1>2. IInv /\ FinalInv /\ [Next]_vars => FinalInv'
    BY FinalStep
  <1>3. FinalInv => CancelIsFinal
    BY DEF FinalInv, Over, CancelIsFinal
  <1>4. QED
    BY Invariance, <1>1, <1>2, <1>3, PTL DEF Spec

\* The counters of the OMS agree with what it recorded, at every await: no interleaving
\* of calls and answers counts an event twice or misses one.
THEOREM StatsAgree ==
  ASSUME IsFiniteSet(Orders)
  PROVE  Spec => []StatsMatchHistory
  <1>1. Init => StatsMatchHistory
    <2> SUFFICES ASSUME Init PROVE StatsMatchHistory
      OBVIOUS
    <2>1. ASSUME NEW e \in OrderState PROVE Recorded(e) = 0
      <3> DEFINE f == [o \in Orders |-> history[o][e]]
      <3>1. \A o \in Orders : f[o] = 0
        BY DEF Init
      <3>2. Recorded(e) = SumFunctionOnSet(f, Orders)
        BY DEF Recorded, SumFunction
      <3> HIDE DEF f
      <3>3. QED
        BY <3>1, <3>2, SumZero
    <2>2. QED
      BY <2>1 DEF Init, StatsMatchHistory, OrderState
  <1>2. IInv /\ StatsMatchHistory /\ [Next]_vars => StatsMatchHistory'
    BY StatsStep
  <1>3. QED
    BY Invariance, <1>1, <1>2, PTL DEF Spec

\* The OMS with its broker is an OrderTracking: each order is sent once, filled
\* once, and reported filled only afterwards and for good.
THEOREM OMSImplementsTracking == Spec => ImplementsTracking
  <1>1. IInv /\ [Next]_vars => [Tracking!Next]_(Tracking!trackingVars)
    BY TrackingStep
  <1>2. QED
    BY Invariance, TrackingStart, <1>1, PTL DEF Spec, ImplementsTracking, Tracking!Spec

-----------------------------------------------------------------------------
(* The engine implements the OMS                                           *)

LEMMA EngineStepsAreOMSSteps ==
  ASSUME [EngineNext]_allVars
  PROVE  [Next]_vars
  <1>1. CASE UNCHANGED allVars
    BY <1>1 DEF allVars
  <1>2. ASSUME NEW t \in Tasks, OnSignal(t) \/ Operate(t) \/ Command(t) \/ AllCancelled(t)
        PROVE  UNCHANGED vars
    BY <1>2 DEF OnSignal, Operate, Command, Connect, Started, StartFails, Disconnect, Start, Stop,
         ResetBreaker, SwitchMode, AllCancelled
  <1>3. ASSUME NEW t \in Tasks, Handle(t)
        PROVE  [Next]_vars
    <2>1. CASE SkipAction(t) \/ AskAccount(t) \/ AskQuote(t) \/ NoQuote(t)
               \/ SignalDone(t) \/ SizingFails(t) \/ SignalFails(t)
      BY <2>1 DEF SkipAction, AskAccount, AskQuote, NoQuote, SignalDone, SizingFails, SignalFails
    <2>2. CASE CreateOrder(t) \/ SubmitOrder(t)
      BY <2>2 DEF CreateOrder, SubmitOrder, Next, Client
    <2>3. CASE OrderPlaced(t) \/ PlacingFails(t)
      BY <2>3 DEF OrderPlaced, PlacingFails, Next, Client, Resume
    <2>4. QED
      BY <1>3, <2>1, <2>2, <2>3 DEF Handle
  <1>4. ASSUME NEW t \in Tasks, CancelNext(t) \/ CancelAnswered(t)
        PROVE  [Next]_vars
    <2>1. ASSUME CancelNext(t)
          PROVE  UNCHANGED vars \/ \E o \in Orders : CancelCall(t, o)
      BY <2>1 DEF CancelNext, CancelCall, Created
    <2>2. CASE CancelAnswered(t)
      BY <2>2 DEF CancelAnswered, Next, Client, Resume
    <2>3. QED
      BY <1>4, <2>1, <2>2 DEF Next, Client
  <1>5. ASSUME NEW t \in Tasks, Poll(t)
        PROVE  [Next]_vars
    BY <1>5 DEF Poll, Next, Client, Resume
  <1>6. CASE Outside
    BY <1>6 DEF Outside, Next
  <1>7. QED
    BY <1>1, <1>2, <1>3, <1>4, <1>5, <1>6 DEF EngineNext, CancelOpen

\* Every behaviour of the engine is one of its OMS with some caller.
THEOREM EngineImplementsOMS == EngineSpec => ImplementsOMS
  <1>1. EngineInit => Init
    BY DEF EngineInit
  <1>2. [EngineNext]_allVars => [Next]_vars
    BY EngineStepsAreOMSSteps
  <1>3. QED
    BY <1>1, <1>2, PTL DEF EngineSpec, Spec, ImplementsOMS

\* However many signal handlers run at once, no order is sent twice.
THEOREM EngineSubmitsOnce == EngineSpec => []PlacedAtMostOnce
  BY EngineImplementsOMS, SubmitsOnce, PTL DEF ImplementsOMS

-----------------------------------------------------------------------------
(* The engine's own invariants                                             *)

\* An order that may still be submitted is the one, and the only one, that the
\* coroutine holding the loop has just created.
ValidatedInv ==
  \A o \in Orders : state[o] \in {"CREATED", "VALIDATED"} =>
    /\ loop # Free
    /\ at[loop] = "created"
    /\ \A p \in Orders : state[p] \in {"CREATED", "VALIDATED"} => p = o

\* A handler in the middle of an action has not processed it yet.
LeftInv ==
  \A t \in Tasks : at[t] \in {"sizing", "pricing", "created", "placing"} => left[t] > 0

EngineInv == EngineTypeOK /\ LeftInv /\ CountersAgree /\ BreakerTrips /\ ValidatedInv

USE TasksAssumption, ConfigAssumption

LEMMA EngineInitInv == EngineInit => EngineInv
  <1> SUFFICES ASSUME EngineInit PROVE EngineInv
    OBVIOUS
  <1> USE DEF EngineInit
  <1>1. EngineTypeOK
    BY DEF EngineTypeOK, Places
  <1>2. LeftInv /\ CountersAgree /\ BreakerTrips /\ ValidatedInv
    BY DEF Init, LeftInv, CountersAgree, BreakerTrips, ValidatedInv
  <1>3. QED
    BY <1>1, <1>2 DEF EngineInv

\* The open orders are orders.
LEMMA OpenType ==
  ASSUME EngineTypeOK, NEW t \in Tasks, BeginCancelling(t)
  PROVE  open' \in [Tasks -> SUBSET Orders] /\ at' \in [Tasks -> Places] /\ loop' = t
  <1>1. get_open_orders \in SUBSET Orders
    BY DEF get_open_orders
  <1>2. QED
    BY <1>1 DEF BeginCancelling, EngineTypeOK, Goto, Places

LEMMA EngineTypeStep ==
  ASSUME EngineTypeOK, LeftInv, [EngineNext]_allVars
  PROVE  EngineTypeOK' /\ LeftInv'
  <1> USE DEF EngineTypeOK, LeftInv, Places
  <1>1. CASE UNCHANGED allVars
    BY <1>1 DEF allVars, engineVars, tradingState
  <1>2. ASSUME NEW t \in Tasks, OnSignal(t)
        PROVE  EngineTypeOK' /\ LeftInv'
    BY <1>2 DEF OnSignal, Goto, tradingState
  <1>3. ASSUME NEW t \in Tasks, Handle(t)
        PROVE  EngineTypeOK' /\ LeftInv'
    <2>1. CASE SkipAction(t) \/ AskAccount(t)
      BY <2>1 DEF SkipAction, AskAccount, ActionDone, Runs, Goto, Await, tradingState
    <2>2. CASE AskQuote(t) \/ SizingFails(t) \/ PlacingFails(t)
      BY <2>2 DEF AskQuote, SizingFails, PlacingFails, Wakes, Goto, Await, tradingState
    <2>3. CASE CreateOrder(t) \/ SubmitOrder(t)
      BY <2>3 DEF CreateOrder, SubmitOrder, Wakes, Runs, Goto, Await, tradingState
    <2>4. CASE SignalDone(t)
      BY <2>4 DEF SignalDone, Await, Return
    <2>5. CASE NoQuote(t) \/ OrderPlaced(t)
      BY <2>5 DEF NoQuote, OrderPlaced, ActionDone, Wakes, Goto, tradingState
    <2>6. CASE SignalFails(t)
      <3>1. errors' \in Nat /\ left' \in [Tasks -> Nat]
        BY <2>6 DEF SignalFails
      <3>2. CASE BeginCancelling(t) /\ breaker' = TRUE
        BY <2>6, <3>1, <3>2, OpenType DEF SignalFails, BeginCancelling, Goto
      <3>3. CASE Return(t) /\ UNCHANGED <<breaker, open>>
        BY <2>6, <3>1, <3>3 DEF SignalFails, Return, Await
      <3>4. QED
        BY <2>6, <3>2, <3>3 DEF SignalFails
    <2>7. QED
      BY <1>3, <2>1, <2>2, <2>3, <2>4, <2>5, <2>6 DEF Handle
  <1>4. ASSUME NEW t \in Tasks, CancelOpen(t)
        PROVE  EngineTypeOK' /\ LeftInv'
    BY <1>4 DEF CancelOpen, CancelNext, CancelAnswered, AllCancelled, Goto, Await, Return,
         tradingState
  <1>5. ASSUME NEW t \in Tasks, Operate(t) \/ Command(t)
        PROVE  EngineTypeOK' /\ LeftInv'
    <2>1. CASE Operate(t)
      <3>1. CASE Connect(t)
        <4>1. connected' \in BOOLEAN /\ (Await(t, "opening") \/ Await(t, "idle"))
          BY <3>1 DEF Connect, Return
        <4>2. QED
          BY <3>1, <4>1 DEF Connect, Await, tradingState
      <3>2. CASE Started(t)
        BY <3>2 DEF Started, Await, Return
      <3>3. CASE StartFails(t) \/ Disconnect(t)
        BY <3>3 DEF StartFails, Disconnect, Await, Return, tradingState
      <3>4. QED
        BY <2>1, <3>1, <3>2, <3>3 DEF Operate
    <2>2. CASE Start(t)
      BY <2>2 DEF Start, Await, tradingState
    <2>3. CASE Stop(t)
      BY <2>3, OpenType DEF Stop, BeginCancelling, Goto
    <2>4. CASE ResetBreaker(t)
      BY <2>4 DEF ResetBreaker
    <2>5. CASE SwitchMode(t)
      BY <2>5 DEF SwitchMode
    <2>6. QED
      BY <1>5, <2>1, <2>2, <2>3, <2>4, <2>5 DEF Command
  <1>6. CASE Outside \/ \E t \in Tasks : Poll(t)
    BY <1>6 DEF Outside, Poll, engineVars, tradingState
  <1>7. QED
    BY <1>1, <1>2, <1>3, <1>4, <1>5, <1>6 DEF EngineNext

\* Statistics other than these two do not concern the engine's counters.
LEMMA BumpOthers ==
  ASSUME TypeOK, NEW c \in {"created", "filled", "cancelled"}
  PROVE  /\ Bump(c)["submitted"] = stats["submitted"]
         /\ Bump(c)["rejected"] = stats["rejected"]
         /\ Bump(c)["filled"] >= stats["filled"]
  BY DEF TypeOK, Bump

\* Steps that leave the engine's counters alone leave the statistics of
\* submissions and rejections alone, and count no fewer fills.
LEMMA EngineStatsStep ==
  ASSUME TypeOK, NEW t \in Tasks,
         \/ \E o \in Orders : create_order(o) \/ SubmitCall(t, o) \/ CancelCall(t, o)
                              \/ PollCall(t, o)
         \/ SubmitRaise(t) \/ CancelReturn(t) \/ PollReturn(t)
  PROVE  /\ stats'["submitted"] = stats["submitted"]
         /\ stats'["rejected"] = stats["rejected"]
         /\ stats'["filled"] >= stats["filled"]
  <1>1. stats' = stats \/ \E c \in {"created", "filled", "cancelled"} : stats' = Bump(c)
    <2>1. CASE \E o \in Orders : create_order(o) \/ SubmitCall(t, o) \/ CancelCall(t, o)
                                \/ PollCall(t, o)
      BY <2>1 DEF create_order, SubmitCall, CancelCall, PollCall, omsVars
    <2>2. CASE SubmitRaise(t)
      BY <2>2 DEF SubmitRaise
    <2>3. CASE CancelReturn(t)
      BY <2>3 DEF CancelReturn, ApplyCancel
    <2>4. CASE PollReturn(t)
      BY <2>4 DEF PollReturn, ApplyResult
    <2>5. QED
      BY <2>1, <2>2, <2>3, <2>4
  <1>2. stats["filled"] \in Nat
    BY DEF TypeOK
  <1>3. QED
    BY <1>1, <1>2, BumpOthers

LEMMA CountersStep ==
  ASSUME TypeOK, TypeOK', EngineTypeOK, CountersAgree, [EngineNext]_allVars
  PROVE  CountersAgree'
  <1>1. ASSUME UNCHANGED <<stats, counters>>
        PROVE  CountersAgree'
    BY <1>1 DEF CountersAgree
  <1>2. ASSUME NEW t \in Tasks,
               UNCHANGED counters,
               \/ \E o \in Orders : create_order(o) \/ SubmitCall(t, o) \/ CancelCall(t, o)
                                    \/ PollCall(t, o)
               \/ SubmitRaise(t) \/ CancelReturn(t) \/ PollReturn(t)
        PROVE  CountersAgree'
    <2>1. /\ stats'["submitted"] = stats["submitted"]
          /\ stats'["rejected"] = stats["rejected"]
          /\ stats'["filled"] >= stats["filled"]
      BY <1>2, EngineStatsStep
    <2>2. counters["filled"] \in Nat /\ stats["filled"] \in Nat /\ stats'["filled"] \in Nat
      BY DEF TypeOK, EngineTypeOK
    <2>3. QED
      BY <1>2, <2>1, <2>2 DEF CountersAgree
  <1>3. CASE UNCHANGED allVars \/ Outside
    <2>1. UNCHANGED <<stats, counters>>
      BY <1>3 DEF allVars, vars, omsVars, engineVars, tradingState, Outside, Broker, Advance,
           BrokerAccepts, BrokerRefuses, BrokerAcceptsAnswerLost, AdapterRaises, BrokerCancels,
           BrokerKeepsOrder, BrokerReports, BrokerReportsNothing
    <2>2. QED
      BY <1>1, <2>1
  <1>4. ASSUME NEW t \in Tasks, OnSignal(t) \/ Operate(t) \/ Command(t) \/ AllCancelled(t)
        PROVE  UNCHANGED <<stats, counters>>
    BY <1>4 DEF OnSignal, Operate, Command, Connect, Started, StartFails, Disconnect, Start, Stop,
         ResetBreaker, SwitchMode, AllCancelled, vars, omsVars, tradingState
  <1>5. ASSUME NEW t \in Tasks, Handle(t)
        PROVE  CountersAgree'
    <2>1. CASE SkipAction(t) \/ AskAccount(t) \/ AskQuote(t) \/ NoQuote(t)
               \/ SignalDone(t) \/ SizingFails(t) \/ SignalFails(t)
      <3>1. UNCHANGED <<stats, counters>>
        BY <2>1 DEF SkipAction, AskAccount, AskQuote, NoQuote, SignalDone, SizingFails,
             SignalFails, vars, omsVars, tradingState
      <3>2. QED
        BY <1>1, <3>1
    <2>2. CASE CreateOrder(t) \/ SubmitOrder(t) \/ PlacingFails(t)
      BY <1>2, <2>2 DEF CreateOrder, SubmitOrder, PlacingFails, tradingState
    <2>3. CASE OrderPlaced(t)
      <3> DEFINE status == call[t].reply.result.status
      <3>1. /\ stats' = [stats EXCEPT
                           !["submitted"] = @ + 1,
                           !["filled"] = IF status = "FILLED" THEN @ + 1 ELSE @,
                           !["rejected"] = IF status = "REJECTED" THEN @ + 1 ELSE @]
            /\ counters' = [counters EXCEPT
                              !["submitted"] = @ + 1,
                              !["filled"] = IF status = "FILLED" THEN @ + 1 ELSE @,
                              !["rejected"] = IF status = "REJECTED" THEN @ + 1 ELSE @]
        BY <2>3 DEF OrderPlaced, SubmitReturn
      <3> HIDE DEF status
      <3>2. QED
        BY <3>1 DEF CountersAgree, TypeOK, EngineTypeOK
    <2>4. QED
      BY <1>5, <2>1, <2>2, <2>3 DEF Handle
  <1>6. ASSUME NEW t \in Tasks, CancelNext(t) \/ CancelAnswered(t) \/ Poll(t)
        PROVE  CountersAgree'
    <2>1. UNCHANGED counters
      BY <1>6 DEF CancelNext, CancelAnswered, Poll, engineVars, tradingState
    <2>2. \/ UNCHANGED vars
          \/ \E o \in Orders : CancelCall(t, o) \/ PollCall(t, o)
          \/ CancelReturn(t) \/ PollReturn(t)
      BY <1>6 DEF CancelNext, CancelAnswered, Poll, CancelCall, Created
    <2>3. QED
      BY <1>1, <1>2, <2>1, <2>2 DEF vars, omsVars
  <1>7. QED
    BY <1>1, <1>3, <1>4, <1>5, <1>6 DEF EngineNext, CancelOpen

LEMMA BreakerStep ==
  ASSUME EngineTypeOK, BreakerTrips, [EngineNext]_allVars
  PROVE  BreakerTrips'
  <1>1. ASSUME UNCHANGED <<errors, breaker>>
        PROVE  BreakerTrips'
    BY <1>1 DEF BreakerTrips
  <1>2. ASSUME errors' = 0
        PROVE  BreakerTrips'
    BY <1>2 DEF BreakerTrips
  <1>3. CASE UNCHANGED allVars \/ Outside \/ \E t \in Tasks : Poll(t)
    BY <1>1, <1>3 DEF allVars, engineVars, tradingState, Outside, Poll
  <1>4. ASSUME NEW t \in Tasks, OnSignal(t) \/ Operate(t) \/ Command(t) \/ CancelOpen(t)
        PROVE  UNCHANGED <<errors, breaker>> \/ errors' = 0
    BY <1>4 DEF OnSignal, Operate, Command, Connect, Started, StartFails, Disconnect, Start, Stop,
         ResetBreaker, SwitchMode, CancelOpen, CancelNext, CancelAnswered, AllCancelled,
         tradingState
  <1>5. ASSUME NEW t \in Tasks, Handle(t), ~SignalFails(t)
        PROVE  UNCHANGED <<errors, breaker>> \/ errors' = 0
    BY <1>5 DEF Handle, SkipAction, AskAccount, AskQuote, NoQuote, CreateOrder, SubmitOrder,
         OrderPlaced, SignalDone, SizingFails, PlacingFails, tradingState
  <1>6. ASSUME NEW t \in Tasks, SignalFails(t)
        PROVE  BreakerTrips'
    BY <1>6 DEF SignalFails, BreakerTrips, EngineTypeOK
  <1>7. QED
    BY <1>1, <1>2, <1>3, <1>4, <1>5, <1>6 DEF EngineNext

\* An order that submit_order would take.
Early(o) == state[o] \in {"CREATED", "VALIDATED"}

\* Only create_order brings an order into a state from which it can be submitted.
LEMMA NoNewEarly ==
  ASSUME TypeOK, NEW t \in Tasks, NEW p \in Orders, Early(p)',
         \/ \E o \in Orders : SubmitCall(t, o) \/ CancelCall(t, o) \/ PollCall(t, o)
         \/ SubmitReturn(t) \/ SubmitRaise(t) \/ CancelReturn(t) \/ PollReturn(t)
  PROVE  Early(p) /\ \A o \in Orders : SubmitCall(t, o) => o # p
  <1> USE DEF Early, TypeOK
  <1>0. ASSUME NEW o, NEW evs, NEW s, s \notin {"CREATED", "VALIDATED"}, AddEvents(o, evs, s)
        PROVE  Early(p) /\ o # p
    BY <1>0 DEF AddEvents
  <1>1. ASSUME NEW o \in Orders, SubmitCall(t, o)
        PROVE  Early(p) /\ o # p
    BY <1>0, <1>1 DEF SubmitCall
  <1>2. ASSUME NEW o \in Orders, ~SubmitCall(t, o), CancelCall(t, o) \/ PollCall(t, o)
        PROVE  Early(p)
    BY <1>0, <1>2 DEF CancelCall, PollCall, omsVars
  <1>3. CASE SubmitReturn(t)
    <2>1. Settled(call[t].reply.result.status) \notin {"CREATED", "VALIDATED"}
      BY DEF Settled
    <2>2. Early(p)
      BY <1>0, <1>3, <2>1 DEF SubmitReturn
    <2>3. QED
      BY <1>1, <2>2
  <1>4. CASE SubmitRaise(t)
    <2>1. AddEvents(call[t].order, {"ERROR"}, "ERROR")
      BY <1>4 DEF SubmitRaise
    <2>2. Early(p)
      <3>1. "ERROR" \notin {"CREATED", "VALIDATED"}
        OBVIOUS
      <3>2. QED
        BY <1>0, <2>1, <3>1, Zenon
    <2>3. QED
      BY <1>1, <2>2
  <1>5. CASE CancelReturn(t)
    <2>1. UNCHANGED state \/ \E o : AddEvents(o, {"CANCELLED"}, "CANCELLED")
      BY <1>5 DEF CancelReturn, ApplyCancel, Record
    <2>2. QED
      BY <1>0, <1>1, <2>1
  <1>6. CASE PollReturn(t)
    <2>1. UNCHANGED state \/ \E o, s : s \in ReportedStatus /\ AddEvents(o, {s}, s)
      BY <1>6 DEF PollReturn, ApplyResult, Record
    <2>2. QED
      BY <1>0, <1>1, <2>1 DEF ReportedStatus
  <1>7. QED
    BY <1>1, <1>2, <1>3, <1>4, <1>5, <1>6

LEMMA ValidatedStep ==
  ASSUME TypeOK, EngineTypeOK, ValidatedInv, [EngineNext]_allVars
  PROVE  ValidatedInv'
  <1>1. ASSUME loop = Free \/ at[loop] # "created"
        PROVE  \A o \in Orders : ~Early(o)
    BY <1>1 DEF ValidatedInv, Early
  <1>2. ASSUME \A o \in Orders : ~Early(o)'
        PROVE  ValidatedInv'
    BY <1>2 DEF ValidatedInv, Early
  <1>3. ASSUME NEW t \in Tasks, loop = Free \/ at[loop] # "created",
               \/ UNCHANGED state
               \/ \E o \in Orders : SubmitCall(t, o) \/ CancelCall(t, o) \/ PollCall(t, o)
               \/ SubmitReturn(t) \/ SubmitRaise(t) \/ CancelReturn(t) \/ PollReturn(t)
        PROVE  ValidatedInv'
    <2>1. ASSUME UNCHANGED state
          PROVE  \A o \in Orders : ~Early(o)'
      BY <1>1, <1>3, <2>1 DEF Early
    <2>2. QED
      BY <1>1, <1>2, <1>3, <2>1, NoNewEarly
  <1>4. CASE UNCHANGED allVars \/ Outside
    <2>1. UNCHANGED <<state, loop, at>>
      BY <1>4 DEF allVars, vars, omsVars, engineVars, tradingState, Outside, Broker, Advance,
           BrokerAccepts, BrokerRefuses, BrokerAcceptsAnswerLost, AdapterRaises, BrokerCancels,
           BrokerKeepsOrder, BrokerReports, BrokerReportsNothing
    <2>2. QED
      BY <2>1 DEF ValidatedInv
  <1>5. ASSUME NEW t \in Tasks, OnSignal(t) \/ Operate(t) \/ Command(t) \/ AllCancelled(t)
        PROVE  ValidatedInv'
    <2>1. UNCHANGED state
      BY <1>5 DEF OnSignal, Operate, Command, Connect, Started, StartFails, Disconnect, Start,
           Stop, ResetBreaker, SwitchMode, AllCancelled, vars, omsVars
    <2>2. loop = Free \/ at[loop] # "created"
      BY <1>5 DEF OnSignal, Operate, Command, Connect, Started, StartFails, Disconnect, Start,
           Stop, ResetBreaker, SwitchMode, AllCancelled, Wakes, Runs
    <2>3. QED
      BY <1>3, <2>1, <2>2
  <1>6. ASSUME NEW t \in Tasks, CancelNext(t) \/ CancelAnswered(t) \/ Poll(t)
        PROVE  ValidatedInv'
    <2>1. loop = Free \/ at[loop] # "created"
      BY <1>6 DEF CancelNext, CancelAnswered, Poll, Wakes, Runs
    <2>2. \/ UNCHANGED vars
          \/ \E o \in Orders : CancelCall(t, o) \/ PollCall(t, o)
          \/ CancelReturn(t) \/ PollReturn(t)
      BY <1>6 DEF CancelNext, CancelAnswered, Poll, CancelCall, Created
    <2>3. QED
      BY <1>3, <2>1, <2>2 DEF vars, omsVars
  <1>7. ASSUME NEW t \in Tasks, Handle(t)
        PROVE  ValidatedInv'
    <2>1. CASE SkipAction(t) \/ AskAccount(t) \/ AskQuote(t) \/ NoQuote(t)
               \/ SignalDone(t) \/ SizingFails(t) \/ SignalFails(t)
      <3>1. UNCHANGED state
        BY <2>1 DEF SkipAction, AskAccount, AskQuote, NoQuote, SignalDone, SizingFails,
             SignalFails, vars, omsVars
      <3>2. loop = Free \/ at[loop] # "created"
        BY <2>1 DEF SkipAction, AskAccount, AskQuote, NoQuote, SignalDone, SizingFails,
             SignalFails, Wakes, Runs
      <3>3. QED
        BY <1>3, <3>1, <3>2
    <2>2. CASE OrderPlaced(t) \/ PlacingFails(t)
      <3>1. loop = Free /\ (SubmitReturn(t) \/ SubmitRaise(t))
        BY <2>2 DEF OrderPlaced, PlacingFails, Wakes
      <3>2. QED
        BY <1>3, <3>1
    <2>3. CASE CreateOrder(t)
      <3>1. PICK o \in Orders : create_order(o)
        BY <2>3 DEF CreateOrder
      <3>2. \A p \in Orders : p # o => ~Early(p)'
        BY <1>1, <2>3, <3>1 DEF CreateOrder, Wakes, create_order, AddEvents, Early, TypeOK
      <3>3. loop' = t /\ t # Free /\ at'[t] = "created"
        BY <2>3 DEF CreateOrder, Goto, EngineTypeOK
      <3>4. QED
        BY <3>2, <3>3 DEF ValidatedInv, Early
    <2>4. CASE SubmitOrder(t)
      <3>1. PICK o \in Orders : SubmitCall(t, o)
        BY <2>4 DEF SubmitOrder
      <3>2. Early(o)
        BY <3>1 DEF SubmitCall, Early
      <3>3. \A p \in Orders : Early(p) => p = o
        BY <3>2 DEF ValidatedInv, Early
      <3>4. QED
        BY <1>2, <3>1, <3>3, NoNewEarly
    <2>5. QED
      BY <1>7, <2>1, <2>2, <2>3, <2>4 DEF Handle
  <1>8. QED
    BY <1>4, <1>5, <1>6, <1>7 DEF EngineNext, CancelOpen

LEMMA EngineInvariance == EngineSpec => []EngineInv
  <1>1. EngineInit => EngineInv
    BY EngineInitInv
  <1>2. TypeOK /\ TypeOK' /\ EngineInv /\ [EngineNext]_allVars => EngineInv'
    BY EngineTypeStep, CountersStep, BreakerStep, ValidatedStep DEF EngineInv
  <1>3. EngineSpec => []TypeOK
    BY EngineImplementsOMS, TypeCorrect, PTL DEF ImplementsOMS
  <1>4. QED
    BY <1>1, <1>2, <1>3, PTL DEF EngineSpec

\* Every reachable state is well typed: in particular a handler never goes past the
\* last action of its signal, and the loops that cancel hold orders.
THEOREM EngineTypeCorrect == EngineSpec => []EngineTypeOK
  <1>1. EngineInv => EngineTypeOK
    BY DEF EngineInv
  <1>2. QED
    BY EngineInvariance, <1>1, PTL

\* The engine's counters and its OMS's statistics never drift apart, in particular
\* not when a signal fails half-way through its actions.
THEOREM CountersNeverDrift == EngineSpec => []CountersAgree
  <1>1. EngineInv => CountersAgree
    BY DEF EngineInv
  <1>2. QED
    BY EngineInvariance, <1>1, PTL

\* Whatever handlers fail at once, no failure is lost to the circuit breaker.
THEOREM BreakerAlwaysTrips == EngineSpec => []BreakerTrips
  <1>1. EngineInv => BreakerTrips
    BY DEF EngineInv
  <1>2. QED
    BY EngineInvariance, <1>1, PTL

\* No coroutine ever runs between the creation of an order and its submission.
THEOREM NoneForgotten == EngineSpec => []NoOrderForgotten
  <1>1. EngineInv => NoOrderForgotten
    BY DEF EngineInv, ValidatedInv, NoOrderForgotten
  <1>2. QED
    BY EngineInvariance, <1>1, PTL
=============================================================================
