------------------------------ MODULE EventBus ------------------------------
(***************************************************************************)
(* The event bus (src/ist/core/events.py).                                 *)
(*                                                                         *)
(* Delivery is a call: emit calls the handlers one after the other, and a  *)
(* handler may subscribe, unsubscribe and emit before it returns.  The     *)
(* variable stack is what the Python call stack holds of this, innermost   *)
(* last.  subscribe changes the list of handlers in place, unsubscribe     *)
(* puts a new list into its place; an emission walks the list it found     *)
(* when it began, so it is live as long as that list has not been          *)
(* replaced.  A list is a set of subscriptions, each with its place.       *)
(*                                                                         *)
(* Handlers belong to other parts: while one runs it may do anything that  *)
(* code outside a handler may do.  Whether it returns or raises makes no   *)
(* difference to emit, which catches what it raises.                       *)
(***************************************************************************)
EXTENDS Naturals, Sequences, FiniteSets, TLC

CONSTANTS
  EventTypes,  \* the types of events
  Handlers,    \* the handlers
  MaxPlaces,   \* bound: places in a list of handlers
  MaxDepth     \* bound: calls on the stack

ASSUME BusAssumption == MaxPlaces \in Nat \ {0} /\ MaxDepth \in Nat

VARIABLES
  handlers,  \* _handlers
  stack      \* the calls under way

busVars == <<handlers, stack>>

\* A subscription is a handler and its place.  A frame is a handler that runs, or an
\* emission: its type, whether its list is the live one, else the list it keeps, the
\* place it has reached, and what the model remembers as owed, the handlers that were
\* subscribed when it began, have not been unsubscribed since, and have not been called.
Top == stack[Len(stack)]
\* The stack with its top frame replaced by the frames fs.
TopBecomes(fs) == SubSeq(stack, 1, Len(stack) - 1) \o fs
\* Code of other parts runs: a handler, or what is called from outside.
Outside == stack # <<>> => Top.op = "handler"

Last(list) == IF list = {} THEN 0
              ELSE CHOOSE p \in {e.place : e \in list} : \A e \in list : e.place <= p

subscribe(t, h) ==
  /\ Outside
  /\ Last(handlers[t]) < MaxPlaces
  /\ handlers' = [handlers EXCEPT
                    ![t] = @ \cup {[handler |-> h, place |-> Last(@) + 1]}]
  /\ UNCHANGED stack

\* The emissions of type t, which h no longer counts for, keep the old list.
Detached(f, t, h) ==
  IF f.op = "emit" /\ f.type = t
    THEN [f EXCEPT !.live = FALSE, !.list = IF f.live THEN handlers[t] ELSE @,
                   !.owed = @ \ {h}]
    ELSE f

\* Mutant: the handler is removed from the list itself, and what is behind it moves up.
unsubscribe_InPlace(t, h) ==
  LET gone == {e.place : e \in {d \in handlers[t] : d.handler = h}}
      Before(e) == Cardinality({p \in gone : p < e.place})
  IN
  /\ Outside
  /\ handlers' = [handlers EXCEPT
       ![t] = {[e EXCEPT !.place = @ - Before(e)] : e \in {d \in @ : d.handler # h}}]
  /\ stack' = [i \in DOMAIN stack |->
                 IF stack[i].op = "emit" /\ stack[i].type = t
                   THEN [stack[i] EXCEPT !.owed = @ \ {h}] ELSE stack[i]]

unsubscribe(t, h) ==
  /\ Outside
  /\ handlers' = [handlers EXCEPT ![t] = {e \in @ : e.handler # h}]
  /\ stack' = [i \in DOMAIN stack |-> Detached(stack[i], t, h)]

Emit(t) == [op |-> "emit", type |-> t, live |-> TRUE, list |-> {}, cursor |-> 0,
            owed |-> {e.handler : e \in handlers[t]}]

emit(t) ==
  /\ Outside
  /\ Len(stack) < MaxDepth
  /\ stack' = Append(stack, Emit(t))
  /\ UNCHANGED handlers

Remaining(f) ==
  {e \in IF f.live THEN handlers[f.type] ELSE f.list : e.place > f.cursor}
NextOf(f) == CHOOSE e \in Remaining(f) : \A d \in Remaining(f) : e.place <= d.place

\* The next handler is called; frames is what its call puts on the stack.
Call(h, frames) ==
  /\ stack # <<>> /\ Top.op = "emit" /\ Remaining(Top) # {}
  /\ NextOf(Top).handler = h
  /\ Len(stack) < MaxDepth
  /\ stack' = TopBecomes(<<[Top EXCEPT !.cursor = NextOf(Top).place, !.owed = @ \ {h}]>>
                           \o frames)
  /\ UNCHANGED handlers

Delivered ==
  /\ stack # <<>> /\ Top.op = "emit" /\ Remaining(Top) = {}
  /\ stack' = TopBecomes(<<>>)
  /\ UNCHANGED handlers

HandlerEnds ==
  /\ stack # <<>> /\ Top.op = "handler"
  /\ stack' = TopBecomes(<<>>)
  /\ UNCHANGED handlers

-----------------------------------------------------------------------------
(* Properties                                                              *)

\* Handlers that come and go while an event is delivered never make another one
\* miss it: an emission that ends has called every handler that was subscribed
\* when it began and stayed so.
NobodyMisses ==
  stack # <<>> /\ Top.op = "emit" /\ Remaining(Top) = {} => Top.owed = {}
=============================================================================
