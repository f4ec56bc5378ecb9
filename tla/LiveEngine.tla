----------------------------- MODULE LiveEngine -----------------------------
(***************************************************************************)
(* The live trading engine (src/ist/execution/live.py) on top of its order *)
(* management system.                                                      *)
(*                                                                         *)
(* A coroutine that has not reached an await holds the event loop; every   *)
(* action says what a stretch of the code does and whether the coroutine   *)
(* keeps the loop or suspends.  Brokers and markets need no loop.  Signals *)
(* are handled by _on_signal, started as a coroutine of its own for each   *)
(* signal; operators start and stop the engine; pollers call               *)
(* update_order_status on its OMS.                                         *)
(*                                                                         *)
(* Every order is for a symbol of its own.                                 *)
(***************************************************************************)
EXTENDS OMS

CONSTANTS
  Handlers,       \* coroutines that run _on_signal
  Operators,      \* coroutines that start, stop, reset and switch the engine
  Pollers,        \* coroutines that poll orders
  Free,           \* no coroutine holds the event loop
  Modes,          \* trading modes
  Threshold,      \* circuit_breaker_threshold
  BreakerEnabled, \* circuit_breaker_enabled
  MaxPositions,   \* max_positions
  MaxActions      \* bound: actions in one signal

ASSUME TasksAssumption ==
  /\ Tasks = Handlers \cup Operators \cup Pollers
  /\ Handlers \cap Operators = {} /\ Pollers \cap (Handlers \cup Operators) = {}
  /\ Free \notin Tasks
ASSUME ConfigAssumption ==
  /\ Modes # {} /\ BreakerEnabled \in BOOLEAN
  /\ Threshold \in Nat \ {0} /\ MaxPositions \in Nat /\ MaxActions \in Nat

VARIABLES
  is_running, mode, breaker, errors, counters, \* TradingState
  connected,  \* broker.is_connected
  loop,       \* the coroutine that holds the event loop
  at,         \* how far each coroutine is
  left,       \* the actions of its signal a handler has not processed
  open        \* the orders a coroutine has yet to cancel

tradingState == <<is_running, mode, breaker, errors, counters>>
engineVars == <<tradingState, connected, loop, at, left, open>>
allVars == <<vars, engineVars>>

Places == {"idle", "signal", "sizing", "pricing", "created", "placing", "failed",
           "cancelling", "connecting", "opening", "disconnecting"}

EngineTypeOK ==
  /\ is_running \in BOOLEAN /\ mode \in Modes /\ breaker \in BOOLEAN
  /\ errors \in Nat
  /\ counters \in [{"submitted", "filled", "rejected"} -> Nat]
  /\ connected \in BOOLEAN
  /\ loop \in Tasks \cup {Free}
  /\ at \in [Tasks -> Places]
  /\ left \in [Tasks -> Nat]
  /\ open \in [Tasks -> SUBSET Orders]

Runs(t, place) == loop = t /\ at[t] = place       \* t has not suspended
Wakes(t, place) == loop = Free /\ at[t] = place   \* t may resume, or begin
Goto(t, place) == at' = [at EXCEPT ![t] = place] /\ loop' = t
Await(t, place) == at' = [at EXCEPT ![t] = place] /\ loop' = Free
Return(t) == Await(t, "idle")

-----------------------------------------------------------------------------
(* _on_signal and _process_action                                          *)

\* Signals are ignored while the engine is stopped or the breaker is triggered.
OnSignal(t) ==
  /\ t \in Handlers
  /\ Wakes(t, "idle")
  /\ is_running /\ ~breaker
  /\ \E n \in 1..MaxActions : left' = [left EXCEPT ![t] = n]
  /\ Goto(t, "signal")
  /\ UNCHANGED <<vars, tradingState, connected, open>>

ActionDone(t) == left' = [left EXCEPT ![t] = @ - 1] /\ Goto(t, "signal")

\* _check_risk_limits: nothing writes _positions or daily_pnl, so the limits on
\* them compare with the empty dictionary and with 0.
RiskAllows == MaxPositions > 0

\* No symbol, no size, or too large a size for _check_risk_limits.
SkipAction(t) ==
  /\ Runs(t, "signal")
  /\ left[t] > 0
  /\ ActionDone(t)
  /\ UNCHANGED <<vars, tradingState, connected, open>>

AskAccount(t) ==
  /\ Runs(t, "signal")
  /\ left[t] > 0
  /\ RiskAllows
  /\ Await(t, "sizing")
  /\ UNCHANGED <<vars, tradingState, connected, left, open>>

AskQuote(t) ==
  /\ Wakes(t, "sizing")
  /\ Await(t, "pricing")
  /\ UNCHANGED <<vars, tradingState, connected, left, open>>

NoQuote(t) ==
  /\ Wakes(t, "pricing")
  /\ ActionDone(t)
  /\ UNCHANGED <<vars, tradingState, connected, open>>

\* Mutant: an await between create_order and submit_order.
CreateOrder_Awaits(t) ==
  /\ Wakes(t, "pricing")
  /\ \E o \in Orders : create_order(o)
  /\ Await(t, "created")
  /\ UNCHANGED <<tradingState, connected, left, open>>

CreateOrder(t) ==
  /\ Wakes(t, "pricing")
  /\ \E o \in Orders : create_order(o)
  /\ Goto(t, "created")
  /\ UNCHANGED <<tradingState, connected, left, open>>

\* The only order in a state submit_order takes is the one just created.
SubmitOrder(t) ==
  /\ Runs(t, "created")
  /\ \E o \in Orders : SubmitCall(t, o)
  /\ Await(t, "placing")
  /\ UNCHANGED <<tradingState, connected, left, open>>

\* Mutant: a refused order does not count as submitted.
OrderPlaced_RefusalNotSubmitted(t) ==
  LET status == call[t].reply.result.status IN
  /\ Wakes(t, "placing")
  /\ SubmitReturn(t)
  /\ counters' = IF status = "REJECTED"
                   THEN [counters EXCEPT !["rejected"] = @ + 1]
                   ELSE [counters EXCEPT !["submitted"] = @ + 1,
                           !["filled"] = IF status = "FILLED" THEN @ + 1 ELSE @]
  /\ ActionDone(t)
  /\ UNCHANGED <<is_running, mode, breaker, errors, connected, open>>

OrderPlaced(t) ==
  LET status == call[t].reply.result.status IN
  /\ Wakes(t, "placing")
  /\ SubmitReturn(t)
  /\ counters' = [counters EXCEPT
                    !["submitted"] = @ + 1,
                    !["filled"] = IF status = "FILLED" THEN @ + 1 ELSE @,
                    !["rejected"] = IF status = "REJECTED" THEN @ + 1 ELSE @]
  /\ ActionDone(t)
  /\ UNCHANGED <<is_running, mode, breaker, errors, connected, open>>

SignalDone(t) ==
  /\ Runs(t, "signal")
  /\ left[t] = 0
  /\ errors' = 0
  /\ Return(t)
  /\ UNCHANGED <<vars, is_running, mode, breaker, counters, connected, left, open>>

\* The adapter raised, the price was zero, or the quantity was not positive.
SizingFails(t) ==
  /\ Wakes(t, "sizing") \/ Wakes(t, "pricing")
  /\ Goto(t, "failed")
  /\ UNCHANGED <<vars, tradingState, connected, left, open>>

PlacingFails(t) ==
  /\ Wakes(t, "placing")
  /\ SubmitRaise(t)
  /\ Goto(t, "failed")
  /\ UNCHANGED <<tradingState, connected, left, open>>

\* for order in get_open_orders(): the list is taken once, before the first cancel.
BeginCancelling(t) ==
  /\ open' = [open EXCEPT ![t] = get_open_orders]
  /\ Goto(t, "cancelling")

\* Mutant: the breaker writes its orders off instead of asking for cancellation.
SignalFails_WritesOff(t) ==
  /\ Runs(t, "failed")
  /\ errors' = errors + 1
  /\ left' = [left EXCEPT ![t] = 0]
  /\ IF BreakerEnabled /\ errors + 1 >= Threshold
       THEN /\ breaker' = TRUE
            /\ state' = [o \in Orders |->
                            IF o \in get_open_orders THEN "CANCELLED" ELSE state[o]]
       ELSE UNCHANGED <<breaker, state>>
  /\ Return(t)
  /\ UNCHANGED <<history, brokerOrderId, result, completed, index, stats, call, book>>
  /\ UNCHANGED <<is_running, mode, counters, connected, open>>

\* The except clause of _on_signal.
SignalFails(t) ==
  /\ Runs(t, "failed")
  /\ errors' = errors + 1
  /\ left' = [left EXCEPT ![t] = 0]
  /\ IF BreakerEnabled /\ errors + 1 >= Threshold
       THEN breaker' = TRUE /\ BeginCancelling(t)
       ELSE Return(t) /\ UNCHANGED <<breaker, open>>
  /\ UNCHANGED <<vars, is_running, mode, counters, connected>>

-----------------------------------------------------------------------------
(* Cancelling the open orders, by the circuit breaker and by stop          *)

\* Mutant: the orders are listed anew before each cancel.
CancelNext_KeepsOrder(t) ==
  /\ Runs(t, "cancelling")
  /\ \E o \in open[t] :
       \/ /\ state[o] \in {"FILLED", "CANCELLED", "REJECTED"}
          /\ UNCHANGED <<vars, loop>>
       \/ /\ CancelCall(t, o)
          /\ loop' = IF brokerOrderId[o] # NoId THEN Free ELSE t
  /\ UNCHANGED <<tradingState, connected, at, left, open>>

CancelNext(t) ==
  /\ Runs(t, "cancelling")
  /\ \E o \in open[t] :
       /\ open' = [open EXCEPT ![t] = @ \ {o}]
       /\ \/ /\ state[o] \in {"FILLED", "CANCELLED", "REJECTED"}
             /\ UNCHANGED <<vars, loop>>
          \/ /\ CancelCall(t, o)
             /\ loop' = IF brokerOrderId[o] # NoId THEN Free ELSE t
  /\ UNCHANGED <<tradingState, connected, at, left>>

\* An exception out of the adapter ends the loop, and stop with it.
CancelAnswered(t) ==
  /\ Wakes(t, "cancelling")
  /\ CancelReturn(t)
  /\ IF call[t].reply = Raised
       THEN Return(t) /\ open' = [open EXCEPT ![t] = {}]
       ELSE Goto(t, "cancelling") /\ UNCHANGED open
  /\ UNCHANGED <<tradingState, connected, left>>

AllCancelled(t) ==
  /\ Runs(t, "cancelling")
  /\ open[t] = {}
  /\ IF t \in Operators /\ connected THEN Await(t, "disconnecting") ELSE Return(t)
  /\ UNCHANGED <<vars, tradingState, connected, left, open>>

-----------------------------------------------------------------------------
(* start, stop, reset_circuit_breaker, switch_mode                         *)

Start(t) ==
  /\ t \in Operators
  /\ Wakes(t, "idle")
  /\ Await(t, IF connected THEN "opening" ELSE "connecting")
  /\ UNCHANGED <<vars, tradingState, connected, left, open>>

Connect(t) ==
  /\ Wakes(t, "connecting")
  /\ \/ connected' = TRUE /\ Await(t, "opening")
     \/ UNCHANGED connected /\ Return(t)
  /\ UNCHANGED <<vars, tradingState, left, open>>

Started(t) ==
  /\ Wakes(t, "opening")
  /\ is_running' = TRUE /\ breaker' = FALSE /\ errors' = 0
  /\ Return(t)
  /\ UNCHANGED <<vars, mode, counters, connected, left, open>>

StartFails(t) ==
  /\ Wakes(t, "opening")
  /\ Return(t)
  /\ UNCHANGED <<vars, tradingState, connected, left, open>>

Stop(t) ==
  /\ t \in Operators
  /\ Wakes(t, "idle")
  /\ is_running' = FALSE
  /\ BeginCancelling(t)
  /\ UNCHANGED <<vars, mode, breaker, errors, counters, connected, left>>

Disconnect(t) ==
  /\ Wakes(t, "disconnecting")
  /\ connected' = FALSE
  /\ Return(t)
  /\ UNCHANGED <<vars, tradingState, left, open>>

\* Mutant: a reset keeps the error count.
ResetBreaker_KeepsErrors(t) ==
  /\ t \in Operators
  /\ Wakes(t, "idle")
  /\ breaker' = FALSE
  /\ UNCHANGED <<vars, is_running, mode, errors, counters>>
  /\ UNCHANGED <<connected, loop, at, left, open>>

ResetBreaker(t) ==
  /\ t \in Operators
  /\ Wakes(t, "idle")
  /\ breaker' = FALSE /\ errors' = 0
  /\ UNCHANGED <<vars, is_running, mode, counters, connected, loop, at, left, open>>

SwitchMode(t) ==
  /\ t \in Operators
  /\ Wakes(t, "idle")
  /\ ~is_running
  /\ mode' \in Modes
  /\ UNCHANGED <<vars, is_running, breaker, errors, counters, connected, loop, at, left, open>>

-----------------------------------------------------------------------------
Poll(t) ==
  /\ t \in Pollers
  /\ loop = Free
  /\ PollReturn(t) \/ \E o \in Orders : PollCall(t, o)
  /\ UNCHANGED engineVars

EngineInit ==
  /\ Init
  /\ is_running = FALSE /\ mode \in Modes /\ breaker = FALSE /\ errors = 0
  /\ counters = [c \in {"submitted", "filled", "rejected"} |-> 0]
  /\ connected = FALSE
  /\ loop = Free
  /\ at = [t \in Tasks |-> "idle"]
  /\ left = [t \in Tasks |-> 0]
  /\ open = [t \in Tasks |-> {}]

Handle(t) ==
  \/ SkipAction(t) \/ AskAccount(t) \/ AskQuote(t) \/ NoQuote(t)
  \/ CreateOrder(t) \/ SubmitOrder(t) \/ OrderPlaced(t) \/ SignalDone(t)
  \/ SizingFails(t) \/ PlacingFails(t) \/ SignalFails(t)

CancelOpen(t) == CancelNext(t) \/ CancelAnswered(t) \/ AllCancelled(t)

Operate(t) == Connect(t) \/ Started(t) \/ StartFails(t) \/ Disconnect(t)

Command(t) == Start(t) \/ Stop(t) \/ ResetBreaker(t) \/ SwitchMode(t)

Outside ==
  /\ (\E t \in Tasks : Broker(t)) \/ (\E i \in DOMAIN book : Advance(i))
  /\ UNCHANGED engineVars

EngineNext ==
  \/ \E t \in Tasks :
       OnSignal(t) \/ Handle(t) \/ CancelOpen(t) \/ Operate(t) \/ Command(t) \/ Poll(t)
  \/ Outside

EngineSpec == EngineInit /\ [][EngineNext]_allVars

\* The event loop resumes coroutines in the order in which they become ready, so a
\* coroutine that can go on time and again does; brokers answer every request.
EngineFairness ==
  \A t \in Handlers \cup Operators :
    /\ SF_allVars(Handle(t) \/ CancelOpen(t) \/ Operate(t))
    /\ WF_allVars(Broker(t) /\ UNCHANGED engineVars)

-----------------------------------------------------------------------------
(* Properties                                                              *)

\* The engine uses its OMS as the OMS allows: whatever holds of OMS holds here.
ImplementsOMS == Spec

\* The engine's own counters and its OMS's statistics agree at every await, in
\* failed signals too; only polls count fills that the engine does not.
CountersAgree ==
  /\ counters["submitted"] = stats["submitted"]
  /\ counters["rejected"] = stats["rejected"]
  /\ counters["filled"] <= stats["filled"]

\* While the breaker is enabled, Threshold errors without a success, a reset or a
\* start in between have triggered it, however the handlers that fail interleave.
BreakerTrips == BreakerEnabled /\ errors >= Threshold => breaker

\* A created order is submitted before any other coroutine runs: none is left
\* behind validated, which nothing would ever submit or cancel.
NoOrderForgotten == loop = Free => \A o \in Orders : state[o] # "VALIDATED"

\* Every signal handler, start and stop comes to an end, whatever brokers answer.
CoroutinesEnd == \A t \in Tasks : at[t] # "idle" ~> at[t] = "idle"
=============================================================================
