---------------------------- MODULE MCLiveEnds -----------------------------
(* Instances of LiveEngine for TLC in which everything ends.  A behaviour  *)
(* is either that of the engine or that of its OMS used alone, by callers  *)
(* that submit, cancel and keep polling (alone); the engine then stays as  *)
(* it was constructed, the loop never being free to begin a coroutine of   *)
(* its own.                                                                *)
EXTENDS LiveEngine, TLC

alone == loop = "callers"

CallersInit ==
  /\ Init
  /\ is_running = FALSE /\ mode \in Modes /\ breaker = FALSE /\ errors = 0
  /\ counters = [c \in {"submitted", "filled", "rejected"} |-> 0]
  /\ connected = FALSE
  /\ alone
  /\ at = [t \in Tasks |-> "idle"]
  /\ left = [t \in Tasks |-> 0]
  /\ open = [t \in Tasks |-> {}]

\* A step of the OMS without the engine.
Alone(A) == alone /\ A /\ UNCHANGED engineVars

\* Two coroutines are enough to have an answer overtaken by a newer one.
CallersNext == Next /\ \A t \in Operators : call'[t] = Idle

EndsInit == EngineInit \/ CallersInit
EndsNext == EngineNext \/ Alone(CallersNext)

\* The event loop resumes every coroutine whose await is over, the broker answers
\* every request, and the caller keeps polling every order it has placed.
CallersFairness ==
  /\ \A t \in Handlers \cup Pollers :
       WF_allVars(Alone(Resume(t))) /\ WF_allVars(Alone(Broker(t)))
  /\ \A o \in Orders :
       SF_allVars(Alone(Polled(o))) /\ SF_allVars(Alone(Reported(o)))

EndsSpec ==
  EndsInit /\ [][EndsNext]_allVars /\ EngineFairness /\ CallersFairness

\* A caller of the OMS alone that keeps polling learns of every fill for good:
\* update_order_status answers that come late may set an order back to an older
\* state, but not for ever.
FillsAreLearnt == alone => FillIsLearnt
=============================================================================
