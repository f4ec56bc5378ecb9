-------------------------- MODULE StrategyExecutor --------------------------
(***************************************************************************)
(* The strategy executor (src/ist/strategy/executor.py) on its event bus.  *)
(*                                                                         *)
(* The handlers of the executor's own events run in the middle of its      *)
(* loops over its strategies, and may add, remove, start and stop          *)
(* strategies there.  The two dictionaries of the executor have the same   *)
(* keys in the same order: place is where a strategy is in both, 0 if it   *)
(* is in neither.  The graphs are those of StrategyGraph; an execution of  *)
(* one raises or yields a number of actions.                               *)
(***************************************************************************)
EXTENDS EventBus

CONSTANTS
  Strategies,  \* strategy ids
  OnBarClose,  \* the executor's own handler
  MaxActions,  \* bound: actions of one execution
  MaxSlots,    \* bound: places in the dictionaries
  MaxCount,    \* bound: actions that a strategy generates between resets
  UsedTypes    \* bound: the types of events that other parts subscribe to

\* The bus has a list of handlers for every type of EventType.
ASSUME ExecutorAssumption ==
  /\ OnBarClose \in Handlers
  /\ UsedTypes \cup {"BAR_CLOSE", "SIGNAL_GENERATED", "STRATEGY_STARTED", "STRATEGY_STOPPED"}
       \subseteq EventTypes
  /\ IsFiniteSet(Strategies)
  /\ MaxActions \in Nat /\ MaxSlots \in Nat /\ MaxCount \in Nat

VARIABLES
  place,      \* _strategies and _strategy_states: the place of each id
  active,     \* the ids whose state is active
  generated,  \* total_actions_generated
  signalled   \* remembered: the actions in the signals since the id was added or reset

executorVars == <<place, active, generated, signalled>>
allVars == <<busVars, executorVars>>

Present == {s \in Strategies : place[s] # 0}
\* A new key comes after every key there is.  The dictionaries do not use a place
\* twice, so it also comes after every place that a loop has reached.
Taken == {place[s] : s \in Strategies}
         \cup {stack[i].cursor : i \in {j \in DOMAIN stack : stack[j].op = "loop"}}
LastPlace == CHOOSE p \in Taken : \A q \in Taken : q <= p

Forgets(s) ==
  stack' = [i \in DOMAIN stack |->
              IF stack[i].op = "loop"
                THEN [stack[i] EXCEPT !.owed = @ \ {s}, !.done = @ \ {s}]
                ELSE stack[i]]

-----------------------------------------------------------------------------
(* The strategies                                                          *)

\* Mutant: a strategy that is there already keeps its counts.
add_strategy_KeepsCounts(s) ==
  /\ Outside
  /\ IF s \in Present THEN UNCHANGED place
     ELSE LastPlace < MaxSlots /\ place' = [place EXCEPT ![s] = LastPlace + 1]
  /\ active' = active \ {s}
  /\ signalled' = [signalled EXCEPT ![s] = 0]
  /\ Forgets(s)
  /\ UNCHANGED <<handlers, generated>>

\* An invalid graph raises before anything is stored.  A new graph for an id that
\* is there takes its place.
add_strategy(s) ==
  /\ Outside
  /\ IF s \in Present THEN UNCHANGED place
     ELSE LastPlace < MaxSlots /\ place' = [place EXCEPT ![s] = LastPlace + 1]
  /\ active' = active \ {s}
  /\ generated' = [generated EXCEPT ![s] = 0]
  /\ signalled' = [signalled EXCEPT ![s] = 0]
  /\ Forgets(s)
  /\ UNCHANGED handlers

remove_strategy(s) ==
  /\ Outside
  /\ s \in Present
  /\ place' = [place EXCEPT ![s] = 0]
  /\ active' = active \ {s}
  /\ generated' = [generated EXCEPT ![s] = 0]
  /\ signalled' = [signalled EXCEPT ![s] = 0]
  /\ Forgets(s)
  /\ UNCHANGED handlers

start_strategy(s) ==
  /\ Outside
  /\ s \in Present
  /\ Len(stack) < MaxDepth
  /\ active' = active \cup {s}
  /\ stack' = Append(stack, Emit("STRATEGY_STARTED"))
  /\ UNCHANGED <<handlers, place, generated, signalled>>

stop_strategy(s) ==
  /\ Outside
  /\ s \in Present
  /\ Len(stack) < MaxDepth
  /\ active' = active \ {s}
  /\ stack' = Append([i \in DOMAIN stack |->
                        IF stack[i].op = "loop"
                          THEN [stack[i] EXCEPT !.owed = @ \ {s}] ELSE stack[i]],
                     Emit("STRATEGY_STOPPED"))
  /\ UNCHANGED <<handlers, place, generated, signalled>>

reset ==
  /\ Outside
  /\ generated' = [s \in Strategies |-> 0]
  /\ signalled' = [s \in Strategies |-> 0]
  /\ UNCHANGED <<busVars, place, active>>

-----------------------------------------------------------------------------
(* Executing                                                               *)

\* A loop over a dictionary: cursor is the place it has reached, size the number of
\* keys when it began and left how many it may still visit.  owed and done are what
\* the model remembers: the ids active since it began that it has yet to execute,
\* and those it executed, as long as they are not removed, replaced or stopped.
Begin == [op |-> "loop", cursor |-> 0, size |-> Cardinality(Present),
          left |-> Cardinality(Present), owed |-> active, done |-> {}]

\* execute_strategy of an id that is there and active, called with the frames
\* below on the stack.  A graph that raises gives a result without success; the
\* counts are written before the signal is emitted.
Executes(s, below) ==
  \/ stack' = below /\ UNCHANGED <<generated, signalled>>
  \/ \E n \in 1..MaxActions :
       /\ generated[s] + n <= MaxCount
       /\ Len(below) < MaxDepth
       /\ generated' = [generated EXCEPT ![s] = @ + n]
       /\ signalled' = [signalled EXCEPT ![s] = @ + n]
       /\ stack' = Append(below, Emit("SIGNAL_GENERATED"))

execute_strategy(s) ==
  /\ Outside
  /\ s \in active
  /\ Executes(s, stack)
  /\ UNCHANGED <<handlers, place, active>>

execute_all ==
  /\ Outside
  /\ Len(stack) < MaxDepth
  /\ stack' = Append(stack, Begin)
  /\ UNCHANGED <<handlers, executorVars>>

\* Python's iterator over a dictionary raises when the number of keys has changed,
\* and when it comes to more keys than there were.
Ahead(f) == {s \in Present : place[s] > f.cursor}
Changed(f) == Cardinality(Present) # f.size \/ (Ahead(f) # {} /\ f.left = 0)
Following(f) == CHOOSE s \in Ahead(f) : \A r \in Ahead(f) : place[s] <= place[r]

InLoop == stack # <<>> /\ Top.op = "loop"

\* Mutant: a strategy that is not active ends the loop.
ExecuteNext_ReturnsAtInactive ==
  /\ InLoop /\ ~Changed(Top) /\ Ahead(Top) # {}
  /\ LET s == Following(Top)
         f == [Top EXCEPT !.cursor = place[s], !.left = @ - 1]
     IN  IF s \in active
           THEN Executes(s, TopBecomes(<<[f EXCEPT !.owed = @ \ {s}, !.done = @ \cup {s}]>>))
           ELSE /\ stack' = TopBecomes(<<[f EXCEPT !.cursor = MaxSlots]>>)
                /\ UNCHANGED <<generated, signalled>>
  /\ UNCHANGED <<handlers, place, active>>

\* One round of the loop of _on_bar_close and of execute_all.
ExecuteNext ==
  /\ InLoop /\ ~Changed(Top) /\ Ahead(Top) # {}
  /\ LET s == Following(Top)
         f == [Top EXCEPT !.cursor = place[s], !.left = @ - 1]
     IN  IF s \in active
           THEN Executes(s, TopBecomes(<<[f EXCEPT !.owed = @ \ {s}, !.done = @ \cup {s}]>>))
           ELSE stack' = TopBecomes(<<f>>) /\ UNCHANGED <<generated, signalled>>
  /\ UNCHANGED <<handlers, place, active>>

LoopEnds ==
  /\ InLoop /\ ~Changed(Top) /\ Ahead(Top) = {}
  /\ stack' = TopBecomes(<<>>)
  /\ UNCHANGED <<handlers, executorVars>>

\* The emission that called _on_bar_close goes on; the caller of execute_all gets
\* the exception instead of the results.
LoopRaises ==
  /\ InLoop /\ Changed(Top)
  /\ stack' = TopBecomes(<<>>)
  /\ UNCHANGED <<handlers, executorVars>>

-----------------------------------------------------------------------------
ExecutorInit ==
  /\ handlers = [t \in EventTypes |->
       IF t = "BAR_CLOSE" THEN {[handler |-> OnBarClose, place |-> 1]} ELSE {}]
  /\ stack = <<>>
  /\ place = [s \in Strategies |-> 0]
  /\ active = {}
  /\ generated = [s \in Strategies |-> 0]
  /\ signalled = [s \in Strategies |-> 0]

Bus ==
  /\ \/ \E t \in UsedTypes : \E h \in Handlers \ {OnBarClose} :
          subscribe(t, h) \/ unsubscribe(t, h)
     \/ emit("BAR_CLOSE")
     \/ \E h \in Handlers \ {OnBarClose} : Call(h, <<[op |-> "handler"]>>)
     \/ Call(OnBarClose, <<Begin>>)
     \/ Delivered
     \/ HandlerEnds
  /\ UNCHANGED executorVars

ExecutorNext ==
  \/ Bus
  \/ \E s \in Strategies :
       \/ add_strategy(s) \/ remove_strategy(s) \/ start_strategy(s) \/ stop_strategy(s)
       \/ execute_strategy(s)
  \/ reset \/ execute_all \/ ExecuteNext \/ LoopEnds \/ LoopRaises

ExecutorSpec == ExecutorInit /\ [][ExecutorNext]_allVars

-----------------------------------------------------------------------------
(* Properties                                                              *)

\* "Execute all active strategies": a loop that comes to its end has executed every
\* strategy that was active all along, and none twice, whatever the handlers of the
\* signals did.  (A loop that raises has not: the strategies after it miss the bar.)
EachOncePerBar ==
  InLoop /\ ~Changed(Top) =>
    IF Ahead(Top) = {} THEN Top.owed = {} ELSE Following(Top) \notin Top.done

\* Whatever handlers of its signals do to a strategy, only one that is there is active,
\* and what its status counts is what was signalled since it was added or the executor
\* reset.
CountsMatchSignals ==
  /\ active \subseteq Present
  /\ \A s \in Strategies : generated[s] = signalled[s]
=============================================================================
