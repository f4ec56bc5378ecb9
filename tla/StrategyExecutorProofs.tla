----------------------- MODULE StrategyExecutorProofs -----------------------
(***************************************************************************)
(* The counts of the executor are right for any strategies, handlers and   *)
(* depth of calls.  What is on the stack does not matter for that: every   *)
(* step changes the counts together.                                       *)
(***************************************************************************)
EXTENDS StrategyExecutor, FiniteSums, SequenceTheorems

\* What is inductive: besides the counts, that the functions are functions of the ids.
CountsInv ==
  /\ DOMAIN place = Strategies
  /\ DOMAIN generated = Strategies
  /\ signalled = generated
  /\ active \subseteq Present

\* Nothing has been executed at the start.
LEMMA CountsInit == ExecutorInit => CountsInv
  BY DEF ExecutorInit, CountsInv, Present

\* An execution adds the same to both counts (execute_strategy).
LEMMA ExecutesCounts ==
  ASSUME CountsInv, NEW s \in active, NEW below, Executes(s, below)
  PROVE  DOMAIN generated' = Strategies /\ signalled' = generated'
<1>1. CASE UNCHANGED <<generated, signalled>>
  BY <1>1 DEF CountsInv
<1>2. CASE \E n \in 1..MaxActions :
             /\ generated' = [generated EXCEPT ![s] = @ + n]
             /\ signalled' = [signalled EXCEPT ![s] = @ + n]
  BY <1>2 DEF CountsInv
<1> QED BY <1>1, <1>2 DEF Executes

\* Adding, replacing and removing a strategy starts its counts anew; it is not active.
LEMMA StrategyCounts ==
  ASSUME CountsInv, NEW s \in Strategies, add_strategy(s) \/ remove_strategy(s)
  PROVE  CountsInv'
<1>1. CASE add_strategy(s)
  <2>1. CASE s \in Present /\ UNCHANGED place
    BY <1>1, <2>1 DEF add_strategy, CountsInv, Present
  <2>2. CASE s \notin Present /\ place' = [place EXCEPT ![s] = LastPlace + 1]
    <3>1. \A r \in active : r # s /\ place'[r] = place[r] /\ r \in Present
      BY <2>2 DEF CountsInv, Present
    <3> QED BY <1>1, <2>2, <3>1 DEF add_strategy, CountsInv, Present
  <2> QED BY <1>1, <2>1, <2>2 DEF add_strategy
<1>2. CASE remove_strategy(s)
  BY <1>2 DEF remove_strategy, CountsInv, Present
<1> QED BY <1>1, <1>2

\* One round of a loop over the strategies.
LEMMA RoundCounts ==
  ASSUME CountsInv, ExecuteNext
  PROVE  CountsInv'
<1> DEFINE s == Following(Top)
           f == [Top EXCEPT !.cursor = place[s], !.left = @ - 1]
           below == TopBecomes(<<[f EXCEPT !.owed = @ \ {s}, !.done = @ \cup {s}]>>)
<1>1. CASE s \in active /\ Executes(s, below)
  <2> HIDE DEF s, below
  <2>1. DOMAIN generated' = Strategies /\ signalled' = generated'
    BY <1>1, ExecutesCounts
  <2>2. UNCHANGED <<place, active>>
    BY DEF ExecuteNext
  <2> QED BY <2>1, <2>2 DEF CountsInv, Present
<1>2. CASE UNCHANGED <<generated, signalled>>
  BY <1>2 DEF ExecuteNext, CountsInv, Present
<1> QED BY <1>1, <1>2 DEF ExecuteNext

\* Every step keeps the invariant.
LEMMA CountsStep == CountsInv /\ [ExecutorNext]_allVars => CountsInv'
<1> SUFFICES ASSUME CountsInv, [ExecutorNext]_allVars PROVE CountsInv'
  OBVIOUS
<1>1. CASE UNCHANGED allVars
  BY <1>1 DEF allVars, executorVars, CountsInv, Present
<1>2. CASE Bus
  BY <1>2 DEF Bus, executorVars, CountsInv, Present
<1>3. ASSUME NEW s \in Strategies, add_strategy(s) \/ remove_strategy(s) PROVE CountsInv'
  BY <1>3, StrategyCounts
<1>4. ASSUME NEW s \in Strategies, start_strategy(s) PROVE CountsInv'
  BY <1>4 DEF start_strategy, CountsInv, Present
<1>5. ASSUME NEW s \in Strategies, stop_strategy(s) PROVE CountsInv'
  BY <1>5 DEF stop_strategy, CountsInv, Present
<1>6. ASSUME NEW s \in Strategies, execute_strategy(s) PROVE CountsInv'
  <2>1. DOMAIN generated' = Strategies /\ signalled' = generated'
    BY <1>6, ExecutesCounts DEF execute_strategy
  <2> QED BY <1>6, <2>1 DEF execute_strategy, CountsInv, Present
<1>7. CASE reset
  BY <1>7 DEF reset, CountsInv, Present
<1>8. CASE execute_all \/ LoopEnds \/ LoopRaises
  BY <1>8 DEF execute_all, LoopEnds, LoopRaises, executorVars, CountsInv, Present
<1>9. CASE ExecuteNext
  BY <1>9, RoundCounts
<1> QED BY <1>1, <1>2, <1>3, <1>4, <1>5, <1>6, <1>7, <1>8, <1>9 DEF ExecutorNext

\* The counts of a strategy are those of its signals, and only a strategy that is there
\* is active, whatever the handlers do (add_strategy, remove_strategy, reset,
\* execute_strategy and the loops).
THEOREM CountsAreOfSignals == ExecutorSpec => []CountsMatchSignals
<1>1. CountsInv => CountsMatchSignals
  BY DEF CountsInv, CountsMatchSignals
<1> QED BY <1>1, CountsInit, CountsStep, PTL DEF ExecutorSpec

-----------------------------------------------------------------------------
(* Frames of the call stack                                                *)

Subscription == [handler : Handlers, place : 1..MaxPlaces]
\* No place of a list is used twice.
Lists == {l \in SUBSET Subscription : \A d, e \in l : d.place = e.place => d = e}

HandlerFrame == [op : {"handler"}]
EmitFrame ==
  [op : {"emit"}, type : EventTypes, live : BOOLEAN, list : Lists, cursor : Nat,
   owed : SUBSET Handlers]
LoopFrame ==
  [op : {"loop"}, cursor : 0..MaxSlots, size : Nat, left : Int,
   owed : SUBSET Strategies, done : SUBSET Strategies]
Frame == HandlerFrame \cup EmitFrame \cup LoopFrame

\* The list an emission walks.
Walked(f) == IF f.live THEN handlers[f.type] ELSE f.list

\* Every handler that an emission owes its call is still ahead in its list.
Owes(f) == \A h \in f.owed : \E e \in Walked(f) : e.handler = h /\ e.place > f.cursor

\* Every strategy that a loop owes its execution is active and ahead, and those it
\* executed are behind.
Fits(f) ==
  /\ f.owed \subseteq active
  /\ \A s \in f.owed : place[s] > f.cursor
  /\ \A s \in f.done : place[s] <= f.cursor

Good(f) == (f.op = "emit" => Owes(f)) /\ (f.op = "loop" => Fits(f))

Frames(s) == {s[i] : i \in DOMAIN s}

CallsInv ==
  /\ handlers \in [EventTypes -> Lists]
  /\ place \in [Strategies -> 0..MaxSlots]
  /\ active \subseteq Present
  /\ \A r, s \in Present : place[r] = place[s] => r = s
  /\ stack \in Seq(Frame)
  /\ \A f \in Frames(stack) : Good(f)

USE BusAssumption, ExecutorAssumption

LEMMA FrameOps ==
  ASSUME NEW f \in Frame
  PROVE  /\ f.op \in {"handler", "emit", "loop"}
         /\ f.op = "emit" => f \in EmitFrame
         /\ f.op = "loop" => f \in LoopFrame
  BY DEF Frame, HandlerFrame, EmitFrame, LoopFrame

LEMMA AppendFrames ==
  ASSUME NEW s \in Seq(Frame), NEW e \in Frame
  PROVE  /\ Append(s, e) \in Seq(Frame)
         /\ Frames(Append(s, e)) = Frames(s) \cup {e}
<1>1. /\ Append(s, e) \in Seq(Frame) /\ DOMAIN Append(s, e) = 1..Len(s) + 1
      /\ \A i \in 1..Len(s) : Append(s, e)[i] = s[i]
      /\ Append(s, e)[Len(s) + 1] = e
  BY AppendProperties, LenProperties
<1>2. DOMAIN s = 1..Len(s) /\ Len(s) \in Nat
  BY LenProperties
<1> DEFINE a == Append(s, e)
<1>3. DOMAIN a = DOMAIN s \cup {Len(s) + 1} /\ a[Len(s) + 1] = e /\ \A i \in DOMAIN s : a[i] = s[i]
  BY <1>1, <1>2
<1> HIDE DEF a
<1>4. Frames(a) = Frames(s) \cup {e}
  BY <1>3 DEF Frames
<1> QED BY <1>1, <1>4 DEF a

LEMMA ConcatFrames ==
  ASSUME NEW s \in Seq(Frame), NEW r \in Seq(Frame)
  PROVE  s \o r \in Seq(Frame) /\ Frames(s \o r) \subseteq Frames(s) \cup Frames(r)
<1> DEFINE c == s \o r
<1>1. /\ c \in Seq(Frame) /\ Len(c) = Len(s) + Len(r)
      /\ \A i \in 1..Len(s) + Len(r) : c[i] = IF i <= Len(s) THEN s[i] ELSE r[i - Len(s)]
  BY ConcatProperties
<1>2. /\ Len(s) \in Nat /\ Len(r) \in Nat /\ DOMAIN s = 1..Len(s) /\ DOMAIN r = 1..Len(r)
      /\ DOMAIN c = 1..Len(c)
  BY <1>1, LenProperties
<1> HIDE DEF c
<1>3. ASSUME NEW i \in DOMAIN c PROVE c[i] \in Frames(s) \cup Frames(r)
  <2>1. CASE i <= Len(s)
    BY <1>1, <1>2, <2>1 DEF Frames
  <2>2. CASE ~(i <= Len(s))
    <3>1. i - Len(s) \in DOMAIN r /\ c[i] = r[i - Len(s)]
      BY <1>1, <1>2, <2>2
    <3> QED BY <3>1 DEF Frames
  <2> QED BY <2>1, <2>2
<1>4. Frames(c) \subseteq Frames(s) \cup Frames(r)
  BY <1>3 DEF Frames
<1> QED BY <1>1, <1>4 DEF c

LEMMA OneFrame ==
  ASSUME NEW e \in Frame
  PROVE  <<e>> \in Seq(Frame) /\ Frames(<<e>>) = {e}
  BY DEF Frames

LEMMA NoFrame == <<>> \in Seq(Frame) /\ Frames(<<>>) = {}
  BY DEF Frames

\* Replacing the top frame brings no frames but the new ones.
LEMMA TopFrames ==
  ASSUME stack \in Seq(Frame), stack # <<>>, NEW fs \in Seq(Frame)
  PROVE  /\ Top \in Frames(stack) /\ Top \in Frame
         /\ TopBecomes(fs) \in Seq(Frame)
         /\ Frames(TopBecomes(fs)) \subseteq Frames(stack) \cup Frames(fs)
<1>1. Len(stack) \in Nat \ {0} /\ DOMAIN stack = 1..Len(stack)
  BY EmptySeq, LenProperties
<1>2. Top \in Frames(stack) /\ Top \in Frame
  BY <1>1 DEF Top, Frames
<1> DEFINE b == SubSeq(stack, 1, Len(stack) - 1)
<1>3. b \in Seq(Frame) /\ Frames(b) \subseteq Frames(stack)
  <2>1. /\ b \in Seq(Frame) /\ Len(b) = Len(stack) - 1
        /\ \A i \in 1..Len(stack) - 1 : b[i] = stack[i]
    BY <1>1, SubSeqProperties
  <2>2. DOMAIN b = 1..Len(stack) - 1
    BY <2>1, LenProperties
  <2> HIDE DEF b
  <2> QED BY <1>1, <2>1, <2>2 DEF Frames
<1> HIDE DEF b
<1>4. b \o fs \in Seq(Frame) /\ Frames(b \o fs) \subseteq Frames(b) \cup Frames(fs)
  BY <1>3, ConcatFrames
<1> QED BY <1>2, <1>3, <1>4 DEF TopBecomes, b

\* Frames may be changed one by one.
LEMMA MapFrames ==
  ASSUME stack \in Seq(Frame), NEW s, s = [i \in DOMAIN stack |-> s[i]],
         \A i \in DOMAIN stack : s[i] \in Frame
  PROVE  s \in Seq(Frame) /\ \A f \in Frames(s) : \E i \in DOMAIN stack : f = s[i]
<1>1. Len(stack) \in Nat /\ DOMAIN stack = 1..Len(stack)
  BY LenProperties
<1>2. s \in [1..Len(stack) -> Frame]
  BY <1>1
<1>3. s \in Seq(Frame)
  BY <1>1, <1>2
<1> QED BY <1>3 DEF Frames

-----------------------------------------------------------------------------
(* Nobody misses an event, and no strategy a bar                           *)

LEMMA CallsStart == ExecutorInit => CallsInv
<1> SUFFICES ASSUME ExecutorInit PROVE CallsInv
  OBVIOUS
<1>1. handlers \in [EventTypes -> Lists]
  BY DEF ExecutorInit, Lists, Subscription
<1>2. stack \in Seq(Frame) /\ Frames(stack) = {}
  BY NoFrame DEF ExecutorInit
<1>3. place \in [Strategies -> 0..MaxSlots] /\ active = {} /\ Present = {}
  BY DEF ExecutorInit, Present
<1> QED BY <1>1, <1>2, <1>3 DEF CallsInv

LEMMA EmitStays ==
  ASSUME NEW f \in EmitFrame, Owes(f), \A t \in EventTypes : handlers[t] \subseteq handlers'[t]
  PROVE  Owes(f)'
BY DEF EmitFrame, Owes, Walked

LEMMA LoopStays ==
  ASSUME NEW f, Fits(f), UNCHANGED <<place, active>>
  PROVE  Fits(f)'
BY DEF Fits

\* Where nothing but the stack changes, the frames that stay are as good as they were.
LEMMA FramesStay ==
  ASSUME CallsInv, UNCHANGED <<handlers, place, active>>,
         stack' \in Seq(Frame), \A f \in Frames(stack') \ Frames(stack) : Good(f)'
  PROVE  CallsInv'
<1>1. ASSUME NEW f \in Frames(stack) PROVE Good(f)'
  BY <1>1 DEF CallsInv, Good, Owes, Walked, Fits
<1>2. \A f \in Frames(stack') : Good(f)'
  BY <1>1
<1>3. Frames(stack)' = Frames(stack')
  BY DEF Frames
<1> QED BY <1>2, <1>3 DEF CallsInv, Present

\* Every list has a last place.
LEMMA LastIs ==
  ASSUME NEW l \in Lists
  PROVE  Last(l) \in 0..MaxPlaces /\ \A e \in l : e.place <= Last(l)
<1>1. CASE l = {}
  BY <1>1 DEF Last
<1>2. CASE l # {}
  <2> DEFINE P == {e.place : e \in l}
  <2>1. P \subseteq 1..MaxPlaces /\ P # {}
    BY <1>2 DEF Lists, Subscription
  <2>2. \E m \in P : \A k \in P : k <= m
    <3>1. P \subseteq Nat /\ \A k \in P : k <= MaxPlaces
      BY <2>1
    <3> HIDE DEF P
    <3> QED BY <2>1, <3>1, GreatestNat
  <2>3. \E p \in P : \A e \in l : e.place <= p
    BY <2>2
  <2>4. Last(l) \in P /\ \A e \in l : e.place <= Last(l)
    BY <1>2, <2>3 DEF Last
  <2> QED BY <2>1, <2>4
<1> QED BY <1>1, <1>2

\* A handler subscribes behind all there are (subscribe).
LEMMA SubscribeCalls ==
  ASSUME CallsInv, NEW t \in EventTypes, NEW h \in Handlers, subscribe(t, h), UNCHANGED executorVars
  PROVE  CallsInv'
<1> DEFINE l == handlers[t]
           e == [handler |-> h, place |-> Last(l) + 1]
<1>1. l \in Lists /\ Last(l) < MaxPlaces
  BY DEF CallsInv, subscribe
<1>2. l \cup {e} \in Lists
  <2>1. Last(l) \in 0..MaxPlaces /\ \A d \in l : d.place <= Last(l)
    BY <1>1, LastIs
  <2>2. e \in Subscription /\ \A d \in l : d.place # e.place /\ d.place \in Nat
    BY <1>1, <2>1 DEF Subscription, Lists
  <2> HIDE DEF e, l
  <2> QED BY <1>1, <2>2 DEF Lists
<1>3. handlers' = [handlers EXCEPT ![t] = l \cup {e}]
  BY DEF subscribe
<1>4. handlers' \in [EventTypes -> Lists] /\ \A u \in EventTypes : handlers[u] \subseteq handlers'[u]
  <2> HIDE DEF e
  <2> QED BY <1>2, <1>3 DEF CallsInv
<1>5. ASSUME NEW f \in Frames(stack) PROVE Good(f)'
  <2>1. f \in Frame /\ Good(f)
    BY <1>5 DEF CallsInv, Frames
  <2>2. f.op = "emit" => Owes(f)'
    BY <1>4, <2>1, FrameOps, EmitStays DEF Good
  <2>3. f.op = "loop" => Fits(f)'
    BY <2>1, LoopStays DEF Good, executorVars
  <2> QED BY <2>2, <2>3 DEF Good
<1> QED BY <1>4, <1>5 DEF CallsInv, subscribe, executorVars, Present, Frames

\* Emissions under way keep the list they walk (unsubscribe).
LEMMA UnsubscribeCalls ==
  ASSUME CallsInv, NEW t \in EventTypes, NEW h \in Handlers, unsubscribe(t, h), UNCHANGED executorVars
  PROVE  CallsInv'
<1>1. /\ handlers' = [handlers EXCEPT ![t] = {e \in @ : e.handler # h}]
      /\ stack' = [i \in DOMAIN stack |-> Detached(stack[i], t, h)]
  BY DEF unsubscribe
<1>2. handlers' \in [EventTypes -> Lists] /\ \A u \in EventTypes \ {t} : handlers'[u] = handlers[u]
  BY <1>1 DEF CallsInv, Lists
<1>3. ASSUME NEW f \in Frame, Good(f), f.op = "emit", f.type = t
      PROVE  \E g \in Frame : g = Detached(f, t, h) /\ Good(g)'
  <2>1. f \in EmitFrame
    BY <1>3, FrameOps
  <2>2. PICK w \in Lists : w = Walked(f)
    BY <2>1 DEF EmitFrame, Walked, CallsInv
  <2>3. PICK g : g = Detached(f, t, h)
    OBVIOUS
  <2>4. g = [f EXCEPT !.live = FALSE, !.list = w, !.owed = f.owed \ {h}]
    BY <1>3, <2>2, <2>3 DEF Detached, Walked
  <2>5. g \in EmitFrame
    BY <2>1, <2>4 DEF EmitFrame
  <2>6. ~g.live /\ g.list = w /\ g.cursor = f.cursor /\ g.owed \subseteq f.owed /\ g.op = "emit"
    BY <2>1, <2>4 DEF EmitFrame
  <2>7. \A u \in f.owed : \E e \in w : e.handler = u /\ e.place > f.cursor
    BY <1>3, <2>2 DEF Good, Owes
  <2>8. Good(g)'
    BY <2>6, <2>7 DEF Good, Owes, Walked
  <2> QED BY <2>3, <2>5, <2>8 DEF Frame
<1>4. ASSUME NEW f \in Frame, Good(f), ~(f.op = "emit" /\ f.type = t)
      PROVE  Detached(f, t, h) = f /\ Good(f)'
  <2>1. Detached(f, t, h) = f
    BY <1>4 DEF Detached
  <2>2. f.op = "emit" => Owes(f)'
    <3>1. SUFFICES ASSUME f.op = "emit" PROVE Owes(f)'
      OBVIOUS
    <3>2. f \in EmitFrame /\ f.type \in EventTypes \ {t}
      BY <1>4, <3>1, FrameOps DEF EmitFrame
    <3>3. handlers'[f.type] = handlers[f.type]
      BY <1>2, <3>2
    <3> QED BY <1>4, <3>1, <3>3 DEF Good, Owes, Walked
  <2>3. f.op = "loop" => Fits(f)'
    BY <1>4, LoopStays DEF Good, executorVars
  <2> QED BY <2>1, <2>2, <2>3 DEF Good
<1>5. ASSUME NEW i \in DOMAIN stack
      PROVE  \E g \in Frame : g = stack'[i] /\ Good(g)'
  <2>1. PICK f \in Frame : f = stack[i] /\ Good(f)
    BY ElementOfSeq, LenProperties DEF CallsInv, Frames
  <2>2. stack'[i] = Detached(f, t, h)
    BY <1>1, <2>1
  <2>3. PICK g \in Frame : g = Detached(f, t, h) /\ Good(g)'
    BY <1>3, <1>4, <2>1
  <2> QED BY <2>2, <2>3
<1>6. stack' \in Seq(Frame) /\ \A f \in Frames(stack') : \E i \in DOMAIN stack : f = stack'[i]
  <2>1. stack' = [i \in DOMAIN stack |-> stack'[i]] /\ \A i \in DOMAIN stack : stack'[i] \in Frame
    BY <1>1, <1>5
  <2> QED BY <2>1, MapFrames DEF CallsInv
<1>7. ASSUME NEW f \in Frames(stack') PROVE Good(f)'
  <2>1. PICK i \in DOMAIN stack : f = stack'[i]
    BY <1>6
  <2>2. PICK g \in Frame : g = stack'[i] /\ Good(g)'
    BY <1>5
  <2>3. f = g
    BY <2>1, <2>2
  <2> QED BY <2>2, <2>3
<1>8. Frames(stack)' = Frames(stack')
  BY DEF Frames
<1> QED BY <1>2, <1>6, <1>7, <1>8 DEF CallsInv, executorVars, Present

\* An emission owes each handler of its list one call; a loop each active strategy.
LEMMA EmitFits ==
  ASSUME CallsInv, NEW t \in EventTypes
  PROVE  \E e \in Frame : e = Emit(t) /\ Good(e)
<1> DEFINE e == Emit(t)
<1>1. handlers[t] \in Lists
  BY DEF CallsInv
<1>2. e \in EmitFrame
  BY <1>1 DEF Emit, EmitFrame, Lists, Subscription
<1>3. Owes(e) /\ e.op = "emit"
  BY <1>1 DEF Emit, Owes, Walked, Lists, Subscription
<1> QED BY <1>2, <1>3 DEF Good, Frame

LEMMA BeginFits ==
  ASSUME CallsInv
  PROVE  \E e \in Frame : e = Begin /\ Good(e)
<1> DEFINE e == Begin
<1>1. Cardinality(Present) \in Nat
  BY FS_Subset, FS_CardinalityType DEF Present
<1>2. active \subseteq Strategies
  BY DEF CallsInv, Present
<1>3. e \in LoopFrame
  BY <1>1, <1>2 DEF Begin, LoopFrame
<1>4. Fits(e) /\ e.op = "loop"
  BY DEF Begin, Fits, CallsInv, Present
<1> QED BY <1>3, <1>4 DEF Good, Frame

\* What is good of handlers and strategies that stay is good in the next state.
LEMMA GoodNext ==
  ASSUME NEW f, Good(f), UNCHANGED <<handlers, place, active>>
  PROVE  Good(f)'
BY DEF Good, Owes, Walked, Fits

LEMMA AppendCalls ==
  ASSUME CallsInv, UNCHANGED <<handlers, place, active>>, NEW e \in Frame, Good(e),
         stack' = Append(stack, e)
  PROVE  CallsInv'
<1>1. Append(stack, e) \in Seq(Frame) /\ Frames(Append(stack, e)) = Frames(stack) \cup {e}
  BY AppendFrames DEF CallsInv
<1> QED BY <1>1, GoodNext, FramesStay

LEMMA TopCalls ==
  ASSUME CallsInv, UNCHANGED <<handlers, place, active>>, stack # <<>>,
         NEW fs \in Seq(Frame), \A f \in Frames(fs) : Good(f), stack' = TopBecomes(fs)
  PROVE  CallsInv'
<1>1. TopBecomes(fs) \in Seq(Frame) /\ Frames(TopBecomes(fs)) \subseteq Frames(stack) \cup Frames(fs)
  BY TopFrames DEF CallsInv
<1> QED BY <1>1, GoodNext, FramesStay

\* The next handler called is the first of those ahead (Call).
LEMMA NextIs ==
  ASSUME CallsInv, NEW f \in EmitFrame, Remaining(f) # {}
  PROVE  NextOf(f) \in Remaining(f) /\ \A d \in Remaining(f) : NextOf(f).place <= d.place
<1>1. Remaining(f) \subseteq Subscription
  BY DEF Remaining, EmitFrame, CallsInv, Lists
<1> DEFINE P == {d.place : d \in Remaining(f)}
<1>2. P \subseteq Nat /\ P # {}
  BY <1>1 DEF Subscription
<1>3. \E m \in P : \A k \in P : m <= k
  <2> HIDE DEF P
  <2> QED BY <1>2, LeastNat
<1>4. \E e \in Remaining(f) : \A d \in Remaining(f) : e.place <= d.place
  BY <1>3
<1> QED BY <1>4 DEF NextOf

LEMMA CallCalls ==
  ASSUME CallsInv, NEW h, NEW e \in Frame, Good(e), Call(h, <<e>>), UNCHANGED executorVars
  PROVE  CallsInv'
<1>1. stack # <<>> /\ Top \in Frames(stack) /\ Top \in Frame /\ Top.op = "emit" /\ Remaining(Top) # {}
  <2>1. <<>> \in Seq(Frame)
    BY NoFrame
  <2> QED BY <2>1, TopFrames DEF CallsInv, Call
<1>2. PICK f \in EmitFrame : f = Top /\ Owes(f)
  BY <1>1, FrameOps DEF CallsInv, Good
<1> DEFINE n == NextOf(f)
           w == Walked(f)
<1>3. n \in Remaining(f) /\ n.handler = h /\ \A d \in Remaining(f) : n.place <= d.place
  BY <1>1, <1>2, NextIs DEF Call
<1>4. w \in Lists /\ Remaining(f) = {d \in w : d.place > f.cursor}
  BY DEF Walked, Remaining, EmitFrame, CallsInv
<1>5. n.place \in Nat /\ n \in w
  BY <1>3, <1>4 DEF Lists, Subscription
<1>6. PICK g : g = [f EXCEPT !.cursor = n.place, !.owed = f.owed \ {h}]
  OBVIOUS
<1>7. g \in EmitFrame
  BY <1>5, <1>6 DEF EmitFrame
<1>8. g.op = "emit" /\ g.cursor = n.place /\ g.owed = f.owed \ {h} /\ g.live = f.live
      /\ g.list = f.list /\ g.type = f.type
  BY <1>6 DEF EmitFrame
<1>9. Owes(g)
  <2>1. Walked(g) = w
    BY <1>8 DEF Walked
  <2>2. ASSUME NEW u \in f.owed \ {h} PROVE \E d \in w : d.handler = u /\ d.place > n.place
    <3>1. PICK d \in w : d.handler = u /\ d.place > f.cursor
      BY <1>2 DEF Owes
    <3>2. d \in Remaining(f) /\ n.place <= d.place /\ d # n
      BY <1>3, <1>4, <3>1
    <3>3. d.place # n.place
      BY <1>4, <1>5, <3>2 DEF Lists
    <3>4. d.place \in Nat
      BY <1>4 DEF Lists, Subscription
    <3> QED BY <1>5, <3>1, <3>2, <3>3, <3>4
  <2> HIDE DEF n, w
  <2> QED BY <1>8, <2>1, <2>2 DEF Owes
<1>10. stack' = TopBecomes(<<g>> \o <<e>>)
  BY <1>2, <1>6 DEF Call
<1>11. g \in Frame /\ Good(g)
  BY <1>7, <1>8, <1>9 DEF Frame, Good
<1>12. <<g>> \o <<e>> \in Seq(Frame) /\ Frames(<<g>> \o <<e>>) \subseteq {g, e}
  <2>1. <<g>> \in Seq(Frame) /\ <<e>> \in Seq(Frame) /\ Frames(<<g>>) = {g} /\ Frames(<<e>>) = {e}
    BY <1>11, OneFrame
  <2> HIDE DEF n, w
  <2>2. <<g>> \o <<e>> \in Seq(Frame)
        /\ Frames(<<g>> \o <<e>>) \subseteq Frames(<<g>>) \cup Frames(<<e>>)
    BY <2>1, ConcatFrames
  <2> QED BY <2>1, <2>2
<1>13. \A x \in Frames(<<g>> \o <<e>>) : Good(x)
  BY <1>11, <1>12
<1> QED BY <1>1, <1>10, <1>12, <1>13, TopCalls DEF Call, executorVars

\* A frame leaves the stack (Delivered, HandlerEnds, LoopEnds, LoopRaises).
LEMMA PopCalls ==
  ASSUME CallsInv, UNCHANGED <<handlers, place, active>>, stack # <<>>, stack' = TopBecomes(<<>>)
  PROVE  CallsInv'
BY NoFrame, TopCalls

LEMMA BusCalls ==
  ASSUME CallsInv, Bus
  PROVE  CallsInv'
<1>1. UNCHANGED executorVars /\ UNCHANGED <<place, active>>
  BY DEF Bus, executorVars
<1>2. ASSUME NEW t \in UsedTypes, NEW h \in Handlers, subscribe(t, h) \/ unsubscribe(t, h)
      PROVE  CallsInv'
  BY <1>1, <1>2, SubscribeCalls, UnsubscribeCalls
<1>3. CASE emit("BAR_CLOSE")
  <2>1. PICK e \in Frame : e = Emit("BAR_CLOSE") /\ Good(e)
    BY EmitFits
  <2> QED BY <1>1, <1>3, <2>1, AppendCalls DEF emit
<1>4. ASSUME NEW h, Call(h, <<[op |-> "handler"]>>) PROVE CallsInv'
  <2>1. PICK e : e = [op |-> "handler"]
    OBVIOUS
  <2>2. e \in Frame /\ e.op = "handler"
    BY <2>1 DEF Frame, HandlerFrame
  <2>3. Good(e)
    BY <2>2 DEF Good
  <2> QED BY <1>1, <1>4, <2>1, <2>2, <2>3, CallCalls
<1>5. CASE Call(OnBarClose, <<Begin>>)
  <2>1. PICK e \in Frame : e = Begin /\ Good(e)
    BY BeginFits
  <2> QED BY <1>1, <1>5, <2>1, CallCalls
<1>6. CASE Delivered \/ HandlerEnds
  BY <1>1, <1>6, PopCalls DEF Delivered, HandlerEnds
<1> QED BY <1>2, <1>3, <1>4, <1>5, <1>6 DEF Bus

\* The loops forget a strategy that is added, replaced or removed.
LEMMA ForgetCalls ==
  ASSUME CallsInv, NEW s \in Strategies, Forgets(s), UNCHANGED handlers, active' = active \ {s},
         \A r \in Strategies \ {s} : place'[r] = place[r]
  PROVE  stack' \in Seq(Frame) /\ \A f \in Frames(stack') : Good(f)'
<1>1. ASSUME NEW i \in DOMAIN stack PROVE \E g \in Frame : g = stack'[i] /\ Good(g)'
  <2>1. PICK f \in Frame : f = stack[i] /\ Good(f)
    BY ElementOfSeq, LenProperties DEF CallsInv, Frames
  <2>2. PICK g : g = stack'[i]
    OBVIOUS
  <2>3. CASE f.op = "loop"
    <3>1. f \in LoopFrame /\ Fits(f)
      BY <2>1, <2>3, FrameOps DEF Good
    <3>2. g = [f EXCEPT !.owed = f.owed \ {s}, !.done = f.done \ {s}]
      BY <2>1, <2>2, <2>3 DEF Forgets
    <3>3. g \in LoopFrame
      BY <3>1, <3>2 DEF LoopFrame
    <3>4. g.op = "loop" /\ g.owed = f.owed \ {s} /\ g.done = f.done \ {s} /\ g.cursor = f.cursor
      BY <3>1, <3>2 DEF LoopFrame
    <3>5. f.owed \subseteq Strategies /\ f.done \subseteq Strategies
      BY <3>1 DEF LoopFrame
    <3>6. Good(g)'
      BY <3>1, <3>4, <3>5 DEF Good, Fits
    <3> QED BY <2>2, <3>3, <3>6 DEF Frame
  <2>4. CASE f.op # "loop"
    <3>1. g = f
      BY <2>1, <2>2, <2>4 DEF Forgets
    <3>2. Good(f)'
      BY <2>1, <2>4 DEF Good, Owes, Walked
    <3> QED BY <2>2, <3>1, <3>2
  <2> QED BY <2>3, <2>4
<1>2. stack' \in Seq(Frame) /\ \A f \in Frames(stack') : \E i \in DOMAIN stack : f = stack'[i]
  <2>1. stack' = [i \in DOMAIN stack |-> stack'[i]] /\ \A i \in DOMAIN stack : stack'[i] \in Frame
    BY <1>1 DEF Forgets
  <2> QED BY <2>1, MapFrames DEF CallsInv
<1>3. ASSUME NEW f \in Frames(stack') PROVE Good(f)'
  <2>1. PICK i \in DOMAIN stack : f = stack'[i]
    BY <1>2
  <2>2. PICK g \in Frame : g = stack'[i] /\ Good(g)'
    BY <1>1
  <2>3. f = g
    BY <2>1, <2>2
  <2> QED BY <2>2, <2>3
<1> QED BY <1>2, <1>3

\* A new strategy comes after all there are (add_strategy).
LEMMA LastPlaceIs ==
  ASSUME CallsInv, NEW s \in Strategies
  PROVE  LastPlace \in 0..MaxSlots /\ \A r \in Strategies : place[r] <= LastPlace
<1>1. Taken \subseteq 0..MaxSlots /\ Taken # {}
  <2>1. ASSUME NEW i \in DOMAIN stack, stack[i].op = "loop" PROVE stack[i].cursor \in 0..MaxSlots
    <3>1. stack[i] \in Frame
      BY ElementOfSeq, LenProperties DEF CallsInv
    <3>2. stack[i] \in LoopFrame
      BY <2>1, <3>1, FrameOps
    <3> QED BY <3>2 DEF LoopFrame
  <2>2. \A r \in Strategies : place[r] \in 0..MaxSlots /\ place[r] \in Taken
    BY DEF CallsInv, Taken
  <2> QED BY <2>1, <2>2 DEF Taken
<1>2. \E p \in Taken : \A q \in Taken : q <= p
  <2>1. Taken \subseteq Nat /\ \A k \in Taken : k <= MaxSlots
    BY <1>1
  <2> QED BY <1>1, <2>1, GreatestNat
<1>3. LastPlace \in Taken /\ \A q \in Taken : q <= LastPlace
  BY <1>2 DEF LastPlace
<1>4. \A r \in Strategies : place[r] \in Taken
  BY DEF Taken
<1> QED BY <1>1, <1>3, <1>4

LEMMA AddCalls ==
  ASSUME CallsInv, NEW s \in Strategies, add_strategy(s) \/ remove_strategy(s)
  PROVE  CallsInv'
<1>1. place' \in [Strategies -> 0..MaxSlots] /\ \A r \in Strategies \ {s} : place'[r] = place[r]
  <2>1. LastPlace \in 0..MaxSlots
    BY LastPlaceIs
  <2> HIDE DEF LastPlace
  <2> QED BY <2>1 DEF add_strategy, remove_strategy, CallsInv
<1>2. \A q, r \in Strategies : place'[q] # 0 /\ place'[r] # 0 /\ place'[q] = place'[r] => q = r
  <2>1. CASE UNCHANGED place
    BY <2>1 DEF CallsInv, Present
  <2>2. CASE place' = [place EXCEPT ![s] = 0]
    BY <2>2 DEF CallsInv, Present
  <2>3. CASE place' = [place EXCEPT ![s] = LastPlace + 1]
    <3>1. LastPlace \in Nat /\ \A r \in Strategies : place[r] <= LastPlace /\ place[r] \in Nat
      BY LastPlaceIs DEF CallsInv
    <3>2. \A r \in Strategies \ {s} : place'[r] # place'[s]
      <4> HIDE DEF LastPlace
      <4> QED BY <2>3, <3>1 DEF CallsInv
    <3> QED BY <1>1, <3>2 DEF CallsInv, Present
  <2> QED BY <2>1, <2>2, <2>3 DEF add_strategy, remove_strategy
<1>3. active' = active \ {s} /\ Forgets(s) /\ UNCHANGED handlers
  BY DEF add_strategy, remove_strategy
<1>4. stack' \in Seq(Frame) /\ \A f \in Frames(stack') : Good(f)'
  BY <1>1, <1>3, ForgetCalls
<1>5. active' \subseteq Present'
  BY <1>1, <1>3 DEF CallsInv, Present
<1>6. \A q, r \in Present' : place'[q] = place'[r] => q = r
  BY <1>2 DEF Present
<1>7. Frames(stack)' = Frames(stack')
  BY DEF Frames
<1> QED BY <1>1, <1>3, <1>4, <1>5, <1>6, <1>7 DEF CallsInv

LEMMA StartCalls ==
  ASSUME CallsInv, NEW s \in Strategies, start_strategy(s)
  PROVE  CallsInv'
<1>1. PICK e \in Frame : e = Emit("STRATEGY_STARTED") /\ Good(e)
  BY EmitFits
<1>2. stack' = Append(stack, e) /\ active' = active \cup {s} /\ UNCHANGED <<handlers, place>>
  BY <1>1 DEF start_strategy
<1>3. Append(stack, e) \in Seq(Frame) /\ Frames(Append(stack, e)) = Frames(stack) \cup {e}
  BY AppendFrames DEF CallsInv
<1>4. ASSUME NEW f \in Frames(stack) \cup {e} PROVE Good(f)'
  BY <1>1, <1>2, <1>4 DEF CallsInv, Good, Owes, Walked, Fits
<1>5. Frames(stack)' = Frames(stack')
  BY DEF Frames
<1> QED BY <1>2, <1>3, <1>4, <1>5 DEF CallsInv, start_strategy, Present

LEMMA StopCalls ==
  ASSUME CallsInv, NEW s \in Strategies, stop_strategy(s)
  PROVE  CallsInv'
<1> DEFINE M == [i \in DOMAIN stack |-> IF stack[i].op = "loop"
                   THEN [stack[i] EXCEPT !.owed = @ \ {s}] ELSE stack[i]]
<1>1. PICK e \in Frame : e = Emit("STRATEGY_STOPPED") /\ Good(e)
  BY EmitFits
<1>2. PICK m : m = M
  OBVIOUS
<1>3. stack' = Append(m, e) /\ active' = active \ {s} /\ UNCHANGED <<handlers, place>>
  BY <1>1, <1>2 DEF stop_strategy
<1>4. ASSUME NEW i \in DOMAIN stack PROVE \E g \in Frame : g = m[i] /\ Good(g)'
  <2>1. PICK f \in Frame : f = stack[i] /\ Good(f)
    BY ElementOfSeq, LenProperties DEF CallsInv, Frames
  <2>2. PICK g : g = m[i]
    OBVIOUS
  <2>3. CASE f.op = "loop"
    <3>1. f \in LoopFrame /\ Fits(f)
      BY <2>1, <2>3, FrameOps DEF Good
    <3>2. g = [f EXCEPT !.owed = f.owed \ {s}]
      BY <1>2, <2>1, <2>2, <2>3
    <3>3. g \in LoopFrame
      BY <3>1, <3>2 DEF LoopFrame
    <3>4. g.op = "loop" /\ g.owed = f.owed \ {s} /\ g.done = f.done /\ g.cursor = f.cursor
      BY <3>1, <3>2 DEF LoopFrame
    <3>5. Good(g)'
      BY <1>3, <3>1, <3>4 DEF Good, Fits
    <3> QED BY <2>2, <3>3, <3>5 DEF Frame
  <2>4. CASE f.op # "loop"
    <3>1. g = f
      BY <1>2, <2>1, <2>2, <2>4
    <3>2. Good(f)'
      BY <1>3, <2>1, <2>4 DEF Good, Owes, Walked
    <3> QED BY <2>2, <3>1, <3>2
  <2> QED BY <2>3, <2>4
<1>5. m \in Seq(Frame) /\ \A f \in Frames(m) : \E i \in DOMAIN stack : f = m[i]
  <2>1. m = [i \in DOMAIN stack |-> m[i]] /\ \A i \in DOMAIN stack : m[i] \in Frame
    BY <1>2, <1>4
  <2> QED BY <2>1, MapFrames DEF CallsInv
<1>6. Append(m, e) \in Seq(Frame) /\ Frames(Append(m, e)) = Frames(m) \cup {e}
  BY <1>5, AppendFrames
<1>7. ASSUME NEW f \in Frames(m) PROVE Good(f)'
  <2>1. PICK i \in DOMAIN stack : f = m[i]
    BY <1>5
  <2>2. PICK g \in Frame : g = m[i] /\ Good(g)'
    BY <1>4
  <2>3. f = g
    BY <2>1, <2>2
  <2> QED BY <2>2, <2>3
<1>8. Good(e)'
  BY <1>1, <1>3 DEF Good, Owes, Walked, Fits, Emit
<1>9. Frames(stack)' = Frames(stack')
  BY DEF Frames
<1> QED BY <1>3, <1>6, <1>7, <1>8, <1>9 DEF CallsInv, Present

\* Executing leaves the stack as it is below, or adds the emission of the signal.
LEMMA ExecutesCalls ==
  ASSUME CallsInv, UNCHANGED <<handlers, place, active>>, NEW s, NEW below \in Seq(Frame),
         \A f \in Frames(below) : Good(f), Executes(s, below)
  PROVE  CallsInv'
<1>1. PICK e \in Frame : e = Emit("SIGNAL_GENERATED") /\ Good(e)
  BY EmitFits
<1>2. Append(below, e) \in Seq(Frame) /\ Frames(Append(below, e)) = Frames(below) \cup {e}
  BY AppendFrames
<1>3. stack' \in {below, Append(below, e)}
  BY <1>1 DEF Executes
<1>4. stack' \in Seq(Frame) /\ \A f \in Frames(stack') : Good(f)
  BY <1>1, <1>2, <1>3
<1>5. \A f \in Frames(stack') : Good(f)'
  BY <1>4, GoodNext
<1> QED BY <1>4, <1>5, FramesStay

\* The next strategy of a loop is the first of those ahead.
LEMMA FollowingIs ==
  ASSUME CallsInv, NEW f \in LoopFrame, Ahead(f) # {}
  PROVE  Following(f) \in Ahead(f) /\ \A r \in Ahead(f) : place[Following(f)] <= place[r]
<1> DEFINE P == {place[r] : r \in Ahead(f)}
<1>1. P \subseteq Nat /\ P # {}
  <2>1. \A r \in Ahead(f) : r \in Strategies /\ place[r] \in Nat
    BY DEF Ahead, Present, CallsInv
  <2>2. PICK r : r \in Ahead(f)
    OBVIOUS
  <2> QED BY <2>1, <2>2
<1>2. \E m \in P : \A k \in P : m <= k
  <2> HIDE DEF P
  <2> QED BY <1>1, LeastNat
<1>3. \E s \in Ahead(f) : \A r \in Ahead(f) : place[s] <= place[r]
  BY <1>2
<1> QED BY <1>3 DEF Following

LEMMA RoundCalls ==
  ASSUME CallsInv, ExecuteNext
  PROVE  CallsInv'
<1>1. /\ stack # <<>> /\ Top \in Frames(stack) /\ Top \in Frame /\ Top.op = "loop"
      /\ Ahead(Top) # {}
  <2>1. <<>> \in Seq(Frame)
    BY NoFrame
  <2> QED BY <2>1, TopFrames DEF CallsInv, ExecuteNext, InLoop
<1>2. PICK f \in LoopFrame : f = Top /\ Fits(f)
  BY <1>1, FrameOps DEF CallsInv, Good
<1>3. PICK s : s = Following(f)
  OBVIOUS
<1>4. s \in Ahead(f) /\ \A r \in Ahead(f) : place[s] <= place[r]
  BY <1>1, <1>2, <1>3, FollowingIs
<1>5. PICK g : g = [f EXCEPT !.cursor = place[s], !.left = f.left - 1]
  OBVIOUS
<1>6. PICK x : x = [g EXCEPT !.owed = g.owed \ {s}, !.done = g.done \cup {s}]
  OBVIOUS
<1>7. s \in Strategies /\ s \in Present /\ place[s] \in 0..MaxSlots /\ place[s] > f.cursor
  BY <1>4 DEF Ahead, Present, CallsInv
<1>8. /\ g \in LoopFrame /\ g.op = "loop" /\ g.cursor = place[s]
      /\ g.owed = f.owed /\ g.done = f.done
  <2>1. PICK h : h = [f EXCEPT !.cursor = place[s]]
    OBVIOUS
  <2>2. /\ h \in LoopFrame /\ h.cursor = place[s] /\ h.left = f.left
        /\ h.owed = f.owed /\ h.done = f.done
    BY <1>7, <2>1 DEF LoopFrame
  <2>3. f.left - 1 \in Int
    BY DEF LoopFrame
  <2>4. g = [h EXCEPT !.left = f.left - 1]
    BY <1>5, <2>1
  <2> QED BY <2>2, <2>3, <2>4 DEF LoopFrame
<1>9. /\ x \in LoopFrame /\ x.op = "loop" /\ x.cursor = place[s]
      /\ x.owed = f.owed \ {s} /\ x.done = f.done \cup {s}
  BY <1>6, <1>7, <1>8 DEF LoopFrame
<1>10. \A r \in f.owed \ {s} : place[r] > place[s]
  <2> SUFFICES ASSUME NEW r \in f.owed \ {s} PROVE place[r] > place[s]
    OBVIOUS
  <2>1. r \in active /\ r \in Present /\ place[r] > f.cursor
    BY <1>2 DEF Fits, CallsInv
  <2>2. r \in Ahead(f) /\ place[r] \in Nat
    BY <2>1 DEF Ahead, CallsInv, Present
  <2>3. place[r] # place[s]
    BY <1>7, <2>1 DEF CallsInv
  <2> QED BY <1>4, <1>7, <2>2, <2>3
<1>11. \A r \in f.done : place[r] <= place[s]
  <2>1. \A r \in f.done : place[r] <= f.cursor /\ place[r] \in Nat
    BY <1>2 DEF Fits, LoopFrame, CallsInv
  <2>2. f.cursor \in Nat
    BY DEF LoopFrame
  <2> QED BY <1>7, <2>1, <2>2
<1>12. UNCHANGED <<handlers, place, active>>
  BY DEF ExecuteNext
<1>13. CASE s \in active
  <2>1. Fits(x)
    BY <1>2, <1>7, <1>9, <1>10, <1>11 DEF Fits
  <2>2. x \in Frame /\ Good(x)
    BY <1>9, <2>1 DEF Frame, Good
  <2>3. <<x>> \in Seq(Frame) /\ Frames(<<x>>) = {x}
    BY <2>2, OneFrame
  <2>4. PICK below : below = TopBecomes(<<x>>)
    OBVIOUS
  <2>5. below \in Seq(Frame) /\ Frames(below) \subseteq Frames(stack) \cup {x}
    BY <1>1, <2>3, <2>4, TopFrames DEF CallsInv
  <2>6. Executes(s, below)
    BY <1>2, <1>3, <1>5, <1>6, <1>13, <2>4 DEF ExecuteNext
  <2>7. \A y \in Frames(below) : Good(y)
    BY <2>2, <2>5 DEF CallsInv
  <2> QED BY <1>12, <2>5, <2>6, <2>7, ExecutesCalls
<1>14. CASE s \notin active
  <2>1. s \notin f.owed
    BY <1>2, <1>14 DEF Fits
  <2>2. Fits(g)
    BY <1>2, <1>8, <1>10, <1>11, <2>1 DEF Fits
  <2>3. g \in Frame /\ Good(g)
    BY <1>8, <2>2 DEF Frame, Good
  <2>4. <<g>> \in Seq(Frame) /\ Frames(<<g>>) = {g}
    BY <2>3, OneFrame
  <2>5. stack' = TopBecomes(<<g>>)
    BY <1>2, <1>3, <1>5, <1>14 DEF ExecuteNext
  <2>6. \A y \in Frames(<<g>>) : Good(y)
    BY <2>3, <2>4
  <2> QED BY <1>1, <1>12, <2>4, <2>5, <2>6, TopCalls
<1> QED BY <1>13, <1>14

LEMMA CallsStep == CallsInv /\ [ExecutorNext]_allVars => CallsInv'
<1> SUFFICES ASSUME CallsInv, [ExecutorNext]_allVars PROVE CallsInv'
  OBVIOUS
<1>1. CASE UNCHANGED allVars
  <2>1. UNCHANGED <<handlers, place, active, stack>>
    BY <1>1 DEF allVars, busVars, executorVars
  <2>2. stack' \in Seq(Frame) /\ Frames(stack') = Frames(stack)
    BY <2>1 DEF CallsInv
  <2> QED BY <2>1, <2>2, FramesStay
<1>2. CASE Bus
  BY <1>2, BusCalls
<1>3. ASSUME NEW s \in Strategies, add_strategy(s) \/ remove_strategy(s) PROVE CallsInv'
  BY <1>3, AddCalls
<1>4. ASSUME NEW s \in Strategies, start_strategy(s) \/ stop_strategy(s) PROVE CallsInv'
  BY <1>4, StartCalls, StopCalls
<1>5. ASSUME NEW s \in Strategies, execute_strategy(s) PROVE CallsInv'
  <2>1. stack \in Seq(Frame) /\ \A f \in Frames(stack) : Good(f)
    BY DEF CallsInv
  <2> QED BY <1>5, <2>1, ExecutesCalls DEF execute_strategy
<1>6. CASE reset
  <2>1. UNCHANGED <<handlers, place, active, stack>>
    BY <1>6 DEF reset, busVars
  <2>2. stack' \in Seq(Frame) /\ Frames(stack') = Frames(stack)
    BY <2>1 DEF CallsInv
  <2> QED BY <2>1, <2>2, FramesStay
<1>7. CASE execute_all
  <2>1. PICK e \in Frame : e = Begin /\ Good(e)
    BY BeginFits
  <2> QED BY <1>7, <2>1, AppendCalls DEF execute_all, executorVars
<1>8. CASE LoopEnds \/ LoopRaises
  BY <1>8, PopCalls DEF LoopEnds, LoopRaises, InLoop, executorVars
<1>9. CASE ExecuteNext
  BY <1>9, RoundCalls
<1> QED BY <1>1, <1>2, <1>3, <1>4, <1>5, <1>6, <1>7, <1>8, <1>9 DEF ExecutorNext

LEMMA CallsInvariance == ExecutorSpec => []CallsInv
BY CallsStart, CallsStep, PTL DEF ExecutorSpec

\* However handlers subscribe and unsubscribe while an event is delivered, a handler
\* that stays subscribed is called (subscribe, unsubscribe, emit).
THEOREM NobodyIsMissed == ExecutorSpec => []NobodyMisses
<1>1. CallsInv => NobodyMisses
  <2> SUFFICES ASSUME CallsInv, stack # <<>>, Top.op = "emit", Remaining(Top) = {}
               PROVE  Top.owed = {}
    BY DEF NobodyMisses
  <2>1. Top \in Frames(stack) /\ Top \in Frame
    BY NoFrame, TopFrames DEF CallsInv
  <2>2. PICK f \in EmitFrame : f = Top /\ Owes(f)
    BY <2>1, FrameOps DEF CallsInv, Good
  <2>3. \A e \in Walked(f) : ~(e.place > f.cursor)
    BY <2>2 DEF Remaining, Walked
  <2> QED BY <2>2, <2>3 DEF Owes
<1> QED BY <1>1, CallsInvariance, PTL

\* A loop over the strategies executes each strategy that is active all along once,
\* whatever the handlers of its signals do to the dictionaries it walks.
THEOREM EachIsExecutedOnce == ExecutorSpec => []EachOncePerBar
<1>1. CallsInv => EachOncePerBar
  <2> SUFFICES ASSUME CallsInv, InLoop
               PROVE  IF Ahead(Top) = {} THEN Top.owed = {} ELSE Following(Top) \notin Top.done
    BY DEF EachOncePerBar
  <2>1. Top \in Frames(stack) /\ Top \in Frame /\ Top.op = "loop"
    BY NoFrame, TopFrames DEF CallsInv, InLoop
  <2>2. PICK f \in LoopFrame : f = Top /\ Fits(f)
    BY <2>1, FrameOps DEF CallsInv, Good
  <2>3. CASE Ahead(f) = {}
    BY <2>2, <2>3 DEF Fits, CallsInv, Ahead
  <2>4. CASE Ahead(f) # {}
    <3>1. Following(f) \in Ahead(f)
      BY <2>4, FollowingIs
    <3>2. place[Following(f)] > f.cursor /\ place[Following(f)] \in Nat /\ f.cursor \in Nat
      BY <3>1 DEF Ahead, CallsInv, Present, LoopFrame
    <3> QED BY <2>2, <2>4, <3>2 DEF Fits
  <2> QED BY <2>2, <2>3, <2>4
<1> QED BY <1>1, CallsInvariance, PTL
=============================================================================
