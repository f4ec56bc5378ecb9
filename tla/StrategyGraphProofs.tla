------------------------ MODULE StrategyGraphProofs ------------------------
(***************************************************************************)
(* What TLAPS proves of StrategyGraph.  The inductive invariant GraphInv   *)
(* joins the checked invariants with what a running execution knows: the   *)
(* graph is valid, and the nodes it has passed are no longer idle.         *)
(***************************************************************************)
EXTENDS StrategyGraph, FiniteSetTheorems, SequenceTheorems, TLAPS

\* A graph is executed only while it is valid, and outcome says so.
RunningIsValid ==
  /\ at > 0 => is_valid
  /\ at > 0 <=> outcome = "running"

\* A node that completed has set its outputs.
CompletedHasOutputs ==
  \A n \in Ids : status[n] = "COMPLETED" =>
    \A p \in Outputs(kind[n]) : outputs[n][p] # None

\* The nodes before the present one have executed, the actions among them.
PassedHasStatus ==
  at > 0 =>
    /\ \A i \in 1..(at - 1) : status[order[i]] # "IDLE"
    /\ \A n \in taken : \E i \in 1..(at - 1) : order[i] = n

GraphInv ==
  /\ GraphTypeOK /\ ConnectionsAreEdges /\ ValidIsTrue
  /\ RunningIsValid /\ InputsAreFresh
  /\ CompletedHasOutputs /\ PassedHasStatus
  /\ OnlyCollectingRaises /\ ActionsHaveCause

-----------------------------------------------------------------------------
(* What the operators of the model return                                  *)

LEMMA PortsOfKinds ==
  \A k \in NodeKinds : Outputs(k) \subseteq OutPorts /\ Inputs(k) \subseteq InPorts
  BY DEF NodeKinds, Gates, Outputs, Inputs, OutPorts, InPorts

LEMMA NodesFinite == IsFiniteSet(Nodes) /\ Cardinality(Nodes) \in Nat
  <1>1. Nodes \in SUBSET Ids
    BY DEF Nodes
  <1>2. IsFiniteSet(Nodes)
    BY <1>1, FS_Subset, GraphAssumption
  <1>3. QED
    BY <1>2, FS_CardinalityType

\* An order is a sequence, as long as there are nodes.
LEMMA OrdersAreSequences ==
  ASSUME NEW s \in Orders
  PROVE  s \in Seq(Ids) /\ Len(s) = Cardinality(Nodes) /\ DOMAIN s = 1..Len(s)
  <1>1. s \in [1..Cardinality(Nodes) -> Ids]
    BY DEF Orders, Nodes
  <1>2. s \in Seq(Ids)
    BY <1>1, NodesFinite, IsASeq
  <1>3. QED
    BY <1>1, <1>2, NodesFinite, LenProperties

\* Every node has one place in an order, after those its connections come from.
LEMMA PlacesAreUnique ==
  ASSUME NEW s \in Orders, NEW i \in DOMAIN s, NEW j \in DOMAIN s, s[i] = s[j]
  PROVE  i = j
  <1>1. s[i] \in Nodes
    BY DEF Orders
  <1>2. PICK k \in DOMAIN s : \A m \in DOMAIN s : s[m] = s[i] <=> m = k
    BY <1>1, Zenon DEF Orders
  <1>3. QED
    BY <1>2

LEMMA SourcesComeFirst ==
  ASSUME ConnectionsAreEdges, NEW s \in Orders, NEW c \in connections,
         NEW i \in DOMAIN s, s[i] = c.to
  PROVE  \E j \in 1..i : j < i /\ s[j] = c.from
  <1>1. c.from \in Nodes /\ <<c.from, c.to>> \in edges
    BY DEF ConnectionsAreEdges
  <1>2. PICK j \in DOMAIN s : \A m \in DOMAIN s : s[m] = c.from <=> m = j
    BY <1>1, Zenon DEF Orders
  <1>3. <<s[j], s[i]>> \in edges
    BY <1>1, <1>2
  <1>4. j < i
    BY <1>3, Zenon DEF Orders
  <1>5. DOMAIN s = 1..Len(s) /\ Len(s) \in Nat
    BY OrdersAreSequences, LenProperties
  <1>6. QED
    BY <1>2, <1>4, <1>5

LEMMA InputType ==
  ASSUME GraphTypeOK, NEW n, NEW port
  PROVE  /\ Input(n, port) \in Values \cup {None}
         /\ LastInto(n, port) # {} =>
              /\ Setter(n, port) \in connections /\ Setter(n, port).to = n
              /\ Setter(n, port).in = port
  <1>1. LastInto(n, port) # {} => Setter(n, port) \in LastInto(n, port)
    BY DEF Setter
  <1>2. LastInto(n, port) # {} => Setter(n, port) \in connections
    BY <1>1 DEF LastInto, Into
  <1>3. LastInto(n, port) # {} =>
          Setter(n, port).from \in Ids /\ Setter(n, port).out \in OutPorts
    BY <1>2 DEF GraphTypeOK, Connection
  <1>4. QED
    BY <1>1, <1>2, <1>3 DEF Input, GraphTypeOK, LastInto, Into

LEMMA NoOutputsType == NoOutputs \in [OutPorts -> Values \cup {None}]
  BY DEF NoOutputs

LEMMA EmptyMemoryType == <<>> \in Seq(Values)
  BY EmptySeq

-----------------------------------------------------------------------------
(* One step of an execution                                                *)

\* What the five kinds of step have in common.
StepOf(n, success, memo, result) ==
  /\ at > 0 /\ n = order[at] /\ kind[n] \in NodeKinds
  /\ success => result # None
  /\ kind[n] \in ActionKinds /\ ~Falsy(result) => Input(n, "trigger") # 0
  /\ NodeDone(n, success, memo, result)

Step(n) ==
  \E success \in BOOLEAN, memo \in Seq(Values), result \in Values \cup {None} :
    StepOf(n, success, memo, result)

ExecuteOne(n) ==
  \/ ExecuteDataSource(n) \/ ExecuteIndicator(n) \/ ExecuteCondition(n)
  \/ ExecuteGate(n) \/ ExecuteAction(n)

LEMMA TruthType == \A b \in BOOLEAN : Truth(b) \in Values /\ Truth(b) # None
  BY GraphAssumption DEF Truth, Values

LEMMA IndicatorIsStep ==
  ASSUME GraphTypeOK, NEW n \in Ids, ExecuteIndicator(n)
  PROVE  Step(n)
  <1> DEFINE price == Input(n, "price")
             history == Append(memory[n], price)
             recent == [i \in 1..Period |-> history[Len(history) - Period + i]]
             value == IF Len(history) >= Period THEN Calculate[recent] ELSE price
  <1>1. price \in Values \cup {None} /\ memory[n] \in Seq(Values)
    BY InputType DEF GraphTypeOK
  <1>2. kind[n] = "IndicatorNode" /\ at > 0 /\ n = order[at]
    BY DEF ExecuteIndicator, RunsAs
  <1>3. CASE price = None
    <2>1. NodeDone(n, FALSE, memory[n], None)
      BY <1>3 DEF ExecuteIndicator
    <2>2. StepOf(n, FALSE, memory[n], None)
      BY <1>2, <2>1 DEF StepOf, NodeKinds, ActionKinds
    <2>3. QED
      BY <1>1, <2>2 DEF Step
  <1>4. CASE price # None
    <2>1. NodeDone(n, TRUE, history, value)
      BY <1>4 DEF ExecuteIndicator
    <2>2. price \in Values
      BY <1>1, <1>4
    <2>3. history \in Seq(Values) /\ Len(history) \in Nat
      BY <1>1, <2>2, AppendProperties, LenProperties
    <2>4. value \in Values
      <3>1. CASE Len(history) >= Period
        <4>1. \A i \in 1..Period : history[Len(history) - Period + i] \in Values
          <5> SUFFICES ASSUME NEW i \in 1..Period
                       PROVE  history[Len(history) - Period + i] \in Values
            OBVIOUS
          <5> HIDE DEF history
          <5>1. Len(history) - Period + i \in 1..Len(history)
            BY <3>1, <2>3, GraphAssumption
          <5>2. QED
            BY <5>1, <2>3, ElementOfSeq
        <4>2. recent \in [1..Period -> Values]
          BY <4>1
        <4>3. Calculate[recent] \in Values
          BY <4>2, GraphAssumption
        <4>4. QED
          BY <3>1, <4>3
      <3>2. CASE ~(Len(history) >= Period)
        BY <3>2, <2>2
      <3>3. QED
        BY <3>1, <3>2
    <2>5. value # None
      BY <2>4, GraphAssumption
    <2>6. StepOf(n, TRUE, history, value)
      <3> HIDE DEF history, value
      <3> QED BY <1>2, <2>1, <2>5 DEF StepOf, NodeKinds, ActionKinds
    <2>7. QED
      <3> HIDE DEF history, value
      <3> QED BY <2>3, <2>4, <2>6 DEF Step
  <1>5. QED
    BY <1>3, <1>4

LEMMA ConditionIsStep ==
  ASSUME GraphTypeOK, NEW n \in Ids, ExecuteCondition(n)
  PROVE  Step(n)
  <1> DEFINE a == Input(n, "value_a")
             b == IF Falsy(Input(n, "value_b")) THEN Threshold ELSE Input(n, "value_b")
             crossed == memory[n] # <<>> /\ memory[n][1] <= memory[n][2] /\ a > b
  <1>1. a \in Values \cup {None} /\ b \in Values /\ memory[n] \in Seq(Values)
    BY InputType, GraphAssumption DEF GraphTypeOK, Falsy
  <1>2. kind[n] = "ConditionNode" /\ at > 0 /\ n = order[at]
    BY DEF ExecuteCondition, RunsAs
  <1>3. CASE a = None
    <2>1. NodeDone(n, FALSE, memory[n], None)
      BY <1>3 DEF ExecuteCondition
    <2>2. StepOf(n, FALSE, memory[n], None)
      BY <1>2, <2>1 DEF StepOf, NodeKinds, ActionKinds
    <2>3. QED
      BY <1>1, <2>2 DEF Step
  <1>4. CASE a # None
    <2>1. NodeDone(n, TRUE, <<a, b>>, Truth(crossed))
      BY <1>4 DEF ExecuteCondition
    <2>2. <<a, b>> \in Seq(Values)
      BY <1>1, <1>4
    <2>3. crossed \in BOOLEAN
      OBVIOUS
    <2>4. Truth(crossed) \in Values /\ Truth(crossed) # None
      BY <2>3, TruthType
    <2> HIDE DEF a, b, crossed
    <2>5. StepOf(n, TRUE, <<a, b>>, Truth(crossed))
      BY <1>2, <2>1, <2>4 DEF StepOf, NodeKinds, ActionKinds
    <2>6. QED
      BY <2>2, <2>4, <2>5 DEF Step
  <1>5. QED
    BY <1>3, <1>4

LEMMA GateIsStep ==
  ASSUME GraphTypeOK, NEW n \in Ids, ExecuteGate(n)
  PROVE  Step(n)
  <1>1. PICK v : NodeDone(n, TRUE, <<>>, Truth(v))
    BY Zenon DEF ExecuteGate
  <1>2. Truth(v) \in Values /\ Truth(v) # None
    BY GraphAssumption DEF Truth, Values
  <1>3. kind[n] \in Gates /\ at > 0 /\ n = order[at]
    BY DEF ExecuteGate, RunsAs
  <1>4. StepOf(n, TRUE, <<>>, Truth(v))
    BY <1>1, <1>2, <1>3 DEF StepOf, NodeKinds, ActionKinds, Gates
  <1>5. QED
    BY <1>2, <1>4, EmptyMemoryType DEF Step

LEMMA ExecuteOneIsStep ==
  ASSUME GraphTypeOK, NEW n \in Ids, ExecuteOne(n)
  PROVE  Step(n)
  <1>1. CASE ExecuteDataSource(n)
    <2>1. bar \in Values \cup {None}
      BY GraphAssumption DEF GraphTypeOK, Prices, Values
    <2>2. StepOf(n, bar # None, <<>>, bar)
      BY <1>1 DEF ExecuteDataSource, RunsAs, StepOf, NodeKinds, ActionKinds
    <2>3. QED
      BY <2>1, <2>2, EmptyMemoryType DEF Step
  <1>2. CASE ExecuteAction(n)
    <2> DEFINE result == Truth(Input(n, "trigger") # 0)
    <2>1. result \in Values /\ result # None
      BY TruthType
    <2>2. ~Falsy(result) => Input(n, "trigger") # 0
      BY DEF Falsy, Truth
    <2>3. NodeDone(n, TRUE, <<>>, result) /\ kind[n] \in NodeKinds /\ at > 0 /\ n = order[at]
      BY <1>2 DEF ExecuteAction, RunsAs, ActionKinds, NodeKinds
    <2> HIDE DEF result
    <2>4. StepOf(n, TRUE, <<>>, result)
      BY <2>1, <2>2, <2>3 DEF StepOf
    <2>5. QED
      BY <2>1, <2>4, EmptyMemoryType DEF Step
  <1>3. QED
    BY <1>1, <1>2, IndicatorIsStep, ConditionIsStep, GateIsStep DEF ExecuteOne

\* A step neither edits nor validates, and raises or leaves the node executed.
LEMMA StepEffect ==
  ASSUME GraphTypeOK, NEW n \in Ids, NEW success \in BOOLEAN,
         NEW memo \in Seq(Values), NEW result \in Values \cup {None},
         StepOf(n, success, memo, result)
  PROVE  /\ UNCHANGED <<kind, connections, edges, is_valid, order>>
         /\ \/ Raise /\ UNCHANGED <<outputs, status, memory>>
               /\ \E c \in connections : c.to = n /\ ~PortsExist(c)
            \/ /\ status' = [status EXCEPT ![n] = IF success THEN "COMPLETED" ELSE "ERROR"]
               /\ memory' = [memory EXCEPT ![n] = memo]
               /\ outputs' = [outputs EXCEPT ![n] =
                    [p \in OutPorts |-> IF p \in Outputs(kind[n]) THEN result ELSE None]]
               /\ \/ Raise /\ kind[n] = "RebalanceNode"
                  \/ /\ taken' \in {taken, taken \cup {n}}
                     /\ n \in taken' => n \in taken \/ (kind[n] \in ActionKinds /\ ~Falsy(result))
                     /\ \/ at = Len(order) /\ at' = 0 /\ outcome' = "returned" /\ bar' = None
                        \/ at # Len(order) /\ at' = at + 1 /\ UNCHANGED <<outcome, bar>>
  <1>1. NodeDone(n, success, memo, result) /\ kind[n] \in NodeKinds
    BY DEF StepOf
  <1>2. kind[n] \in ActionKinds /\ "action_taken" \notin Outputs(kind[n])
          => kind[n] = "RebalanceNode"
    BY DEF ActionKinds, Outputs, Gates
  <1>3. UNCHANGED <<kind, connections, edges, is_valid, order>>
    BY <1>1 DEF NodeDone, structure, checked
  <1>4. CASE \E c \in connections : c.to = n /\ ~PortsExist(c)
    <2>1. Raise /\ UNCHANGED <<outputs, status, memory>>
      BY <1>1, <1>4, Zenon DEF NodeDone, values
    <2>2. QED
      BY <1>3, <1>4, <2>1
  <1>5. CASE ~(\E c \in connections : c.to = n /\ ~PortsExist(c))
    <2>1. /\ status' = [status EXCEPT ![n] = IF success THEN "COMPLETED" ELSE "ERROR"]
          /\ memory' = [memory EXCEPT ![n] = memo]
          /\ outputs' = [outputs EXCEPT ![n] =
                [p \in OutPorts |-> IF p \in Outputs(kind[n]) THEN result ELSE None]]
          /\ IF kind[n] \in ActionKinds /\ "action_taken" \notin Outputs(kind[n])
               THEN Raise
               ELSE /\ taken' = IF kind[n] \in ActionKinds /\ ~Falsy(result)
                                  THEN taken \cup {n} ELSE taken
                    /\ IF at = Len(order)
                         THEN at' = 0 /\ outcome' = "returned" /\ bar' = None
                         ELSE at' = at + 1 /\ UNCHANGED <<outcome, bar>>
      BY <1>1, <1>5, Zenon DEF NodeDone
    <2>2. CASE kind[n] \in ActionKinds /\ "action_taken" \notin Outputs(kind[n])
      <3>1. Raise /\ kind[n] = "RebalanceNode"
        BY <1>2, <2>1, <2>2
      <3>2. QED
        BY <1>3, <2>1, <3>1
    <2>3. CASE ~(kind[n] \in ActionKinds /\ "action_taken" \notin Outputs(kind[n]))
      <3>1. /\ taken' = IF kind[n] \in ActionKinds /\ ~Falsy(result)
                          THEN taken \cup {n} ELSE taken
            /\ \/ at = Len(order) /\ at' = 0 /\ outcome' = "returned" /\ bar' = None
               \/ at # Len(order) /\ at' = at + 1 /\ UNCHANGED <<outcome, bar>>
        BY <2>1, <2>3
      <3>2. /\ taken' \in {taken, taken \cup {n}}
            /\ n \in taken' => n \in taken \/ (kind[n] \in ActionKinds /\ ~Falsy(result))
        BY <3>1
      <3>3. QED
        BY <1>3, <2>1, <3>1, <3>2
    <2>4. QED
      BY <2>2, <2>3
  <1>6. QED
    BY <1>4, <1>5

LEMMA StepTypes ==
  ASSUME GraphTypeOK, NEW n \in Ids, Step(n)
  PROVE  GraphTypeOK'
  <1>1. PICK success \in BOOLEAN, memo \in Seq(Values), result \in Values \cup {None} :
          StepOf(n, success, memo, result)
    BY DEF Step
  <1>2. UNCHANGED <<kind, connections, edges, is_valid, order>>
    BY <1>1, StepEffect
  <1>marks. \/ UNCHANGED <<outputs, status, memory>>
        \/ /\ status' = [status EXCEPT ![n] = IF success THEN "COMPLETED" ELSE "ERROR"]
           /\ memory' = [memory EXCEPT ![n] = memo]
           /\ outputs' = [outputs EXCEPT ![n] =
                [p \in OutPorts |-> IF p \in Outputs(kind[n]) THEN result ELSE None]]
    BY <1>1, StepEffect
  <1>3. outputs' \in [Ids -> [OutPorts -> Values \cup {None}]]
    <2>1. [p \in OutPorts |-> IF p \in Outputs(kind[n]) THEN result ELSE None]
            \in [OutPorts -> Values \cup {None}]
      OBVIOUS
    <2>2. QED
      BY <1>marks, <2>1 DEF GraphTypeOK
  <1>4. status' \in [Ids -> {"IDLE", "COMPLETED", "ERROR"}]
    BY <1>marks DEF GraphTypeOK
  <1>5. memory' \in [Ids -> Seq(Values)]
    BY <1>marks DEF GraphTypeOK
  <1>ends. \/ Raise
        \/ /\ taken' \in {taken, taken \cup {n}}
           /\ \/ outcome' = "returned" /\ bar' = None
              \/ UNCHANGED <<outcome, bar>>
    BY <1>1, StepEffect
  <1>6. /\ taken' \subseteq Ids /\ bar' \in Prices \cup {None}
        /\ outcome' \in {"returned", "GraphError", "NodeError", "running"}
    BY <1>ends DEF GraphTypeOK, Raise
  <1>7. at' \in 0..Len(order')
    <2>1. Len(order) \in Nat /\ at > 0 /\ at \in 0..Len(order)
      BY <1>1, LenProperties DEF GraphTypeOK, StepOf
    <2>2. at' = 0 \/ (at # Len(order) /\ at' = at + 1)
      BY <1>1, StepEffect DEF Raise
    <2>3. QED
      BY <1>2, <2>1, <2>2
  <1>8. QED
    BY <1>2, <1>3, <1>4, <1>5, <1>6, <1>7 DEF GraphTypeOK

-----------------------------------------------------------------------------
(* Editing and validating                                                  *)

LEMMA FreshTypes ==
  ASSUME GraphTypeOK, NEW n \in Ids, Fresh(n)
  PROVE  /\ outputs' \in [Ids -> [OutPorts -> Values \cup {None}]]
         /\ status' \in [Ids -> {"IDLE", "COMPLETED", "ERROR"}]
         /\ memory' \in [Ids -> Seq(Values)]
  BY NoOutputsType, EmptyMemoryType DEF GraphTypeOK, Fresh

LEMMA AddNodeInv ==
  ASSUME GraphInv, NEW n \in Ids, NEW k \in KindsOf[n], AddNode(n, k)
  PROVE  GraphInv'
  <1>1. k \in NodeKinds /\ k # Absent
    BY GraphAssumption
  <1>2. UNCHANGED <<connections, edges, order, bar, at>> /\ at = 0
    BY DEF AddNode, Idle
  <1>3. kind' = [kind EXCEPT ![n] = k] /\ Fresh(n) /\ is_valid' = FALSE
    BY DEF AddNode
  <1>4. outcome' = "returned" /\ taken' = {}
    BY DEF AddNode
  <1>5. GraphTypeOK'
    BY <1>1, <1>2, <1>3, <1>4, FreshTypes DEF GraphInv, GraphTypeOK
  <1>6. ConnectionsAreEdges'
    <2>1. Nodes \subseteq Nodes'
      BY <1>1, <1>3 DEF GraphInv, GraphTypeOK, Nodes
    <2>2. QED
      BY <1>2, <2>1 DEF GraphInv, ConnectionsAreEdges
  <1>7. CompletedHasOutputs'
    BY <1>2, <1>3 DEF GraphInv, GraphTypeOK, CompletedHasOutputs, Fresh
  <1>8. QED
    BY <1>2, <1>3, <1>4, <1>5, <1>6, <1>7
    DEF GraphInv, ValidIsTrue, RunningIsValid, InputsAreFresh, OnlyCollectingRaises,
        ActionsHaveCause, PassedHasStatus, GraphTypeOK

LEMMA RemoveNodeInv ==
  ASSUME GraphInv, NEW n \in Ids, RemoveNode(n)
  PROVE  GraphInv'
  <1>1. UNCHANGED <<order, bar, at>> /\ at = 0
    BY DEF RemoveNode, Idle
  <1>2. kind' = [kind EXCEPT ![n] = Absent] /\ Fresh(n) /\ is_valid' = FALSE
    BY DEF RemoveNode
  <1>3. /\ connections' = {c \in connections : n \notin {c.from, c.to}}
        /\ edges' = {e \in edges : n \notin {e[1], e[2]}}
    BY DEF RemoveNode
  <1>4. outcome' = "returned" /\ taken' = {}
    BY DEF RemoveNode
  <1>5. GraphTypeOK'
    BY <1>1, <1>2, <1>3, <1>4, FreshTypes DEF GraphInv, GraphTypeOK
  <1>6. ConnectionsAreEdges'
    <2>1. Nodes' = Nodes \ {n}
      BY <1>2 DEF GraphInv, GraphTypeOK, Nodes
    <2>2. edges' = {<<c.from, c.to>> : c \in connections'}
      BY <1>3 DEF GraphInv, ConnectionsAreEdges
    <2>3. \A c \in connections' : {c.from, c.to} \subseteq Nodes'
      BY <1>3, <2>1 DEF GraphInv, ConnectionsAreEdges
    <2>4. QED
      BY <2>2, <2>3 DEF ConnectionsAreEdges
  <1>7. CompletedHasOutputs'
    BY <1>1, <1>2 DEF GraphInv, GraphTypeOK, CompletedHasOutputs, Fresh
  <1>8. QED
    BY <1>1, <1>2, <1>4, <1>5, <1>6, <1>7
    DEF GraphInv, ValidIsTrue, RunningIsValid, InputsAreFresh, OnlyCollectingRaises,
        ActionsHaveCause, PassedHasStatus, GraphTypeOK

LEMMA AddConnectionInv ==
  ASSUME GraphInv, NEW from \in Ids, NEW to \in Ids, NEW link \in Links(from, to),
         AddConnection(from, to, link)
  PROVE  GraphInv'
  <1>1. UNCHANGED <<kind, order, bar, at, outputs, status, memory>> /\ at = 0 /\ taken' = {}
    BY DEF AddConnection, Idle, values
  <1>2. CASE ~({from, to} \subseteq Nodes)
    <2>1. outcome' = "GraphError" /\ UNCHANGED <<connections, edges, is_valid>>
      BY <1>2 DEF AddConnection
    <2>2. GraphTypeOK'
      BY <1>1, <2>1 DEF GraphInv, GraphTypeOK
    <2>3. ConnectionsAreEdges' /\ ValidIsTrue'
      BY <1>1, <2>1
      DEF GraphInv, ConnectionsAreEdges, ValidIsTrue, Nodes, Orders, PortsExist
    <2>4. QED
      BY <1>1, <2>1, <2>2, <2>3
      DEF GraphInv, RunningIsValid, InputsAreFresh, OnlyCollectingRaises, ActionsHaveCause,
          CompletedHasOutputs, PassedHasStatus, GraphTypeOK
  <1>3. CASE {from, to} \subseteq Nodes
    <2>1. /\ AppendConnection(from, to, link) /\ edges' = edges \cup {<<from, to>>}
          /\ is_valid' = FALSE /\ outcome' = "returned"
      BY <1>3 DEF AddConnection
    <2>2. PICK age \in 0..MaxAge : connections' = connections \cup
             {[from |-> from, to |-> to, out |-> link[1], in |-> link[2], age |-> age]}
      BY <2>1 DEF AppendConnection
    <2>3. link[1] \in OutPorts /\ link[2] \in InPorts
      <3>1. kind[from] \in NodeKinds /\ kind[to] \in NodeKinds
        BY <1>3 DEF GraphInv, GraphTypeOK, Nodes
      <3>2. Outputs(kind[from]) \subseteq OutPorts /\ Inputs(kind[to]) \subseteq InPorts
        BY <3>1, PortsOfKinds
      <3>3. "value" \in OutPorts /\ "data" \in InPorts
        BY DEF OutPorts, InPorts
      <3>4. QED
        BY <3>2, <3>3 DEF Links
    <2> DEFINE new == [from |-> from, to |-> to, out |-> link[1], in |-> link[2], age |-> age]
    <2>new. /\ connections' = connections \cup {new}
            /\ new \in Connection /\ new.from = from /\ new.to = to
      BY <2>2, <2>3 DEF Connection
    <2> HIDE DEF new
    <2>4. GraphTypeOK'
      <3>1. connections' \subseteq Connection
        BY <2>new DEF GraphInv, GraphTypeOK
      <3>2. edges' \subseteq Ids \X Ids
        BY <2>1 DEF GraphInv, GraphTypeOK
      <3>3. QED
        BY <1>1, <2>1, <3>1, <3>2 DEF GraphInv, GraphTypeOK
    <2>5. ConnectionsAreEdges'
      <3>1. Nodes' = Nodes
        BY <1>1 DEF Nodes
      <3>2. edges' = {<<c.from, c.to>> : c \in connections'}
        BY <2>1, <2>new, Zenon DEF GraphInv, ConnectionsAreEdges
      <3>3. \A c \in connections' : {c.from, c.to} \subseteq Nodes
        BY <1>3, <2>new DEF GraphInv, ConnectionsAreEdges
      <3>4. QED
        BY <3>1, <3>2, <3>3 DEF ConnectionsAreEdges
    <2>6. QED
      BY <1>1, <2>1, <2>4, <2>5
      DEF GraphInv, ValidIsTrue, RunningIsValid, InputsAreFresh, OnlyCollectingRaises,
          ActionsHaveCause, CompletedHasOutputs, PassedHasStatus, GraphTypeOK
  <1>4. QED
    BY <1>2, <1>3

\* Validation marks a graph valid only with an order of its own.
LEMMA ValidationIsTrue ==
  ASSUME GraphInv, validate, UNCHANGED <<kind, connections, edges>>
  PROVE  /\ ValidIsTrue' /\ ConnectionsAreEdges'
         /\ is_valid' \in BOOLEAN /\ order' \in Seq(Ids)
  <1>1. Nodes' = Nodes /\ Orders' = Orders
    BY DEF Nodes, Orders
  <1>2. is_valid' = NoErrors /\ (NoErrors => order' \in Orders)
        /\ (~NoErrors => order' = order)
    BY DEF validate
  <1>3. is_valid' \in BOOLEAN
    BY <1>2 DEF NoErrors
  <1>4. order' \in Seq(Ids)
    BY <1>2, OrdersAreSequences DEF GraphInv, GraphTypeOK
  <1>5. ValidIsTrue'
    <2> SUFFICES ASSUME is_valid' PROVE ValidIsTrue'
      BY DEF ValidIsTrue
    <2>1. NoErrors
      BY <1>2
    <2>2. Nodes # {} /\ order' \in Orders /\ \A c \in connections : PortsExist(c)
      BY <1>2, <2>1 DEF NoErrors
    <2>3. \A c \in connections' : PortsExist(c)'
      BY <1>1, <2>2 DEF PortsExist
    <2>4. QED
      BY <1>1, <2>2, <2>3 DEF ValidIsTrue
  <1>6. ConnectionsAreEdges'
    BY <1>1 DEF GraphInv, ConnectionsAreEdges
  <1>7. QED
    BY <1>3, <1>4, <1>5, <1>6

LEMMA ValidateInv ==
  ASSUME GraphInv, Validate
  PROVE  GraphInv'
  <1>1. /\ UNCHANGED <<kind, connections, edges, bar, at, outputs, status, memory>>
        /\ at = 0 /\ taken' = {} /\ outcome' = "returned" /\ validate
    BY DEF Validate, Idle, structure, values
  <1>2. /\ ValidIsTrue' /\ ConnectionsAreEdges'
        /\ is_valid' \in BOOLEAN /\ order' \in Seq(Ids)
    BY <1>1, ValidationIsTrue
  <1>3. GraphTypeOK'
    BY <1>1, <1>2, LenProperties DEF GraphInv, GraphTypeOK
  <1>4. QED
    BY <1>1, <1>2, <1>3
    DEF GraphInv, RunningIsValid, InputsAreFresh, OnlyCollectingRaises, ActionsHaveCause,
        CompletedHasOutputs, PassedHasStatus

-----------------------------------------------------------------------------
(* Executing                                                               *)

LEMMA ExecuteInv ==
  ASSUME GraphInv, NEW b \in Prices \cup {None}, Execute(b)
  PROVE  GraphInv'
  <1>1. UNCHANGED <<kind, connections, edges>> /\ at = 0 /\ taken' = {}
    BY DEF Execute, Idle, structure
  <1>2. UNCHANGED <<is_valid, order>> \/ validate
    BY DEF Execute, checked
  <1>3. Nodes' = Nodes /\ Orders' = Orders /\ \A c : PortsExist(c)' <=> PortsExist(c)
    BY <1>1 DEF Nodes, Orders, PortsExist
  <1>4. /\ ValidIsTrue' /\ ConnectionsAreEdges'
        /\ is_valid' \in BOOLEAN /\ order' \in Seq(Ids)
    <2>1. CASE validate
      BY <1>1, <2>1, ValidationIsTrue
    <2>2. CASE UNCHANGED <<is_valid, order>>
      BY <1>1, <1>3, <2>2 DEF GraphInv, GraphTypeOK, ValidIsTrue, ConnectionsAreEdges
    <2>3. QED
      BY <1>2, <2>1, <2>2
  <1>5. CASE ~is_valid'
    <2>1. outcome' = "GraphError" /\ UNCHANGED <<bar, at, outputs, status, memory>>
      BY <1>5 DEF Execute, values
    <2>2. GraphTypeOK'
      BY <1>1, <1>4, <2>1, LenProperties DEF GraphInv, GraphTypeOK
    <2>3. QED
      BY <1>1, <1>4, <2>1, <2>2
      DEF GraphInv, RunningIsValid, InputsAreFresh, OnlyCollectingRaises, ActionsHaveCause,
          CompletedHasOutputs, PassedHasStatus
  <1>6. CASE is_valid'
    <2>1. /\ bar' = b /\ at' = 1 /\ outcome' = "running"
          /\ outputs' = [n \in Ids |-> NoOutputs]
          /\ status' = [n \in Ids |-> "IDLE"]
          /\ memory' = [n \in Ids |-> <<>>]
      BY <1>6 DEF Execute
    <2>2. order' \in Orders /\ Nodes # {}
      BY <1>3, <1>4, <1>6 DEF ValidIsTrue
    <2>3. Len(order') \in Nat \ {0} /\ DOMAIN order' = 1..Len(order')
      <3>1. Len(order') = Cardinality(Nodes) /\ DOMAIN order' = 1..Len(order')
        BY <2>2, OrdersAreSequences
      <3>2. Cardinality(Nodes) # 0
        BY <2>2, NodesFinite, FS_EmptySet
      <3>3. QED
        BY <3>1, <3>2, NodesFinite
    <2>4. GraphTypeOK'
      BY <1>1, <1>4, <2>1, <2>3, NoOutputsType, EmptyMemoryType
      DEF GraphInv, GraphTypeOK
    <2>5. InputsAreFresh'
      <3>1. \A i \in 1..Len(order') : order'[i] \in Ids
        BY <1>4, ElementOfSeq
      <3>2. \A i \in 1..Len(order') :
              /\ outputs'[order'[i]] = NoOutputs
              /\ status'[order'[i]] = "IDLE" /\ memory'[order'[i]] = <<>>
        BY <2>1, <3>1
      <3>3. \A c \in connections : order'[1] # c.to
        <4> SUFFICES ASSUME NEW c \in connections, order'[1] = c.to PROVE FALSE
          OBVIOUS
        <4>1. \E j \in 1..1 : j < 1 /\ order'[j] = c.from
          BY <2>2, <2>3, SourcesComeFirst DEF GraphInv
        <4>2. QED
          BY <4>1
      <3>4. QED
        BY <1>1, <2>1, <3>2, <3>3 DEF InputsAreFresh
    <2>6. QED
      BY <1>1, <1>4, <1>6, <2>1, <2>4, <2>5
      DEF GraphInv, RunningIsValid, OnlyCollectingRaises, ActionsHaveCause,
          CompletedHasOutputs, PassedHasStatus
  <1>7. QED
    BY <1>5, <1>6

LEMMA StepInv ==
  ASSUME GraphInv, NEW n \in Ids, Step(n)
  PROVE  GraphInv'
  <1>1. PICK success \in BOOLEAN, memo \in Seq(Values), result \in Values \cup {None} :
          StepOf(n, success, memo, result)
    BY DEF Step
  <1>2. UNCHANGED <<kind, connections, edges, is_valid, order>>
    BY <1>1, StepEffect DEF GraphInv
  <1>3. Nodes' = Nodes /\ Orders' = Orders /\ \A c : PortsExist(c)' <=> PortsExist(c)
    BY <1>2 DEF Nodes, Orders, PortsExist
  <1>4. GraphTypeOK'
    BY StepTypes DEF GraphInv
  <1>5. ValidIsTrue' /\ ConnectionsAreEdges'
    BY <1>2, <1>3 DEF GraphInv, ValidIsTrue, ConnectionsAreEdges
  \* The graph is valid: no port is missing, and the order has each node once.
  <1>6. /\ at > 0 /\ n = order[at] /\ is_valid /\ order \in Orders
        /\ \A c \in connections : PortsExist(c)
    BY <1>1 DEF StepOf, GraphInv, RunningIsValid, ValidIsTrue
  <1>7. DOMAIN order = 1..Len(order) /\ Len(order) \in Nat /\ at \in 1..Len(order)
    BY <1>6, OrdersAreSequences, LenProperties DEF GraphInv, GraphTypeOK
  <1>num. at \in Nat \ {0} /\ Len(order) \in Nat /\ at <= Len(order)
    BY <1>7
  <1>8. \A i \in 1..Len(order) : order[i] = n => i = at
    BY <1>6, <1>7, PlacesAreUnique
  <1>set. n \in Nodes
    BY <1>6, <1>7 DEF Orders
  <1>9. /\ status' = [status EXCEPT ![n] = IF success THEN "COMPLETED" ELSE "ERROR"]
        /\ memory' = [memory EXCEPT ![n] = memo]
        /\ outputs' = [outputs EXCEPT ![n] =
             [p \in OutPorts |-> IF p \in Outputs(kind[n]) THEN result ELSE None]]
        /\ \/ Raise /\ kind[n] = "RebalanceNode"
           \/ /\ taken' \in {taken, taken \cup {n}}
              /\ n \in taken' => n \in taken \/ (kind[n] \in ActionKinds /\ ~Falsy(result))
              /\ \/ at = Len(order) /\ at' = 0 /\ outcome' = "returned" /\ bar' = None
                 \/ at # Len(order) /\ at' = at + 1 /\ UNCHANGED <<outcome, bar>>
    BY <1>1, <1>6, StepEffect DEF GraphInv
  <1>10. \/ at' = 0 /\ outcome' \in {"returned", "NodeError"}
         \/ at' = at + 1 /\ at # Len(order) /\ UNCHANGED outcome
    BY <1>9 DEF Raise
  <1>11. RunningIsValid'
    BY <1>2, <1>6, <1>num, <1>10 DEF GraphInv, RunningIsValid
  <1>12. OnlyCollectingRaises'
    <2> SUFFICES ASSUME outcome' = "NodeError"
                 PROVE  kind[n] = "RebalanceNode"
      BY <1>2, <1>3, <1>6, <1>set DEF OnlyCollectingRaises
    <2>1. outcome = "running"
      BY <1>6 DEF GraphInv, RunningIsValid
    <2>2. QED
      BY <1>9, <2>1
  <1>13. CompletedHasOutputs'
    <2> SUFFICES ASSUME NEW m \in Ids, status'[m] = "COMPLETED", NEW p \in Outputs(kind[m])
                 PROVE  outputs'[m][p] # None
      BY <1>2 DEF CompletedHasOutputs
    <2>1. CASE m = n
      <3>1. success
        BY <1>9, <2>1 DEF GraphInv, GraphTypeOK
      <3>2. result # None
        BY <1>1, <3>1 DEF StepOf
      <3>3. p \in OutPorts
        BY <2>1, <1>1, PortsOfKinds DEF StepOf
      <3>4. outputs'[n] = [q \in OutPorts |-> IF q \in Outputs(kind[n]) THEN result ELSE None]
        BY <1>9 DEF GraphInv, GraphTypeOK
      <3>5. QED
        BY <2>1, <3>2, <3>3, <3>4
    <2>2. CASE m # n
      <3>1. status'[m] = status[m] /\ outputs'[m] = outputs[m]
        BY <1>9, <2>2 DEF GraphInv, GraphTypeOK
      <3>2. QED
        BY <3>1 DEF GraphInv, CompletedHasOutputs
    <2>3. QED
      BY <2>1, <2>2
  <1>14. InputsAreFresh'
    <2> SUFFICES ASSUME at' > 0 PROVE InputsAreFresh'
      BY DEF InputsAreFresh
    <2>1. at' = at + 1 /\ at # Len(order)
      BY <1>10
    <2>2. \A i \in at'..Len(order) :
            /\ outputs'[order[i]] = NoOutputs
            /\ status'[order[i]] = "IDLE" /\ memory'[order[i]] = <<>>
      <3> SUFFICES ASSUME NEW i \in at'..Len(order)
                   PROVE  /\ outputs'[order[i]] = NoOutputs
                          /\ status'[order[i]] = "IDLE" /\ memory'[order[i]] = <<>>
        OBVIOUS
      <3>1. i \in at..Len(order) /\ i # at /\ i \in 1..Len(order)
        BY <1>num, <2>1
      <3>2. order[i] # n
        BY <1>8, <3>1
      <3>3. /\ outputs[order[i]] = NoOutputs
            /\ status[order[i]] = "IDLE" /\ memory[order[i]] = <<>>
        BY <1>6, <3>1 DEF GraphInv, InputsAreFresh
      <3>4. QED
        BY <1>9, <3>2, <3>3 DEF GraphInv, GraphTypeOK
    <2>3. \A c \in connections : \A i \in 1..at' : order[i] = c.to =>
            \E j \in 1..i : j < i /\ order[j] = c.from
      <3> SUFFICES ASSUME NEW c \in connections, NEW i \in 1..at', order[i] = c.to
                   PROVE  \E j \in 1..i : j < i /\ order[j] = c.from
        OBVIOUS
      <3>1. i \in DOMAIN order
        BY <1>num, <2>1
      <3>2. QED
        BY <1>6, <3>1, SourcesComeFirst DEF GraphInv
    <2>4. QED
      BY <1>2, <2>2, <2>3 DEF InputsAreFresh
  <1>15. PassedHasStatus'
    <2> SUFFICES ASSUME at' > 0 PROVE PassedHasStatus'
      BY DEF PassedHasStatus
    <2>1. at' = at + 1 /\ at # Len(order)
      BY <1>10
    <2>2. \A i \in 1..(at' - 1) : status'[order[i]] # "IDLE"
      <3> SUFFICES ASSUME NEW i \in 1..(at' - 1) PROVE status'[order[i]] # "IDLE"
        OBVIOUS
      <3>1. i = at \/ i \in 1..(at - 1)
        BY <1>num, <2>1
      <3>2. i = at => status'[order[i]] # "IDLE"
        BY <1>6, <1>9 DEF GraphInv, GraphTypeOK
      <3>3. i \in 1..(at - 1) => status[order[i]] # "IDLE" /\ order[i] \in Ids
        BY <1>6, <1>7, ElementOfSeq DEF GraphInv, PassedHasStatus, GraphTypeOK
      <3>4. i \in 1..(at - 1) => status'[order[i]] # "IDLE"
        BY <1>9, <3>3 DEF GraphInv, GraphTypeOK
      <3>5. QED
        BY <3>1, <3>2, <3>4
    <2>3. \A m \in taken' : \E i \in 1..(at' - 1) : order[i] = m
      <3>1. taken' \subseteq taken \cup {n}
        BY <1>9, <2>1, <1>7 DEF Raise
      <3>2. \A m \in taken : \E i \in 1..(at - 1) : order[i] = m
        BY <1>6 DEF GraphInv, PassedHasStatus
      <3>3. at \in 1..(at' - 1) /\ 1..(at - 1) \subseteq 1..(at' - 1)
        BY <1>num, <2>1
      <3>4. QED
        BY <1>6, <3>1, <3>2, <3>3
    <2>4. QED
      BY <1>2, <2>2, <2>3 DEF PassedHasStatus
  <1>16. ActionsHaveCause'
    <2> SUFFICES ASSUME NEW m \in taken', LastInto(m, "trigger") # {}
                 PROVE  \/ ~Falsy(Input(m, "trigger")')
                        \/ status'[Setter(m, "trigger").from] = "ERROR"
      <3>1. \A m : LastInto(m, "trigger")' = LastInto(m, "trigger")
        BY <1>2 DEF LastInto, Into
      <3>2. \A m : Setter(m, "trigger")' = Setter(m, "trigger")
        BY <3>1 DEF Setter
      <3>3. QED
        BY <3>1, <3>2 DEF ActionsHaveCause
    <2> DEFINE c == Setter(m, "trigger")
    <2>1. c \in connections /\ c.to = m /\ c.in = "trigger"
      BY InputType DEF GraphInv
    <2>2. /\ Input(m, "trigger") = outputs[c.from][c.out]
          /\ Input(m, "trigger")' = outputs'[c.from][c.out]
      BY <1>2 DEF Input, Setter, LastInto, Into
    <2> HIDE DEF c
    <2>3. taken' \subseteq taken \cup {n}
      BY <1>9 DEF Raise
    <2>4. PICK i \in 1..at : order[i] = m
      <3>1. m = n \/ m \in taken
        BY <2>3
      <3>2. m \in taken => \E i \in 1..(at - 1) : order[i] = m
        BY <1>6 DEF GraphInv, PassedHasStatus
      <3>3. QED
        BY <1>6, <1>7, <3>1, <3>2
    <2>5. PICK j \in 1..i : j < i /\ order[j] = c.from
      BY <1>6, <2>1, <2>4 DEF GraphInv, InputsAreFresh
    <2>6. j \in 1..(at - 1) /\ j \in 1..Len(order)
      BY <1>7, <2>4, <2>5
    <2>7. c.from # n /\ c.from \in Ids
      BY <1>7, <1>8, <2>5, <2>6, ElementOfSeq DEF GraphInv, GraphTypeOK
    <2>8. outputs'[c.from] = outputs[c.from] /\ status'[c.from] = status[c.from]
      BY <1>9, <2>7 DEF GraphInv, GraphTypeOK
    <2>9. ~Falsy(Input(m, "trigger")) \/ status[c.from] = "ERROR"
      <3>1. CASE m \in taken
        BY <3>1 DEF GraphInv, ActionsHaveCause, c
      <3>2. CASE m \notin taken
        <4>1. m = n /\ kind[n] \in ActionKinds /\ ~Falsy(result)
          BY <1>9, <2>3, <3>2 DEF Raise
        <4>2. Input(m, "trigger") # 0
          BY <1>1, <4>1 DEF StepOf
        <4>3. CASE Input(m, "trigger") # None
          BY <4>2, <4>3 DEF Falsy
        <4>4. CASE Input(m, "trigger") = None
          <5>1. status[c.from] \in {"COMPLETED", "ERROR"}
            BY <1>6, <2>5, <2>6, <2>7 DEF GraphInv, GraphTypeOK, PassedHasStatus
          <5>2. c.out \in Outputs(kind[c.from])
            BY <1>6, <2>1 DEF PortsExist, GraphInv, ConnectionsAreEdges
          <5>3. status[c.from] # "COMPLETED"
            BY <2>2, <2>7, <4>4, <5>2 DEF GraphInv, CompletedHasOutputs
          <5>4. QED
            BY <5>1, <5>3
        <4>5. QED
          BY <4>3, <4>4
      <3>3. QED
        BY <3>1, <3>2
    <2>10. QED
      BY <2>2, <2>8, <2>9 DEF c, Falsy
  <1>17. QED
    BY <1>4, <1>5, <1>11, <1>12, <1>13, <1>14, <1>15, <1>16 DEF GraphInv

-----------------------------------------------------------------------------
(* The theorems                                                            *)

LEMMA InitInv == GraphInit => GraphInv
  <1> SUFFICES ASSUME GraphInit PROVE GraphInv
    OBVIOUS
  <1>1. GraphTypeOK
    <2>1. <<>> \in Seq(Ids) /\ 0 \in 0..Len(order)
      BY EmptySeq DEF GraphInit
    <2>2. QED
      BY <2>1, NoOutputsType, EmptyMemoryType DEF GraphInit, GraphTypeOK
  <1>2. ConnectionsAreEdges
    BY DEF GraphInit, ConnectionsAreEdges
  <1>3. QED
    BY <1>1, <1>2
    DEF GraphInit, GraphInv, ValidIsTrue, RunningIsValid, InputsAreFresh,
        CompletedHasOutputs, PassedHasStatus, OnlyCollectingRaises, ActionsHaveCause

LEMMA NextInv ==
  ASSUME GraphInv, GraphNext
  PROVE  GraphInv'
  <1>1. CASE Edit
    BY <1>1, AddNodeInv, RemoveNodeInv, AddConnectionInv DEF Edit
  <1>2. CASE Validate
    BY <1>2, ValidateInv
  <1>3. CASE \E b \in Prices \cup {None} : Execute(b)
    BY <1>3, ExecuteInv
  <1>4. CASE \E n \in Ids : ExecuteOne(n)
    BY <1>4, ExecuteOneIsStep, StepInv DEF GraphInv
  <1>5. QED
    BY <1>1, <1>2, <1>3, <1>4 DEF GraphNext, Run, ExecuteOne

LEMMA StutterInv ==
  ASSUME GraphInv, UNCHANGED graphVars
  PROVE  GraphInv'
  <1>1. UNCHANGED <<kind, connections, edges, is_valid, order, bar, at,
                    outputs, status, memory, taken, outcome>>
    BY DEF graphVars, structure, checked, values
  <1>2. GraphTypeOK'
    BY <1>1 DEF GraphInv, GraphTypeOK
  <1>3. ConnectionsAreEdges' /\ ValidIsTrue' /\ RunningIsValid' /\ InputsAreFresh'
    BY <1>1
    DEF GraphInv, ConnectionsAreEdges, ValidIsTrue, RunningIsValid, InputsAreFresh,
        Nodes, Orders, PortsExist
  <1>4. CompletedHasOutputs' /\ PassedHasStatus' /\ OnlyCollectingRaises'
    BY <1>1
    DEF GraphInv, CompletedHasOutputs, PassedHasStatus, OnlyCollectingRaises, Nodes
  <1>5. ActionsHaveCause'
    BY <1>1 DEF GraphInv, ActionsHaveCause, LastInto, Into, Setter, Input
  <1>6. QED
    BY <1>2, <1>3, <1>4, <1>5 DEF GraphInv

LEMMA InvariantHolds == GraphSpec => []GraphInv
  <1>1. GraphInv /\ [GraphNext]_graphVars => GraphInv'
    BY NextInv, StutterInv
  <1>2. QED
    BY InitInv, <1>1, PTL DEF GraphSpec

\* The state of a graph (graph.py:73-87) keeps its types however it is edited and
\* executed; an execution never reads past the end of its order.
THEOREM GraphTypeCorrect == GraphSpec => []GraphTypeOK
  <1>1. GraphInv => GraphTypeOK
    BY DEF GraphInv
  <1>2. QED
    BY InvariantHolds, <1>1, PTL

\* _connections and _graph stay two copies of the same connections between nodes
\* that are there (graph.py:89-147).
THEOREM ConnectionsNeverDrift == GraphSpec => []ConnectionsAreEdges
  <1>1. GraphInv => ConnectionsAreEdges
    BY DEF GraphInv
  <1>2. QED
    BY InvariantHolds, <1>1, PTL

\* _is_valid never outlives the structure it was computed from (graph.py:157-219).
THEOREM ValidStaysTrue == GraphSpec => []ValidIsTrue
  <1>1. GraphInv => ValidIsTrue
    BY DEF GraphInv
  <1>2. QED
    BY InvariantHolds, <1>1, PTL

\* No node computes with what was left by the bar before, or before its sources
\* have executed (graph.py:221-289).
THEOREM FreshInputs == GraphSpec => []InputsAreFresh
  <1>1. GraphInv => InputsAreFresh
    BY DEF GraphInv
  <1>2. QED
    BY InvariantHolds, <1>1, PTL

\* Every action that is taken has a true trigger or a source that failed
\* (action_nodes.py:57-63).
THEOREM CausedActions == GraphSpec => []ActionsHaveCause
  <1>1. GraphInv => ActionsHaveCause
    BY DEF GraphInv
  <1>2. QED
    BY InvariantHolds, <1>1, PTL

\* Of a graph that is marked valid only an action node without an output
\* action_taken makes execute raise (graph.py:256-289).
THEOREM CollectingRaises == GraphSpec => []OnlyCollectingRaises
  <1>1. GraphInv => OnlyCollectingRaises
    BY DEF GraphInv
  <1>2. QED
    BY InvariantHolds, <1>1, PTL
=============================================================================
