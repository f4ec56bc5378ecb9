--------------------------- MODULE StrategyGraph ---------------------------
(***************************************************************************)
(* A strategy graph (src/ist/strategy/graph.py) and the nodes it executes  *)
(* on every bar (src/ist/strategy/nodes).                                  *)
(*                                                                         *)
(* The graph keeps its connections twice: as a list, along which values    *)
(* are propagated, and as the edges of a networkx graph, from which the    *)
(* order of execution is computed.  Every call is synchronous; an          *)
(* execution is one step per node, and nothing comes between them.         *)
(*                                                                         *)
(* Values are small numbers, Python's False and True being 0 and 1; None   *)
(* is the absence of one.  The list of connections is a set of records,    *)
(* each with its age: later ones are at the end of the list.               *)
(***************************************************************************)
EXTENDS Naturals, Sequences, FiniteSets

CONSTANTS
  Ids,            \* node ids
  KindsOf,        \* bound: the kinds of node that are added with each id
  UsedInputs,     \* bound: the inputs that are connected
  MaxPrice,       \* bound: the highest price
  None,           \* Python's None
  Absent,         \* the kind of an id that is not in the graph
  Calculate,      \* what an indicator makes of Period prices
  Period,         \* period of the indicators
  Threshold,      \* threshold of the conditions, 0 when they have none
  MinInputs,      \* min_inputs of the gates
  MaxConnections, \* bound: connections at a time
  MaxAge          \* bound: the highest place in the list of connections

Gates == {"AND", "OR", "NOT", "XOR", "NAND"}
NodeKinds == Gates \cup
  {"DataSourceNode", "IndicatorNode", "ConditionNode", "ActionNode", "RebalanceNode"}
GateInputs == <<"input_0", "input_1", "input_2", "input_3", "input_4">>
Inputs(k) ==
  CASE k = "DataSourceNode" -> {}
    [] k = "IndicatorNode" -> {"price"}
    [] k = "ConditionNode" -> {"value_a", "value_b"}
    [] k \in Gates -> {GateInputs[i] : i \in DOMAIN GateInputs}
    [] OTHER -> {"trigger"}
Outputs(k) ==
  CASE k = "DataSourceNode" -> {"close"}
    [] k = "IndicatorNode" -> {"value"}
    [] k = "ConditionNode" -> {"triggered"}
    [] k \in Gates -> {"result"}
    [] k = "ActionNode" -> {"action_taken"}
    [] OTHER -> {}
OutPorts == {"close", "value", "triggered", "result", "action_taken"}
\* The nodes of type ACTION.  A TrailingStopNode is one too, and like a
\* RebalanceNode it has no output action_taken; its other outputs are not read.
ActionKinds == {"ActionNode", "RebalanceNode"}

Values == 0..MaxPrice
Prices == 1..MaxPrice

ASSUME GraphAssumption ==
  /\ IsFiniteSet(Ids)
  /\ KindsOf \in [Ids -> SUBSET NodeKinds] /\ Absent \notin NodeKinds
  /\ MaxPrice \in Nat \ {0} /\ None \notin Values
  /\ Period \in Nat \ {0} /\ Threshold \in Values /\ MinInputs \in Nat
  /\ Calculate \in [[1..Period -> Values] -> Values]
  /\ MaxConnections \in Nat /\ MaxAge \in Nat

VARIABLES
  kind,         \* _nodes: the kind of the node of each id
  connections,  \* _connections
  edges,        \* the edges of _graph
  is_valid,     \* _is_valid
  order,        \* _execution_order
  bar,          \* context.bar_data of the execution: the close of the bar, or None
  at,           \* the place in order of the node that executes next; 0 outside execute
  outputs,      \* the values of the nodes' outputs
  status,       \* node.state
  memory,       \* _history of an indicator; _prev_value_a and _prev_value_b
                \* of a condition
  taken,        \* action_outputs: the action nodes that took their action
  outcome       \* how the latest call ended

structure == <<kind, connections, edges>>
checked == <<is_valid, order>>
values == <<outputs, status, memory>>
graphVars == <<structure, checked, bar, at, values, taken, outcome>>

Nodes == {n \in Ids : kind[n] # Absent}
InPorts == {"price", "value_a", "value_b", "trigger", "data"} \cup
             {GateInputs[i] : i \in DOMAIN GateInputs}
Connection == [from : Ids, to : Ids, out : OutPorts, in : InPorts, age : 0..MaxAge]

GraphTypeOK ==
  /\ kind \in [Ids -> NodeKinds \cup {Absent}]
  /\ connections \subseteq Connection
  /\ edges \subseteq Ids \X Ids
  /\ is_valid \in BOOLEAN
  /\ order \in Seq(Ids)
  /\ bar \in Prices \cup {None}
  /\ at \in 0..Len(order)
  /\ outputs \in [Ids -> [OutPorts -> Values \cup {None}]]
  /\ status \in [Ids -> {"IDLE", "COMPLETED", "ERROR"}]
  /\ memory \in [Ids -> Seq(Values)]
  /\ taken \subseteq Ids
  /\ outcome \in {"returned", "GraphError", "NodeError", "running"}

NoOutputs == [p \in OutPorts |-> None]
Fresh(n) ==
  /\ outputs' = [outputs EXCEPT ![n] = NoOutputs]
  /\ status' = [status EXCEPT ![n] = "IDLE"]
  /\ memory' = [memory EXCEPT ![n] = <<>>]

\* The ports a connection is made between: some that fit, and the ones that
\* add_connection takes for those not given, which fit no node.
Links(from, to) ==
  (Outputs(kind[from]) \X (Inputs(kind[to]) \cap UsedInputs)) \cup {<<"value", "data">>}

-----------------------------------------------------------------------------
(* Editing the graph                                                       *)

Idle == at = 0

\* Mutant: a graph that was validated stays so when a node is added.
AddNode_StaysValid(n, k) ==
  /\ Idle
  /\ kind' = [kind EXCEPT ![n] = k]
  /\ Fresh(n)
  /\ outcome' = "returned"
  /\ taken' = {}
  /\ UNCHANGED <<connections, edges, checked, bar, at>>

\* add_node replaces a node with the same id, whose connections stay.
AddNode(n, k) ==
  /\ Idle
  /\ kind' = [kind EXCEPT ![n] = k]
  /\ Fresh(n)
  /\ is_valid' = FALSE
  /\ outcome' = "returned"
  /\ taken' = {}
  /\ UNCHANGED <<connections, edges, order, bar, at>>

AppendConnection(from, to, link) ==
  /\ Cardinality(connections) < MaxConnections
  /\ \E age \in 0..MaxAge :
       /\ \A c \in connections : c.age < age
       /\ age = 0 \/ \E c \in connections : age = c.age + 1
       /\ connections' = connections \cup
            {[from |-> from, to |-> to, out |-> link[1], in |-> link[2], age |-> age]}

AddConnection(from, to, link) ==
  /\ Idle
  /\ IF {from, to} \subseteq Nodes
       THEN /\ AppendConnection(from, to, link)
            /\ edges' = edges \cup {<<from, to>>}
            /\ is_valid' = FALSE
            /\ outcome' = "returned"
       ELSE outcome' = "GraphError" /\ UNCHANGED <<connections, edges, is_valid>>
  /\ taken' = {}
  /\ UNCHANGED <<kind, order, bar, at, values>>

\* Mutant: the connections of a removed node stay in the list.
RemoveNode_KeepsConnections(n) ==
  /\ Idle /\ n \in Nodes
  /\ kind' = [kind EXCEPT ![n] = Absent]
  /\ Fresh(n)
  /\ edges' = {e \in edges : n \notin {e[1], e[2]}}
  /\ is_valid' = FALSE
  /\ outcome' = "returned"
  /\ taken' = {}
  /\ UNCHANGED <<connections, order, bar, at>>

RemoveNode(n) ==
  /\ Idle /\ n \in Nodes
  /\ kind' = [kind EXCEPT ![n] = Absent]
  /\ Fresh(n)
  /\ connections' = {c \in connections : n \notin {c.from, c.to}}
  /\ edges' = {e \in edges : n \notin {e[1], e[2]}}
  /\ is_valid' = FALSE
  /\ outcome' = "returned"
  /\ taken' = {}
  /\ UNCHANGED <<order, bar, at>>

-----------------------------------------------------------------------------
(* validate                                                                *)

\* Mutant: the nodes are executed in the order in which they were added, say.
Orders_Unsorted ==
  {s \in [1..Cardinality(Nodes) -> Nodes] :
     \A n \in Nodes : \E i \in DOMAIN s : \A j \in DOMAIN s : s[j] = n <=> j = i}

\* The sequences of all nodes in which every edge goes forward: networkx finds
\* one of them, or raises when there is none.
Orders ==
  {s \in [1..Cardinality(Nodes) -> Nodes] :
     /\ \A i, j \in DOMAIN s : <<s[i], s[j]>> \in edges => i < j
     /\ \A n \in Nodes : \E i \in DOMAIN s : \A j \in DOMAIN s : s[j] = n <=> j = i}

Connected == {n \in Nodes : \E e \in edges : n \in {e[1], e[2]}}

PortsExist(c) ==
  /\ c.from \in Nodes => c.out \in Outputs(kind[c.from])
  /\ c.to \in Nodes => c.in \in Inputs(kind[c.to])

NoErrors ==
  /\ Nodes # {}
  /\ \A n \in Nodes \ Connected : Inputs(kind[n]) = {}
  /\ \A c \in connections : PortsExist(c)
  /\ Orders # {}

validate ==
  /\ is_valid' = NoErrors
  /\ IF NoErrors THEN order' \in Orders ELSE UNCHANGED order

Validate ==
  /\ Idle
  /\ validate
  /\ outcome' = "returned"
  /\ taken' = {}
  /\ UNCHANGED <<structure, bar, at, values>>

-----------------------------------------------------------------------------
(* execute                                                                 *)

\* Mutant: the nodes are not reset before they are executed.
Execute_NoReset(b) ==
  /\ Idle
  /\ IF is_valid THEN UNCHANGED checked ELSE validate
  /\ IF is_valid'
       THEN bar' = b /\ at' = 1 /\ outcome' = "running"
       ELSE outcome' = "GraphError" /\ UNCHANGED <<bar, at>>
  /\ taken' = {}
  /\ UNCHANGED <<structure, values>>

\* An invalid graph is validated first; then every node is reset.
Execute(b) ==
  /\ Idle
  /\ IF is_valid THEN UNCHANGED checked ELSE validate
  /\ IF is_valid'
       THEN /\ bar' = b /\ at' = 1 /\ outcome' = "running"
            /\ outputs' = [n \in Ids |-> NoOutputs]
            /\ status' = [n \in Ids |-> "IDLE"]
            /\ memory' = [n \in Ids |-> <<>>]
       ELSE outcome' = "GraphError" /\ UNCHANGED <<bar, at, values>>
  /\ taken' = {}
  /\ UNCHANGED structure

\* Inputs start at None; of several connections to an input the last one sets it.
Into(n, port) == {c \in connections : c.to = n /\ c.in = port}
LastInto(n, port) == {c \in Into(n, port) : \A d \in Into(n, port) : d.age <= c.age}
Setter(n, port) == CHOOSE c \in LastInto(n, port) : TRUE
Input(n, port) ==
  IF LastInto(n, port) = {} THEN None
  ELSE outputs[Setter(n, port).from][Setter(n, port).out]
Truth(b) == IF b THEN 1 ELSE 0
Falsy(v) == v \in {None, 0}

Raise == at' = 0 /\ outcome' = "NodeError" /\ taken' = {} /\ bar' = None

NodeDone(n, success, memo, result) ==
  /\ IF \E c \in connections : c.to = n /\ ~PortsExist(c)
       THEN Raise /\ UNCHANGED values
       ELSE /\ status' = [status EXCEPT ![n] = IF success THEN "COMPLETED" ELSE "ERROR"]
            /\ memory' = [memory EXCEPT ![n] = memo]
            /\ outputs' = [outputs EXCEPT ![n] =
                 [p \in OutPorts |-> IF p \in Outputs(kind[n]) THEN result ELSE None]]
            /\ IF kind[n] \in ActionKinds /\ "action_taken" \notin Outputs(kind[n])
                 THEN Raise
                 ELSE /\ taken' = IF kind[n] \in ActionKinds /\ ~Falsy(result)
                                    THEN taken \cup {n} ELSE taken
                      /\ IF at = Len(order)
                           THEN at' = 0 /\ outcome' = "returned" /\ bar' = None
                           ELSE at' = at + 1 /\ UNCHANGED <<outcome, bar>>
  /\ UNCHANGED <<structure, checked>>

RunsAs(n, kinds) == at > 0 /\ n = order[at] /\ kind[n] \in kinds

ExecuteDataSource(n) ==
  /\ RunsAs(n, {"DataSourceNode"})
  /\ NodeDone(n, bar # None, <<>>, bar)

\* Too short a history raises in the indicator, and the node falls back on the price.
ExecuteIndicator(n) ==
  LET price == Input(n, "price")
      history == Append(memory[n], price)
      recent == [i \in 1..Period |-> history[Len(history) - Period + i]]
  IN
  /\ RunsAs(n, {"IndicatorNode"})
  /\ IF price = None
       THEN NodeDone(n, FALSE, memory[n], None)
       ELSE NodeDone(n, TRUE, history,
                     IF Len(history) >= Period THEN Calculate[recent] ELSE price)

\* A condition of type cross_above.
ExecuteCondition(n) ==
  LET a == Input(n, "value_a")
      b == IF Falsy(Input(n, "value_b")) THEN Threshold ELSE Input(n, "value_b")
      crossed == memory[n] # <<>> /\ memory[n][1] <= memory[n][2] /\ a > b
  IN
  /\ RunsAs(n, {"ConditionNode"})
  /\ IF a = None
       THEN NodeDone(n, FALSE, memory[n], None)
       ELSE NodeDone(n, TRUE, <<a, b>>, Truth(crossed))

First(ports) ==
  GateInputs[CHOOSE i \in DOMAIN GateInputs :
               /\ GateInputs[i] \in ports
               /\ \A j \in DOMAIN GateInputs : GateInputs[j] \in ports => i <= j]

\* A gate leaves out the inputs that are None.
ExecuteGate(n) ==
  LET known == {p \in Inputs(kind[n]) : Input(n, p) # None}
      true == {p \in known : Input(n, p) # 0}
      result ==
        CASE known = {} -> FALSE
          [] known # {} /\ kind[n] = "AND" -> true = known /\ Cardinality(known) >= MinInputs
          [] known # {} /\ kind[n] = "OR" -> true # {}
          [] known # {} /\ kind[n] = "XOR" -> Cardinality(true) = 1
          [] known # {} /\ kind[n] = "NAND" -> true # known
          [] OTHER -> Input(n, First(known)) = 0
  IN
  /\ RunsAs(n, Gates)
  /\ NodeDone(n, TRUE, <<>>, Truth(result))

\* "If no trigger input, always execute".
ExecuteAction(n) ==
  /\ RunsAs(n, ActionKinds)
  /\ NodeDone(n, TRUE, <<>>, Truth(Input(n, "trigger") # 0))

-----------------------------------------------------------------------------
GraphInit ==
  /\ kind = [n \in Ids |-> Absent]
  /\ connections = {} /\ edges = {}
  /\ is_valid = FALSE /\ order = <<>>
  /\ bar = None /\ at = 0
  /\ outputs = [n \in Ids |-> NoOutputs]
  /\ status = [n \in Ids |-> "IDLE"]
  /\ memory = [n \in Ids |-> <<>>]
  /\ taken = {}
  /\ outcome = "returned"

Edit ==
  \/ \E n \in Ids : RemoveNode(n) \/ \E k \in KindsOf[n] : AddNode(n, k)
  \/ \E from, to \in Ids : \E link \in Links(from, to) : AddConnection(from, to, link)

Run ==
  \/ Validate
  \/ \E b \in Prices \cup {None} : Execute(b)
  \/ \E n \in Ids : \/ ExecuteDataSource(n) \/ ExecuteIndicator(n)
                    \/ ExecuteCondition(n) \/ ExecuteGate(n) \/ ExecuteAction(n)

GraphNext == Edit \/ Run
GraphSpec == GraphInit /\ [][GraphNext]_graphVars

-----------------------------------------------------------------------------
(* Properties                                                              *)

\* The list of connections and the networkx graph never drift apart, however nodes
\* are added, replaced and removed; no connection names a node that is gone.
ConnectionsAreEdges ==
  /\ edges = {<<c.from, c.to>> : c \in connections}
  /\ \A c \in connections : {c.from, c.to} \subseteq Nodes

\* While the graph is marked valid its order is still a topological order of its
\* present nodes and its connections still fit the ports of their present kinds.
ValidIsTrue ==
  is_valid =>
    /\ Nodes # {} /\ order \in Orders
    /\ \A c \in connections : PortsExist(c)

\* An execution never shows a node the outputs of the bar before: while it runs,
\* what has not executed is blank and what has executed came after its sources.
InputsAreFresh ==
  at > 0 =>
    /\ \A i \in at..Len(order) :
         /\ outputs[order[i]] = NoOutputs
         /\ status[order[i]] = "IDLE" /\ memory[order[i]] = <<>>
    /\ \A c \in connections : \A i \in 1..at : order[i] = c.to =>
         \E j \in 1..i : j < i /\ order[j] = c.from

\* An action with a connected trigger is taken only when the trigger is true or
\* its source failed on this bar, never because the source has yet to execute.
ActionsHaveCause ==
  \A n \in taken : LastInto(n, "trigger") # {} =>
    \/ ~Falsy(Input(n, "trigger"))
    \/ status[Setter(n, "trigger").from] = "ERROR"

\* No sequence of edits leads an execution to a port that its node no longer has:
\* execute raises only for an action node without an output action_taken.
OnlyCollectingRaises ==
  outcome = "NodeError" => is_valid /\ \E n \in Nodes : kind[n] = "RebalanceNode"
=============================================================================
