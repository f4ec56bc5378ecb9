---------------------------- MODULE StrategyStore ----------------------------
(***************************************************************************)
(* The ways of a strategy: from a file through the client and the API into *)
(* the store and into a flowchart, and between configurations and graphs   *)
(* (api/client.py, api/routers/strategies.py, strategy/serializer.py,      *)
(* from_config and to_dict of strategy/graph.py, in src/ist).              *)
(*                                                                         *)
(* A configuration is its version, its nodes and its connections; names,   *)
(* ids, params and positions are given, carried along and not looked at.   *)
(* Other fields may be missing, and a text may be empty.                   *)
(***************************************************************************)
EXTENDS Naturals, SequencesExt

CONSTANTS
  StrategyFiles,   \* the configurations that a client may have
  StrategyIds,     \* bound: the ids that create_strategy gives out
  PortsIn, PortsOut, \* the ports of each known type
  Categories,      \* the name of the category of each known type
  WellFormed,      \* the version texts of the form n.n
  NoField          \* a field that is missing

VARIABLES
  design,      \* the configuration that the client has
  strategies,  \* _strategies of the API
  built,       \* the graph built last from each origin, if it was
  saved,       \* what the last graph was serialized to
  reply        \* the answer to the last request or call

storeVars == <<design, strategies, built, saved, reply>>

Entries(seq) == {seq[i] : i \in DOMAIN seq}
IdsOf(config) == {n.id : n \in Entries(config.nodes)}
Ends(link) == {link.from, link.to}

\* What a client may have: lists of nodes and of connections, whose fields may be NoField.
IsConfiguration(config) ==
  /\ config.nodes \in Seq(Entries(config.nodes))
  /\ \A link \in Entries(config.links) : DOMAIN link = {"from", "to", "out", "in"}

-----------------------------------------------------------------------------
(* Checking a configuration                                                *)

\* Mutant: the target of a connection is not looked up.
LinksKnown_From(config) ==
  \A link \in Entries(config.links) :
    NoField \notin Ends(link) /\ link.from \in IdsOf(config) \cup {""}

\* An empty end passes.
LinksKnown(config) ==
  \A link \in Entries(config.links) :
    NoField \notin Ends(link) /\ Ends(link) \subseteq IdsOf(config) \cup {""}

\* An empty type passes; so does any version that is empty or of the form n.n, for there
\* is one schema and no migration.
Validates(config) ==
  /\ config.version \in WellFormed \cup {""}
  /\ config.nodes # <<>>
  /\ \A n \in Entries(config.nodes) : n.type \in DOMAIN Categories \cup {""}
  /\ Cardinality(IdsOf(config)) = Len(config.nodes)
  /\ LinksKnown(config)

-----------------------------------------------------------------------------
(* Between configurations and graphs                                       *)

\* from_config raises for a field that is missing, a type it does not know and a
\* connection to a node there is not.
Builds(config) ==
  /\ \A n \in Entries(config.nodes) : n.type \in DOMAIN Categories
  /\ \A link \in Entries(config.links) : Ends(link) \subseteq IdsOf(config)

\* A node replaces the one of the same id before it; a connection without ports gets
\* those that are taken for none given.
GraphOf(config) ==
  [nodes |-> [id \in IdsOf(config) |->
      config.nodes[CHOOSE i \in DOMAIN config.nodes :
        /\ config.nodes[i].id = id
        /\ \A j \in DOMAIN config.nodes : config.nodes[j].id = id => j <= i].type],
   links |-> {[link EXCEPT !.out = IF @ = "" THEN "value" ELSE @,
                           !.in = IF @ = "" THEN "data" ELSE @] : link \in Entries(config.links)}]

Edges(graph) == {<<link.from, link.to>> : link \in graph.links}

\* validate, at the end of from_config.
GraphIsValid(graph) ==
  LET ids == DOMAIN graph.nodes
  IN  /\ ids # {}
      /\ \A loop \in SUBSET ids \ {{}} : \E n \in loop : \A m \in loop : <<m, n>> \notin Edges(graph)
      /\ \A n \in ids : PortsIn[graph.nodes[n]] = {} \/ \E e \in Edges(graph) : n \in {e[1], e[2]}
      /\ \A link \in graph.links : /\ link.out \in PortsOut[graph.nodes[link.from]]
                                   /\ link.in \in PortsIn[graph.nodes[link.to]]

\* The version is not among what to_dict gives, and the type is that of the category.
Serialized(graph) ==
  [version |-> NoField,
   nodes |-> SetToSeq({[id |-> n, type |-> Categories[graph.nodes[n]]] : n \in DOMAIN graph.nodes}),
   links |-> SetToSeq(graph.links)]

\* deserialize_graph of a configuration of some origin, with or without validation.
Deserialize(origin, config, validate) ==
  LET refused == validate /\ ~Validates(config)
  IN  /\ built' = IF refused \/ ~Builds(config) THEN built
                  ELSE [built EXCEPT ![origin] = {GraphOf(config)}]
      /\ reply' = {[call |-> origin, of |-> config, validate |-> validate,
                    ok |-> ~refused /\ Builds(config)]}
      /\ UNCHANGED <<design, strategies, saved>>

DeserializeSaved(validate) == \E config \in saved : Deserialize("saved", config, validate)

serialize_graph(origin) ==
  /\ \E graph \in built[origin] : saved' = {Serialized(graph)}
  /\ reply' = {}
  /\ UNCHANGED <<design, strategies, built>>

-----------------------------------------------------------------------------
(* The client and the API                                                  *)

\* What the client posts and the API stores: the ports are dropped on the way.
Posted(config) ==
  [version |-> "1.0", nodes |-> config.nodes,
   links |-> [i \in DOMAIN config.links |-> [config.links[i] EXCEPT !.out = "", !.in = ""]]]

\* A field that is missing raises in the client, before anything is sent.
create_strategy(id) ==
  /\ id \notin DOMAIN strategies
  /\ \A n \in Entries(design.nodes) : n.type # NoField
  /\ \A link \in Entries(design.links) : NoField \notin Ends(link)
  /\ strategies' = [s \in DOMAIN strategies \cup {id} |->
                      IF s = id THEN Posted(design) ELSE strategies[s]]
  /\ reply' = {}
  /\ UNCHANGED <<design, built, saved>>

delete_strategy(id) ==
  /\ id \in DOMAIN strategies
  /\ strategies' = [s \in DOMAIN strategies \ {id} |-> strategies[s]]
  /\ reply' = {}
  /\ UNCHANGED <<design, built, saved>>

FlowchartIsValid(config) ==
  config.nodes # <<>> /\ \A link \in Entries(config.links) : Ends(link) \subseteq IdsOf(config)

get_strategy_flowchart(id) ==
  /\ id \in DOMAIN strategies
  /\ reply' = {[call |-> "flowchart", of |-> strategies[id], validate |-> FALSE,
                ok |-> FlowchartIsValid(strategies[id])]}
  /\ UNCHANGED <<design, strategies, built, saved>>

\* A client asks for a strategy and builds its graph.
DeserializeStored(id, validate) ==
  id \in DOMAIN strategies /\ Deserialize("stored", strategies[id], validate)

-----------------------------------------------------------------------------
StoreInit ==
  /\ design \in StrategyFiles
  /\ strategies = <<>> /\ saved = {} /\ reply = {}
  /\ built = [origin \in {"file", "stored", "saved"} |-> {}]

StoreNext ==
  \/ \E id \in StrategyIds :
       \/ create_strategy(id) \/ delete_strategy(id) \/ get_strategy_flowchart(id)
       \/ \E validate \in BOOLEAN : DeserializeStored(id, validate)
  \/ \E validate \in BOOLEAN : Deserialize("file", design, validate) \/ DeserializeSaved(validate)
  \/ \E origin \in {"file", "stored"} : serialize_graph(origin)

StoreSpec == StoreInit /\ [][StoreNext]_storeVars

-----------------------------------------------------------------------------
(* Properties                                                              *)

\* The checks of a strategy agree where they overlap: what the serializer accepts can be
\* built, node for node, unless a type or an end is empty; and with types that are known,
\* a strategy has a valid flowchart exactly when it has nodes and can be built.
ChecksAgree ==
  \A answer \in reply :
    LET config == answer.of
        types == {n.type : n \in Entries(config.nodes)}
        ends == UNION {Ends(link) : link \in Entries(config.links)}
    IN  /\ Validates(config) /\ "" \notin types \cup ends => Builds(config)
        /\ answer.validate /\ answer.ok => Cardinality(IdsOf(config)) = Len(config.nodes)
        /\ answer.call = "flowchart" /\ types \subseteq DOMAIN Categories =>
             (answer.ok <=> Builds(config) /\ config.nodes # <<>>)

\* Posted and stored, a strategy keeps its nodes and edges but not its ports: the graph
\* built from the store is valid only if all its connections go from an output value to
\* an input data, whatever the client's file says.
StoreKeepsShape ==
  \A g \in built.stored :
    /\ \A f \in built.file : f.nodes = g.nodes /\ Edges(f) = Edges(g)
    /\ GraphIsValid(g) => \A e \in Edges(g) :
         "value" \in PortsOut[g.nodes[e[1]]] /\ "data" \in PortsIn[g.nodes[e[2]]]

\* ChecksAgree and StoreKeepsShape: what a strategy is taken for on its way from the file
\* into the store and from there into a graph.
StrategiesAreTracked == ChecksAgree /\ StoreKeepsShape

\* What serialize_graph leaves of a graph "can be used to reconstruct the graph": built
\* from it without validation, for the version is not kept, it is the graph again.
SerializedIsRebuilt ==
  \A answer \in reply : answer.call = "saved" /\ ~answer.validate =>
    answer.ok /\ \E origin \in {"file", "stored"} : built.saved = built[origin]
=============================================================================
