------------------------------- MODULE Service -------------------------------
(***************************************************************************)
(* The parts that serve clients with events, indicators, market data,      *)
(* strategies and models: WebSocket hub, indicator cache, data cache and   *)
(* local files, the store of strategies, and the registry of models.       *)
(*                                                                         *)
(* They share nothing but the time, so a behaviour is one of a single      *)
(* part, chosen at the start; the variables of the others stay as they     *)
(* are.                                                                    *)
(***************************************************************************)
EXTENDS WebSocketHub, IndicatorCache

CONSTANTS Symbols, Endings, Types, Ttls, DefaultTtl, Files, Missing, Broken, Limits, MaxVersions
CONSTANTS StrategyFiles, StrategyIds, PortsIn, PortsOut, Categories, WellFormed, NoField
CONSTANTS Listings, Frames, Windows, Scores, NaN, SavesModels, MaxModels, MaxSaved, MaxTrainings
VARIABLES part, quotes, file, loaded, connected, served
VARIABLES design, strategies, built, saved, reply
VARIABLES models, results, disk, trainings, said

Market == INSTANCE MarketData
Designs == INSTANCE StrategyStore
Factors == INSTANCE FactorModels

\* Files have bars at any times, in any order, maybe several of one time.
ASSUME DataAssumption ==
  /\ Files \subseteq Seq(Nat)
  /\ DefaultTtl \in Nat /\ Ttls \subseteq Nat /\ Limits \subseteq Nat
  /\ \A s \in Symbols : <<s, s>> \in Endings
  /\ MaxVersions \in Nat /\ MaxModels \in Nat /\ MaxSaved \in Nat /\ MaxTrainings \in Nat

\* Scores are numbers, but for the one that compares with none.
ASSUME FactorAssumption ==
  /\ Scores \subseteq Int /\ NaN \notin Scores
  /\ \A listed \in Listings : listed \in Seq({listed[i] : i \in DOMAIN listed})
  /\ \A frame \in Frames : /\ frame.rows \in Nat
                           /\ frame.columns \in Seq({frame.columns[i] : i \in DOMAIN frame.columns})
  /\ \A window \in Windows : window.train \in Nat /\ window.test \in Nat /\ window.step \in Nat

ASSUME StoreAssumption == \A config \in StrategyFiles : Designs!IsConfiguration(config)

cacheOnly == <<cache, hits, misses, enabled, slot, calls, answer>>
dataOnly == <<quotes, file, loaded, connected, served>>
storeOnly == <<design, strategies, built, saved, reply>>
modelsOnly == <<models, results, disk, trainings, said>>
shopOnly == <<storeOnly, modelsOnly>>

HubPart == HubNext /\ UNCHANGED <<part, clock, cacheOnly, dataOnly, shopOnly>>
CachePart == CacheNext /\ UNCHANGED <<part, hubVars, dataOnly, shopOnly>>
DataPart == Market!DataNext /\ UNCHANGED <<part, hubVars, cacheOnly, shopOnly>>
StorePart ==
  Designs!StoreNext /\ UNCHANGED <<part, clock, hubVars, cacheOnly, dataOnly, modelsOnly>>
ModelsPart ==
  Factors!FactorNext /\ UNCHANGED <<part, clock, hubVars, cacheOnly, dataOnly, storeOnly>>

hubOff ==
  /\ bound = {} /\ channels = {} /\ endpoint = {} /\ market = {}
  /\ gone = {} /\ broadcasts = {} /\ events = {} /\ dropped = {}
cacheOff ==
  /\ cache = {} /\ hits = {} /\ misses = {} /\ enabled = {}
  /\ slot = {} /\ calls = {} /\ answer = {}
dataOff == quotes = {} /\ file = {} /\ loaded = {} /\ connected = {} /\ served = {}
storeOff == design = {} /\ strategies = {} /\ built = {} /\ saved = {} /\ reply = {}
modelsOff == models = {} /\ results = {} /\ disk = {} /\ trainings = {} /\ said = {}
shopOff == storeOff /\ modelsOff
servingOff == hubOff /\ cacheOff /\ dataOff

ServiceInit ==
  \/ part = "hub" /\ HubInit /\ clock = 0 /\ cacheOff /\ dataOff /\ shopOff
  \/ part = "cache" /\ CacheInit /\ hubOff /\ dataOff /\ shopOff
  \/ part = "data" /\ Market!DataInit /\ hubOff /\ cacheOff /\ shopOff
  \/ part = "store" /\ Designs!StoreInit /\ clock = 0 /\ servingOff /\ modelsOff
  \/ part = "models" /\ Factors!FactorInit /\ clock = 0 /\ servingOff /\ storeOff

ServiceNext ==
  \/ part = "hub" /\ HubPart
  \/ part = "cache" /\ CachePart
  \/ part = "data" /\ DataPart
  \/ part = "store" /\ StorePart
  \/ part = "models" /\ ModelsPart

ServiceSpec ==
  ServiceInit /\ [][ServiceNext]_<<part, clock, hubVars, cacheOnly, dataOnly, shopOnly>>

-----------------------------------------------------------------------------
\* HubDelivers of WebSocketHub: a broadcast reaches each steady subscriber once and
\* nobody else (broadcast).
BroadcastsDeliver == part = "hub" => HubDelivers

\* HubKeepsTrack of WebSocketHub: the hub knows the connections whose endpoints serve,
\* up to broadcasts that failed (connect, disconnect, the endpoints).
ConnectionsAreKept == part = "hub" => HubKeepsTrack

\* CacheAnswersTruly of IndicatorCache: the cache keeps within its size and answers what
\* the calculation would give (IndicatorCache, cached_indicator, CacheableIndicatorMixin).
CacheAnswers == part = "cache" => CacheAnswersTruly

\* DataAnswersTruly of MarketData: no quote is stale, and the bars of a file are served
\* in order, complete and within their limits (DataCache, LocalDataProvider).
DataAnswers == part = "data" => Market!DataAnswersTruly

\* StrategiesAreTracked of StrategyStore: what a strategy is taken for on its ways between
\* file, store and graph (create_strategy, deserialize_graph, serialize_graph).
StrategiesTracked == part = "store" => Designs!StrategiesAreTracked

\* RegistryIsTruthful of FactorModels: what the registry and its files say of a model is so
\* (fit, evaluate, register, predict, walk_forward_optimize).
ModelsAreTold == part = "models" => Factors!RegistryIsTruthful
=============================================================================
