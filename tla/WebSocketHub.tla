---------------------------- MODULE WebSocketHub ----------------------------
(***************************************************************************)
(* The WebSocket hub and its two endpoints (src/ist/api/                   *)
(* websocket_manager.py, routers/websocket.py).  Everything runs on one    *)
(* event loop: an action is what happens between two awaits.  A socket     *)
(* connects once, to /ws/events or to the market endpoint, and its client  *)
(* may go at any time.  A broadcast is a task: it takes the subscribers    *)
(* when it starts, and awaits one send after the other (in the order of    *)
(* _channels, any order here).                                             *)
(***************************************************************************)
EXTENDS Integers, Sequences, FiniteSets

CONSTANTS
  Sockets, EventChannels, MarketChannel, \* channels by event type; one market:<symbol>
  MaxEvents                              \* bound: events published

ASSUME HubAssumption == MaxEvents \in Nat /\ MarketChannel \notin EventChannels

VARIABLES
  bound,       \* _loop is set: somebody has connected
  channels,    \* _channels: registered sockets, and what each is subscribed to
  endpoint,    \* the coroutine of each socket's endpoint
  market,      \* the sockets of the market endpoint
  gone,        \* the sockets whose client has gone
  broadcasts,  \* the tasks, in the order of their creation
  events,      \* how many events were published
  dropped      \* the sockets a failing broadcast has removed

hubVars == <<bound, channels, endpoint, market, gone, broadcasts, events, dropped>>

Channels == EventChannels \cup {MarketChannel}
Registered == DOMAIN channels
subscribers(c) == {w \in Registered : c \in channels[w]}

Without(w) == [v \in Registered \ {w} |-> channels[v]]
Moves(w, to) == endpoint' = [endpoint EXCEPT ![w] = to]

\* Bookkeeping of the broadcasts that are under way: who stayed subscribed since the
\* event was published, and who was subscribed at any time since.
Noted(b) ==
  IF b.state = "done" THEN b
  ELSE LET now == {w \in DOMAIN channels' : b.channel \in channels'[w]}
       IN [b EXCEPT !.steady = @ \cap now, !.ever = @ \cup now]
Note == broadcasts' = [i \in DOMAIN broadcasts |-> Noted(broadcasts[i])]

-----------------------------------------------------------------------------
(* The endpoints                                                           *)

\* A client without the right key is turned away; another waits for accept.
Open(w) ==
  /\ endpoint[w] = "new"
  /\ \/ Moves(w, "over") /\ UNCHANGED <<bound, market>>
     \/ /\ Moves(w, "accepting") /\ bound' = TRUE
        /\ \E isMarket \in BOOLEAN : market' = IF isMarket THEN market \cup {w} ELSE market
  /\ UNCHANGED <<channels, gone, broadcasts, events, dropped>>

\* connect, and the subscription of the market endpoint right after it
Accepted(w) ==
  /\ endpoint[w] = "accepting"
  /\ \/ /\ w \notin gone /\ Moves(w, "greeting")
        /\ channels' = [v \in Registered \cup {w} |->
             IF v = w THEN (IF w \in market THEN {MarketChannel} ELSE {}) ELSE channels[v]]
     \/ w \in gone /\ Moves(w, "over") /\ UNCHANGED channels
  /\ Note
  /\ UNCHANGED <<bound, market, gone, events, dropped>>

\* The greeting is sent outside of the try: nobody removes the socket if it fails.
Greeted(w) ==
  /\ endpoint[w] = "greeting"
  /\ \/ Moves(w, "receiving")
     \/ w \in gone /\ Moves(w, "abandoned")
  /\ UNCHANGED <<bound, channels, market, gone, broadcasts, events, dropped>>

Subscribes(w) ==
  /\ endpoint[w] = "receiving" /\ w \notin gone \cup market
  /\ \E cs \in SUBSET Channels, add \in BOOLEAN :
       channels' = IF w \notin Registered THEN channels
                   ELSE [channels EXCEPT ![w] = IF add THEN @ \cup cs ELSE @ \ cs]
  /\ Note
  /\ Moves(w, "replying")
  /\ UNCHANGED <<bound, market, gone, events, dropped>>

\* ping, an unknown action, and what is not a JSON object at all
Receives(w) ==
  /\ endpoint[w] = "receiving" /\ w \notin gone
  /\ Moves(w, "replying") \/ Moves(w, "abandoned")
  /\ UNCHANGED <<bound, channels, market, gone, broadcasts, events, dropped>>

Replied(w) ==
  /\ endpoint[w] = "replying"
  /\ \/ Moves(w, "receiving")
     \/ w \in gone /\ Moves(w, "abandoned")
  /\ UNCHANGED <<bound, channels, market, gone, broadcasts, events, dropped>>

\* Mutant: the endpoint ends and leaves the socket in the hub.
Disconnected_Keeps(w) ==
  /\ endpoint[w] \in {"receiving", "replying"} /\ w \in gone
  /\ Moves(w, "over")
  /\ UNCHANGED <<bound, channels, market, gone, broadcasts, events, dropped>>

\* WebSocketDisconnect, from a receive or a send
Disconnected(w) ==
  /\ endpoint[w] \in {"receiving", "replying"} /\ w \in gone
  /\ Moves(w, "over")
  /\ channels' = Without(w)
  /\ Note
  /\ UNCHANGED <<bound, market, gone, events, dropped>>

ClientGoes(w) ==
  /\ w \notin gone /\ endpoint[w] # "new"
  /\ gone' = gone \cup {w}
  /\ UNCHANGED <<bound, channels, endpoint, market, broadcasts, events, dropped>>

-----------------------------------------------------------------------------
(* Events and broadcasts                                                   *)

Broadcast(c, fits) ==
  [channel |-> c, fits |-> fits, state |-> "created", rest |-> {},
   reached |-> {}, delivered |-> 0, steady |-> subscribers(c), ever |-> subscribers(c)]

\* schedule_broadcast: nothing before the first connection
schedule_broadcast(c, fits) == IF bound THEN <<Broadcast(c, fits)>> ELSE <<>>

\* The handler of attach_event_bus: one broadcast by type, and one more with a symbol.
\* A payload may be one that JSON cannot express.
Publish ==
  /\ events < MaxEvents
  /\ \E c \in EventChannels, symbol \in BOOLEAN, fits \in BOOLEAN :
       broadcasts' = broadcasts \o schedule_broadcast(c, fits)
                       \o (IF symbol THEN schedule_broadcast(MarketChannel, fits) ELSE <<>>)
  /\ events' = events + 1
  /\ UNCHANGED <<bound, channels, endpoint, market, gone, dropped>>

\* Tasks start in the order of their creation, with the subscribers of that moment.
BroadcastStart(i) ==
  /\ i \in DOMAIN broadcasts /\ broadcasts[i].state = "created"
  /\ \A j \in 1..(i - 1) : broadcasts[j].state # "created"
  /\ LET all == subscribers(broadcasts[i].channel) IN
       broadcasts' = [broadcasts EXCEPT ![i].rest = all,
                                        ![i].state = IF all = {} THEN "done" ELSE "sending"]
  /\ UNCHANGED <<bound, channels, endpoint, market, gone, events, dropped>>

\* Mutant: a failing send ends the broadcast.
BroadcastFails_Stops(i) ==
  /\ i \in DOMAIN broadcasts /\ broadcasts[i].state = "sending"
  /\ \E w \in broadcasts[i].rest :
       /\ ~broadcasts[i].fits \/ w \in gone \/ endpoint[w] \in {"over", "abandoned"}
       /\ channels' = Without(w)
       /\ dropped' = dropped \cup {w}
  /\ broadcasts' = [j \in DOMAIN broadcasts |->
       IF j = i THEN [Noted(broadcasts[i]) EXCEPT !.rest = {}, !.state = "done"]
       ELSE Noted(broadcasts[j])]
  /\ UNCHANGED <<bound, endpoint, market, gone, events>>

Sent(b, w) ==
  [b EXCEPT !.rest = @ \ {w}, !.state = IF b.rest = {w} THEN "done" ELSE @]

Delivered(b, w) == [Sent(b, w) EXCEPT !.reached = @ \cup {w}, !.delivered = @ + 1]

\* A send to a client that has just gone may still succeed.
BroadcastSends(i) ==
  /\ i \in DOMAIN broadcasts /\ broadcasts[i].state = "sending"
  /\ \E w \in broadcasts[i].rest :
       /\ broadcasts[i].fits /\ endpoint[w] \notin {"over", "abandoned"}
       /\ broadcasts' = [broadcasts EXCEPT ![i] = Delivered(@, w)]
  /\ UNCHANGED <<bound, channels, endpoint, market, gone, events, dropped>>

BroadcastFails(i) ==
  /\ i \in DOMAIN broadcasts /\ broadcasts[i].state = "sending"
  /\ \E w \in broadcasts[i].rest :
       /\ ~broadcasts[i].fits \/ w \in gone \/ endpoint[w] \in {"over", "abandoned"}
       /\ channels' = Without(w)
       /\ dropped' = dropped \cup {w}
       /\ broadcasts' = [j \in DOMAIN broadcasts |->
            IF j = i THEN Sent(Noted(broadcasts[i]), w) ELSE Noted(broadcasts[j])]
  /\ UNCHANGED <<bound, endpoint, market, gone, events>>

-----------------------------------------------------------------------------
HubInit ==
  /\ bound = FALSE /\ channels = [w \in {} |-> {}]
  /\ endpoint = [w \in Sockets |-> "new"] /\ market = {} /\ gone = {}
  /\ broadcasts = <<>> /\ events = 0 /\ dropped = {}

SocketStep(w) ==
  \/ Open(w) \/ Accepted(w) \/ Greeted(w) \/ Subscribes(w) \/ Receives(w) \/ Replied(w)
  \/ Disconnected(w) \/ ClientGoes(w)

HubNext ==
  \/ \E w \in Sockets : SocketStep(w)
  \/ Publish
  \/ \E i \in 1..(2 * MaxEvents) : BroadcastStart(i) \/ BroadcastSends(i) \/ BroadcastFails(i)

HubSpec == HubInit /\ [][HubNext]_hubVars

-----------------------------------------------------------------------------
\* A message is delivered at most once to each connection and counted as often as it
\* was delivered, to none that was not subscribed at some time since its event, and,
\* when the broadcast is over, to all that were subscribed all the time since.
HubDelivers ==
  \A i \in DOMAIN broadcasts :
    LET b == broadcasts[i] IN
    /\ b.reached \subseteq b.ever
    /\ b.delivered = Cardinality(b.reached)
    /\ b.state = "done" => b.steady \subseteq b.reached

\* A connection the hub knows is one whose endpoint serves it, or one whose endpoint
\* ended in an error other than a disconnect; an endpoint that serves is one the hub
\* knows, unless a broadcast failed on it.
HubKeepsTrack ==
  \A w \in Sockets :
    /\ w \in Registered => endpoint[w] \notin {"new", "accepting", "over"}
    /\ endpoint[w] \in {"greeting", "receiving", "replying"} => w \in Registered \/ w \in dropped
=============================================================================
