---------------------------- MODULE ServiceProofs ----------------------------
(***************************************************************************)
(* What the parts that serve clients promise, for any sockets, series,     *)
(* strategies and data.  The parts share nothing, so each has an invariant *)
(* of its own; the last section puts them together.                        *)
(***************************************************************************)
EXTENDS Service, FiniteSums, SequenceTheorems, Selections

-----------------------------------------------------------------------------
(* The WebSocket hub                                                       *)

Endpoints == {"new", "accepting", "greeting", "receiving", "replying", "over", "abandoned"}
Broadcasts ==
  [channel : Channels, fits : BOOLEAN, state : {"created", "sending", "done"},
   rest : SUBSET Sockets, reached : SUBSET Sockets, delivered : Nat,
   steady : SUBSET Sockets, ever : SUBSET Sockets]

HubShape ==
  /\ DOMAIN channels \subseteq Sockets
  /\ channels \in [DOMAIN channels -> SUBSET Channels]
  /\ endpoint \in [Sockets -> Endpoints]
  /\ broadcasts \in Seq(Broadcasts)

\* A broadcast under way: those it has still to reach are others than those it has
\* reached, both were subscribed at some time, and who stayed is among them.
Delivers(b, subscribed) ==
  /\ b.reached \subseteq b.ever /\ b.rest \subseteq b.ever /\ b.rest \cap b.reached = {}
  /\ IsFiniteSet(b.reached) /\ b.delivered = Cardinality(b.reached)
  /\ b.state # "done" => b.steady \subseteq subscribed /\ subscribed \subseteq b.ever
  /\ b.state = "created" => b.reached = {}
  /\ b.state # "created" => b.steady \subseteq b.reached \cup b.rest
  /\ b.state = "done" => b.rest = {}

HubInv ==
  /\ HubShape
  /\ \A i \in DOMAIN broadcasts : Delivers(broadcasts[i], subscribers(broadcasts[i].channel))
  /\ HubKeepsTrack

\* The bookkeeping of a change of subscriptions keeps what is true of a broadcast.
LEMMA NotedDelivers ==
  ASSUME NEW b \in Broadcasts, NEW before, Delivers(b, before),
         DOMAIN channels' \subseteq Sockets
  PROVE  /\ Noted(b) \in Broadcasts
         /\ Noted(b).channel = b.channel /\ Noted(b).rest = b.rest
         /\ Noted(b).state = b.state /\ Noted(b).reached = b.reached
         /\ Noted(b).fits = b.fits /\ Noted(b).delivered = b.delivered
         /\ Noted(b).steady \subseteq b.steady /\ b.ever \subseteq Noted(b).ever
         /\ b.state # "done" => Noted(b).steady \subseteq (subscribers(b.channel))'
         /\ Delivers(Noted(b), (subscribers(b.channel))')
<1> DEFINE now == {w \in DOMAIN channels' : b.channel \in channels'[w]}
<1>1. (subscribers(b.channel))' = now
  BY DEF subscribers, Registered
<1>2. CASE b.state = "done"
  BY <1>2 DEF Noted, Delivers
<1>3. CASE b.state # "done"
  <2>1. Noted(b) = [b EXCEPT !.steady = b.steady \cap now, !.ever = b.ever \cup now]
    BY <1>3 DEF Noted
  <2>2. now \subseteq Sockets
    OBVIOUS
  <2> HIDE DEF now
  <2>3. /\ Noted(b) \in Broadcasts
        /\ Noted(b).channel = b.channel /\ Noted(b).rest = b.rest
        /\ Noted(b).state = b.state /\ Noted(b).reached = b.reached
        /\ Noted(b).fits = b.fits /\ Noted(b).delivered = b.delivered
        /\ Noted(b).steady = b.steady \cap now /\ Noted(b).ever = b.ever \cup now
    BY <2>1, <2>2 DEF Broadcasts
  <2>4. Delivers(Noted(b), now)
    BY <2>3, <1>3 DEF Delivers
  <2> QED BY <2>3, <2>4, <1>1
<1> QED BY <1>2, <1>3

\* So a change of subscriptions keeps it of all broadcasts (Note).
LEMMA NoteDelivers ==
  ASSUME HubInv, DOMAIN channels' \subseteq Sockets, Note
  PROVE  /\ broadcasts' \in Seq(Broadcasts)
         /\ \A i \in DOMAIN broadcasts' :
              Delivers(broadcasts'[i], (subscribers(broadcasts[i].channel))')
<1>1. \A i \in DOMAIN broadcasts :
        /\ Noted(broadcasts[i]) \in Broadcasts
        /\ Noted(broadcasts[i]).channel = broadcasts[i].channel
        /\ Delivers(Noted(broadcasts[i]), {w \in DOMAIN channels' :
             broadcasts[i].channel \in channels'[w]})
  <2> SUFFICES ASSUME NEW i \in DOMAIN broadcasts
               PROVE  /\ Noted(broadcasts[i]) \in Broadcasts
                      /\ Noted(broadcasts[i]).channel = broadcasts[i].channel
                      /\ Delivers(Noted(broadcasts[i]), {w \in DOMAIN channels' :
                           broadcasts[i].channel \in channels'[w]})
    OBVIOUS
  <2> DEFINE b == broadcasts[i]
  <2>1. b \in Broadcasts /\ Delivers(b, subscribers(b.channel))
    BY DEF HubInv, HubShape
  <2> HIDE DEF b
  <2>2. Noted(b) \in Broadcasts /\ Noted(b).channel = b.channel
        /\ Delivers(Noted(b), {w \in DOMAIN channels' : b.channel \in channels'[w]})
    BY <2>1, NotedDelivers DEF subscribers, Registered
  <2> QED BY <2>2 DEF b
<1>2. DOMAIN broadcasts = 1..Len(broadcasts) /\ Len(broadcasts) \in Nat
  BY DEF HubInv, HubShape
<1>3. broadcasts' = [i \in 1..Len(broadcasts) |-> Noted(broadcasts[i])]
  BY <1>2 DEF Note
<1> HIDE DEF Noted
<1>4. \A i \in DOMAIN broadcasts' :
        /\ broadcasts'[i].channel = broadcasts[i].channel
        /\ Delivers(broadcasts'[i], {w \in DOMAIN channels' : broadcasts[i].channel \in channels'[w]})
  BY <1>1, <1>2, <1>3
<1>5. broadcasts' \in Seq(Broadcasts)
  <2>1. broadcasts' \in [1..Len(broadcasts) -> Broadcasts]
    BY <1>1, <1>2, <1>3
  <2> QED BY <2>1, <1>2
<1>6. \A i \in DOMAIN broadcasts' :
        (subscribers(broadcasts[i].channel))'
          = {w \in DOMAIN channels' : broadcasts[i].channel \in channels'[w]}
  BY <1>4 DEF subscribers, Registered
<1> QED BY <1>4, <1>5, <1>6

\* With the same broadcasts and subscriptions, nothing changes for them.
LEMMA SameDelivers ==
  ASSUME HubInv, UNCHANGED <<broadcasts, channels>>
  PROVE  \A i \in DOMAIN broadcasts' :
           Delivers(broadcasts'[i], (subscribers(broadcasts[i].channel))')
  BY DEF HubInv, subscribers, Registered

\* What the endpoints and the clients do (Open to ClientGoes).
LEMMA SocketKeepsHub ==
  ASSUME HubInv, NEW w \in Sockets, SocketStep(w)
  PROVE  HubInv'
<1> USE DEF HubInv
<1> DEFINE Same == UNCHANGED <<channels, broadcasts>>
<1>1. ASSUME Same,
             \/ UNCHANGED endpoint
             \/ \E to \in Endpoints : Moves(w, to) /\
                  IF w \in Registered THEN to \notin {"new", "accepting", "over"}
                  ELSE to \in {"greeting", "receiving", "replying"} => w \in dropped,
             dropped' = dropped
      PROVE  HubInv'
  <2>1. HubShape'
    BY <1>1 DEF HubShape, Moves, Registered
  <2>2. HubKeepsTrack'
    BY <1>1 DEF HubKeepsTrack, HubShape, Moves, Registered
  <2> QED BY <1>1, <2>1, <2>2, SameDelivers
<1>2. ASSUME Note, DOMAIN channels' \subseteq Sockets,
             channels' \in [DOMAIN channels' -> SUBSET Channels],
             NEW to \in Endpoints, Moves(w, to), dropped' = dropped,
             DOMAIN channels' \ {w} = DOMAIN channels \ {w},
             w \in DOMAIN channels' => to \notin {"new", "accepting", "over"},
             w \notin DOMAIN channels' =>
               to \notin {"greeting", "receiving", "replying"} \/ w \in dropped
      PROVE  HubInv'
  <2>1. HubShape'
    BY <1>2, NoteDelivers DEF HubShape, Moves
  <2>2. HubKeepsTrack'
    BY <1>2 DEF HubKeepsTrack, HubShape, Moves, Registered
  <2>3. \A i \in DOMAIN broadcasts' :
          Delivers(broadcasts'[i], (subscribers(broadcasts[i].channel))')
    BY <1>2, NoteDelivers
  <2> QED BY <2>1, <2>2, <2>3
<1>3. CASE Open(w)
  BY <1>3, <1>1 DEF Open, Moves, Endpoints, HubKeepsTrack
<1>4. CASE Accepted(w)
  <2>1. CASE w \notin gone
    BY <1>4, <2>1, <1>2 DEF Accepted, Endpoints, HubShape, Registered, Channels, HubKeepsTrack
  <2>2. CASE w \in gone
    BY <1>4, <2>2, <1>2 DEF Accepted, Endpoints, HubShape, Registered, HubKeepsTrack
  <2> QED BY <2>1, <2>2
<1>5. CASE Greeted(w) \/ Receives(w) \/ Replied(w)
  BY <1>5, <1>1 DEF Greeted, Receives, Replied, Endpoints, HubKeepsTrack
<1>6. CASE Subscribes(w)
  <2>1. PICK cs \in SUBSET Channels, add \in BOOLEAN :
          channels' = IF w \notin Registered THEN channels
                      ELSE [channels EXCEPT ![w] = IF add THEN @ \cup cs ELSE @ \ cs]
    BY <1>6 DEF Subscribes
  <2>2. DOMAIN channels' = DOMAIN channels /\ channels' \in [DOMAIN channels' -> SUBSET Channels]
    BY <2>1 DEF HubShape, Registered
  <2> QED BY <1>6, <2>2, <1>2 DEF Subscribes, Endpoints, HubShape, HubKeepsTrack, Registered
<1>7. CASE Disconnected(w)
  BY <1>7, <1>2 DEF Disconnected, Without, Endpoints, HubShape, Registered
<1>8. CASE ClientGoes(w)
  BY <1>8, <1>1 DEF ClientGoes
<1> QED BY <1>3, <1>4, <1>5, <1>6, <1>7, <1>8 DEF SocketStep

\* An event may start broadcasts (Publish).
LEMMA PublishKeepsHub ==
  ASSUME HubInv, Publish
  PROVE  HubInv'
<1> DEFINE Fresh(b) ==
      /\ b \in Broadcasts /\ b.state = "created" /\ b.steady = subscribers(b.channel)
      /\ b.rest = {} /\ b.reached = {} /\ b.delivered = 0 /\ b.ever = b.steady
<1>1. \A c \in Channels, fits \in BOOLEAN :
        /\ schedule_broadcast(c, fits) \in Seq(Broadcasts)
        /\ \A i \in DOMAIN schedule_broadcast(c, fits) : Fresh(schedule_broadcast(c, fits)[i])
  <2> TAKE c \in Channels, fits \in BOOLEAN
  <2>1. subscribers(c) \subseteq Sockets
    BY DEF subscribers, Registered, HubInv, HubShape
  <2>2. Fresh(Broadcast(c, fits))
    <3> HIDE DEF subscribers
    <3> QED BY <2>1 DEF Broadcast, Broadcasts
  <2> HIDE DEF Fresh
  <2>3. Broadcast(c, fits) \in Broadcasts
    BY <2>2 DEF Fresh
  <2> QED BY <2>2, <2>3 DEF schedule_broadcast
<1>2. PICK c \in EventChannels, symbol \in BOOLEAN, fits \in BOOLEAN :
        broadcasts' = broadcasts \o schedule_broadcast(c, fits)
                        \o (IF symbol THEN schedule_broadcast(MarketChannel, fits) ELSE <<>>)
  BY DEF Publish
<1> DEFINE one == schedule_broadcast(c, fits)
           two == IF symbol THEN schedule_broadcast(MarketChannel, fits) ELSE <<>>
<1>3. /\ one \in Seq(Broadcasts) /\ \A i \in DOMAIN one : Fresh(one[i])
      /\ two \in Seq(Broadcasts) /\ \A i \in DOMAIN two : Fresh(two[i])
  <2> HIDE DEF Fresh
  <2>1. c \in Channels /\ MarketChannel \in Channels
    BY DEF Channels
  <2> QED BY <1>1, <2>1
<1> HIDE DEF one, two, Fresh
<1>4. broadcasts \in Seq(Broadcasts)
  BY DEF HubInv, HubShape
<1>5. broadcasts' = broadcasts \o one \o two
  BY <1>2 DEF one, two
<1>6. /\ broadcasts' \in Seq(Broadcasts)
      /\ \A i \in DOMAIN broadcasts' :
           \/ i \in DOMAIN broadcasts /\ broadcasts'[i] = broadcasts[i]
           \/ \E j \in DOMAIN one : broadcasts'[i] = one[j]
           \/ \E j \in DOMAIN two : broadcasts'[i] = two[j]
  <2>1. /\ broadcasts \o one \in Seq(Broadcasts)
        /\ \A i \in DOMAIN (broadcasts \o one) :
             \/ i \in DOMAIN broadcasts /\ (broadcasts \o one)[i] = broadcasts[i]
             \/ \E j \in DOMAIN one : (broadcasts \o one)[i] = one[j]
    BY <1>3, <1>4
  <2> DEFINE both == broadcasts \o one
  <2>2. both \in Seq(Broadcasts) /\ broadcasts' = both \o two
    BY <2>1, <1>5
  <2>3. /\ both \o two \in Seq(Broadcasts)
        /\ \A i \in DOMAIN (both \o two) :
             \/ i \in DOMAIN both /\ (both \o two)[i] = both[i]
             \/ \E j \in DOMAIN two : (both \o two)[i] = two[j]
    <3> HIDE DEF both
    <3> QED BY <1>3, <2>2
  <2> QED BY <2>1, <2>2, <2>3
<1>7. \A b : Fresh(b) => Delivers(b, subscribers(b.channel))
  BY FS_EmptySet DEF Fresh, Delivers
<1>8. UNCHANGED <<channels, endpoint, dropped>>
  BY DEF Publish
<1>9. \A i \in DOMAIN broadcasts' :
        Delivers(broadcasts'[i], (subscribers(broadcasts[i].channel))')
  <2> SUFFICES ASSUME NEW i \in DOMAIN broadcasts', NEW b, b = broadcasts'[i]
               PROVE  Delivers(b, {w \in DOMAIN channels : b.channel \in channels[w]})
    BY <1>8 DEF subscribers, Registered
  <2>1. Delivers(b, subscribers(b.channel))
    BY <1>3, <1>6, <1>7 DEF HubInv
  <2> QED BY <2>1 DEF subscribers, Registered
<1>10. HubKeepsTrack' /\ HubShape'
  BY <1>6, <1>8 DEF HubInv, HubKeepsTrack, HubShape, Registered
<1> QED BY <1>9, <1>10 DEF HubInv

\* A broadcast takes its subscribers and sends to one after the other; none is sent to
\* twice, and one that fails is no subscriber any more.
LEMMA BroadcastKeepsHub ==
  ASSUME HubInv, NEW i \in Nat, BroadcastStart(i) \/ BroadcastSends(i) \/ BroadcastFails(i)
  PROVE  HubInv'
<1> DEFINE b == broadcasts[i]
           Subscribed(c) == {w \in DOMAIN channels' : c \in channels'[w]}
<1>1. /\ i \in DOMAIN broadcasts /\ b \in Broadcasts
      /\ Delivers(b, subscribers(b.channel))
      /\ DOMAIN broadcasts = 1..Len(broadcasts) /\ Len(broadcasts) \in Nat
      /\ \A c : subscribers(c) \subseteq Sockets
  <2>1. i \in DOMAIN broadcasts
    BY DEF BroadcastStart, BroadcastSends, BroadcastFails
  <2>2. broadcasts \in Seq(Broadcasts) /\ DOMAIN channels \subseteq Sockets
    BY DEF HubInv, HubShape
  <2>3. b \in Broadcasts /\ DOMAIN broadcasts = 1..Len(broadcasts) /\ Len(broadcasts) \in Nat
    BY <2>1, <2>2
  <2>4. Delivers(b, subscribers(b.channel))
    BY <2>1 DEF HubInv
  <2>5. \A c : subscribers(c) \subseteq Sockets
    BY <2>2 DEF subscribers, Registered
  <2> QED BY <2>1, <2>3, <2>4, <2>5
<1>2. ASSUME UNCHANGED <<channels, endpoint, dropped>>, NEW a \in Broadcasts,
             broadcasts' = [broadcasts EXCEPT ![i] = a], a.channel = b.channel,
             Delivers(a, subscribers(b.channel))
      PROVE  HubInv'
  <2>1. broadcasts' \in Seq(Broadcasts)
    BY <1>1, <1>2, ExceptSeq DEF HubInv, HubShape
  <2>2. HubShape' /\ HubKeepsTrack'
    BY <1>2, <2>1 DEF HubInv, HubShape, HubKeepsTrack, Registered
  <2>3. \A j \in DOMAIN broadcasts' :
          Delivers(broadcasts'[j], {w \in DOMAIN channels' : broadcasts'[j].channel \in channels'[w]})
    <3> SUFFICES ASSUME NEW j \in DOMAIN broadcasts, NEW d, d = broadcasts'[j]
                 PROVE  Delivers(d, subscribers(d.channel))
      BY <1>2 DEF subscribers, Registered, HubInv, HubShape
    <3>1. CASE j = i
      BY <3>1, <1>1, <1>2
    <3>2. CASE j # i
      BY <3>2, <1>1, <1>2 DEF HubInv
    <3> QED BY <3>1, <3>2
  <2> QED BY <2>2, <2>3 DEF HubInv, subscribers, Registered
<1>3. CASE BroadcastStart(i)
  <2> DEFINE all == subscribers(b.channel)
             a == [b EXCEPT !.rest = all, !.state = IF all = {} THEN "done" ELSE "sending"]
  <2>1. broadcasts' = [broadcasts EXCEPT ![i] = a]
    BY <1>1, <1>3 DEF BroadcastStart
  <2>2. b.state = "created"
    BY <1>3 DEF BroadcastStart
  <2>3. all \subseteq Sockets
    BY <1>1
  <2> HIDE DEF all, b
  <2>4. /\ a \in Broadcasts /\ a.channel = b.channel /\ a.rest = all /\ a.reached = b.reached
        /\ a.state = IF all = {} THEN "done" ELSE "sending"
        /\ a.steady = b.steady /\ a.ever = b.ever /\ a.delivered = b.delivered
    BY <1>1, <2>3 DEF Broadcasts
  <2>5. Delivers(a, all)
    <3> HIDE DEF a
    <3> QED BY <1>1, <2>2, <2>4 DEF Delivers, all
  <2> HIDE DEF a
  <2> QED BY <1>2, <1>3, <2>1, <2>4, <2>5 DEF BroadcastStart, all
<1>4. CASE BroadcastSends(i)
  <2>1. PICK w \in b.rest :
          broadcasts' = [broadcasts EXCEPT ![i] = Delivered(@, w)]
    BY <1>4 DEF BroadcastSends
  <2> DEFINE a == Delivered(b, w)
  <2>2. broadcasts' = [broadcasts EXCEPT ![i] = a]
    BY <1>1, <2>1
  <2>3. b.state = "sending"
    BY <1>4 DEF BroadcastSends
  <2> HIDE DEF b
  <2>4. /\ a \in Broadcasts /\ a.channel = b.channel /\ a.rest = b.rest \ {w}
        /\ a.reached = b.reached \cup {w}
        /\ a.state = IF b.rest = {w} THEN "done" ELSE "sending"
        /\ a.steady = b.steady /\ a.ever = b.ever /\ a.delivered = b.delivered + 1
    <3> DEFINE s == Sent(b, w)
    <3>1. /\ s \in Broadcasts /\ s.channel = b.channel /\ s.rest = b.rest \ {w}
          /\ s.reached = b.reached /\ s.state = IF b.rest = {w} THEN "done" ELSE "sending"
          /\ s.steady = b.steady /\ s.ever = b.ever /\ s.delivered = b.delivered
      BY <1>1, <2>1, <2>3 DEF Broadcasts, Sent
    <3>2. w \in Sockets
      BY <1>1, <2>1 DEF Broadcasts
    <3> DEFINE u == [s EXCEPT !.reached = s.reached \cup {w}]
    <3>3. a = [u EXCEPT !.delivered = s.delivered + 1]
      BY DEF Delivered
    <3> HIDE DEF s, a
    <3>4. /\ u \in Broadcasts /\ u.channel = s.channel /\ u.rest = s.rest /\ u.state = s.state
          /\ u.reached = s.reached \cup {w} /\ u.steady = s.steady /\ u.ever = s.ever
      BY <3>1, <3>2 DEF Broadcasts
    <3>5. s.delivered + 1 \in Nat
      BY <3>1 DEF Broadcasts
    <3> HIDE DEF u
    <3>6. /\ a \in Broadcasts /\ a.channel = u.channel /\ a.rest = u.rest /\ a.state = u.state
          /\ a.reached = u.reached /\ a.steady = u.steady /\ a.ever = u.ever
          /\ a.delivered = s.delivered + 1
      BY <3>3, <3>4, <3>5 DEF Broadcasts
    <3> QED BY <3>1, <3>4, <3>6
  <2>5. IsFiniteSet(a.reached) /\ a.delivered = Cardinality(a.reached)
    <3>1. w \notin b.reached /\ IsFiniteSet(b.reached) /\ b.delivered = Cardinality(b.reached)
      BY <1>1, <2>1 DEF Delivers
    <3> HIDE DEF a
    <3> QED BY <2>4, <3>1, FS_AddElement
  <2>6. Delivers(a, subscribers(b.channel))
    <3> HIDE DEF a
    <3> QED BY <1>1, <2>3, <2>4, <2>5 DEF Delivers
  <2> HIDE DEF a
  <2> QED BY <1>2, <1>4, <2>2, <2>4, <2>6 DEF BroadcastSends
<1>5. CASE BroadcastFails(i)
  <2>1. PICK w \in b.rest :
          /\ channels' = Without(w) /\ dropped' = dropped \cup {w}
          /\ broadcasts' = [j \in DOMAIN broadcasts |->
               IF j = i THEN Sent(Noted(b), w) ELSE Noted(broadcasts[j])]
    BY <1>5 DEF BroadcastFails
  <2>2. /\ DOMAIN channels' = DOMAIN channels \ {w} /\ endpoint' = endpoint
        /\ channels' \in [DOMAIN channels' -> SUBSET Channels]
        /\ DOMAIN channels' \subseteq Sockets
    BY <1>5, <2>1 DEF Without, Registered, HubInv, HubShape, BroadcastFails
  <2>3. b.state = "sending"
    BY <1>5 DEF BroadcastFails
  <2> DEFINE n == Noted(b)
             a == Sent(n, w)
  <2>4. /\ n \in Broadcasts /\ n.channel = b.channel /\ n.rest = b.rest
        /\ n.state = "sending" /\ n.reached = b.reached
        /\ n.steady \subseteq Subscribed(b.channel)
        /\ Delivers(n, Subscribed(b.channel))
    <3> HIDE DEF b
    <3> QED BY <1>1, <2>2, <2>3, NotedDelivers DEF subscribers, Registered
  <2> HIDE DEF n
  <2>5. /\ a \in Broadcasts /\ a.channel = b.channel /\ a.rest = b.rest \ {w}
        /\ a.reached = n.reached /\ a.delivered = n.delivered
        /\ a.state = IF b.rest = {w} THEN "done" ELSE "sending"
        /\ a.steady = n.steady /\ a.ever = n.ever
    BY <2>4 DEF Broadcasts, Sent
  <2>6. w \notin n.steady
    BY <2>2, <2>4
  <2>7. Delivers(a, Subscribed(b.channel))
    <3> HIDE DEF a, Subscribed
    <3> QED BY <2>3, <2>4, <2>5, <2>6 DEF Delivers
  <2>8. \A j \in DOMAIN broadcasts :
          /\ broadcasts'[j] \in Broadcasts
          /\ Delivers(broadcasts'[j], Subscribed(broadcasts'[j].channel))
    <3> TAKE j \in DOMAIN broadcasts
    <3>1. CASE j = i
      BY <3>1, <2>1, <2>5, <2>7 DEF n
    <3>2. CASE j # i
      <4> DEFINE d == broadcasts[j]
      <4>1. broadcasts'[j] = Noted(d)
        BY <2>1, <3>2
      <4>2. d \in Broadcasts /\ Delivers(d, subscribers(d.channel))
        BY DEF HubInv, HubShape
      <4> HIDE DEF d
      <4>3. Noted(d) \in Broadcasts /\ Noted(d).channel = d.channel
            /\ Delivers(Noted(d), Subscribed(d.channel))
        BY <4>2, <2>2, NotedDelivers DEF subscribers, Registered
      <4> QED BY <4>1, <4>3
    <3> QED BY <3>1, <3>2
  <2>9. DOMAIN broadcasts' = 1..Len(broadcasts)
    BY <2>1, <1>1
  <2>10. broadcasts' \in [1..Len(broadcasts) -> Broadcasts]
    <3>1. broadcasts' = [j \in 1..Len(broadcasts) |-> broadcasts'[j]]
      BY <2>1, <1>1
    <3> QED BY <3>1, <2>8, <1>1
  <2>11. HubShape'
    <3>1. broadcasts' \in Seq(Broadcasts)
      BY <2>10, <1>1
    <3> QED BY <2>2, <3>1 DEF HubInv, HubShape
  <2>12. HubKeepsTrack'
    BY <2>1, <2>2 DEF HubInv, HubKeepsTrack, Registered
  <2> QED BY <2>8, <2>9, <1>1, <2>11, <2>12 DEF HubInv, subscribers, Registered
<1> QED BY <1>3, <1>4, <1>5

\* Every step of the hub keeps its invariant, and the invariant is what was promised.
LEMMA HubStep == HubInv /\ HubNext => HubInv'
  BY SocketKeepsHub, PublishKeepsHub, BroadcastKeepsHub, HubAssumption DEF HubNext

LEMMA HubStart == HubInit => HubInv
<1> SUFFICES ASSUME HubInit PROVE HubInv
  OBVIOUS
<1>1. HubShape /\ DOMAIN broadcasts = {}
  BY DEF HubInit, HubShape, Endpoints
<1> QED BY <1>1 DEF HubInit, HubInv, HubKeepsTrack, Registered

LEMMA HubStutter ==
  ASSUME HubInv, UNCHANGED hubVars
  PROVE  HubInv'
<1>1. HubShape' /\ HubKeepsTrack'
  BY DEF hubVars, HubInv, HubShape, HubKeepsTrack, Registered
<1> QED BY <1>1, SameDelivers DEF hubVars, HubInv

LEMMA HubPromises == HubInv => HubDelivers /\ HubKeepsTrack
  BY DEF HubInv, HubDelivers, Delivers

-----------------------------------------------------------------------------
(* The caches of indicators                                                *)

Size == IF MaxSize = 0 THEN 1 ELSE MaxSize

\* An entry holds what its indicator gave for a series that its key knows.
IsEntry(k, e) ==
  /\ e.stored \in Nat /\ e.stored <= clock
  /\ \E i \in Indicators, d \in Inputs : k = Key(i, d) /\ e.result = Calculated(i, d)

IsCache(c) ==
  /\ IsFiniteSet(DOMAIN c) /\ Cardinality(DOMAIN c) <= Size
  /\ \A k \in DOMAIN c : IsEntry(k, c[k])

IsSlot(i, s) ==
  \/ s.main = NoSeries
  \/ \E d \in Inputs : s.main = d.main /\ s.result = Calculated(i, d)

Answered(a) ==
  /\ a.result = Calculated(a.by, a.data) \/ a.by.all
  /\ a.result.by = a.by /\ a.result.main = a.data.main
  /\ Ttl # NoTtl => a.age <= Ttl

CacheInv ==
  /\ clock \in Nat
  /\ IsCache(cache)
  /\ DOMAIN slot = Indicators
  /\ \A i \in Indicators : IsSlot(i, slot[i])
  /\ \A a \in answer : Answered(a)

\* Whatever is put, and whatever goes for it, a cache stays one within its size.
LEMMA SetKeepsCache ==
  ASSUME clock \in Nat, NEW c, IsCache(c), NEW i \in Indicators, NEW d \in Inputs,
         NEW after \in set(c, Key(i, d), Calculated(i, d))
  PROVE  IsCache(after)
<1> DEFINE key == Key(i, d)
           result == Calculated(i, d)
<1>1. ASSUME NEW e, IsFiniteSet(DOMAIN e), \A k \in DOMAIN e : IsEntry(k, e[k]),
             Cardinality(DOMAIN e) + 1 <= Size, after = Put(e, key, result)
      PROVE  IsCache(after)
  <2>1. DOMAIN after = DOMAIN e \cup {key}
    BY <1>1 DEF Put
  <2>2. IsFiniteSet(DOMAIN after) /\ Cardinality(DOMAIN after) <= Size
    <3>1. Cardinality(DOMAIN e) \in Nat /\ Size \in Nat
      BY <1>1, FS_CardinalityType, CacheAssumption DEF Size
    <3>2. Cardinality(DOMAIN e) + 1 <= Size /\ IsFiniteSet(DOMAIN e)
      BY <1>1
    <3> HIDE DEF key
    <3>3. /\ IsFiniteSet(DOMAIN e \cup {key})
          /\ \/ Cardinality(DOMAIN e \cup {key}) = Cardinality(DOMAIN e)
             \/ Cardinality(DOMAIN e \cup {key}) = Cardinality(DOMAIN e) + 1
      BY <3>2, FS_AddElement
    <3> QED BY <2>1, <3>1, <3>2, <3>3
  <2>3. \A k \in DOMAIN after : IsEntry(k, after[k])
    <3> TAKE k \in DOMAIN after
    <3>1. CASE k = key
      <4>1. after[k] = [result |-> result, stored |-> clock]
        BY <3>1, <1>1, <2>1 DEF Put
      <4> HIDE DEF result, key
      <4>2. after[k].stored = clock /\ after[k].result = result
        BY <4>1
      <4> QED BY <3>1, <4>2 DEF IsEntry, result, key
    <3>2. CASE k # key
      BY <3>2, <1>1, <2>1 DEF Put
    <3> QED BY <3>1, <3>2
  <2> QED BY <2>2, <2>3 DEF IsCache
<1>2. /\ IsFiniteSet(DOMAIN c) /\ Cardinality(DOMAIN c) \in Nat
      /\ Cardinality(DOMAIN c) <= Size /\ \A k \in DOMAIN c : IsEntry(k, c[k])
  BY FS_CardinalityType DEF IsCache
<1>3. CASE Cardinality(DOMAIN c) >= MaxSize
  <2>1. PICK e \in Evictions(c) : after = Put(e, key, result)
    BY <1>3 DEF set
  <2>2. CASE DOMAIN c = {}
    <3>1. e = c /\ Cardinality(DOMAIN c) = 0
      BY <2>1, <2>2, FS_EmptySet DEF Evictions
    <3> HIDE DEF key, result
    <3> QED BY <1>1, <1>2, <2>1, <3>1, CacheAssumption DEF Size
  <2>3. CASE DOMAIN c # {}
    <3>1. PICK k \in DOMAIN c : e = Drop(c, k)
      BY <2>1, <2>3 DEF Evictions
    <3>2. DOMAIN e = DOMAIN c \ {k} /\ \A l \in DOMAIN e : e[l] = c[l]
      BY <3>1 DEF Drop
    <3>3. IsFiniteSet(DOMAIN e) /\ Cardinality(DOMAIN e) = Cardinality(DOMAIN c) - 1
      BY <1>2, <3>2, FS_RemoveElement
    <3> HIDE DEF key, result
    <3> QED BY <1>1, <1>2, <2>1, <3>2, <3>3
  <2> QED BY <2>2, <2>3
<1>4. CASE ~(Cardinality(DOMAIN c) >= MaxSize)
  <2>1. after = Put(c, key, result)
    BY <1>4 DEF set
  <2> HIDE DEF key, result
  <2> QED BY <1>1, <1>2, <1>4, <2>1, CacheAssumption DEF Size
<1> QED BY <1>3, <1>4

\* Removing entries does no harm (get deletes what has expired).
LEMMA DropKeepsCache ==
  ASSUME NEW c, IsCache(c), NEW k
  PROVE  IsCache(Drop(c, k))
<1>1. DOMAIN Drop(c, k) = DOMAIN c \ {k} /\ \A l \in DOMAIN c \ {k} : Drop(c, k)[l] = c[l]
  BY DEF Drop
<1>2. IsFiniteSet(DOMAIN c \ {k}) /\ Cardinality(DOMAIN c \ {k}) <= Cardinality(DOMAIN c)
  BY FS_Subset DEF IsCache
<1>3. Cardinality(DOMAIN c \ {k}) \in Nat /\ Cardinality(DOMAIN c) \in Nat
  BY <1>2, FS_CardinalityType DEF IsCache
<1> QED BY <1>1, <1>2, <1>3, CacheAssumption DEF IsCache, Size

\* What is answered from an entry, or calculated for the caller, answers as it should.
LEMMA EntryAnswers ==
  ASSUME NEW i \in Indicators, NEW d \in Inputs, NEW e \in Inputs, e.main = d.main,
         NEW age, Ttl # NoTtl => age <= Ttl, Answers(i, d, Calculated(i, e), age)
  PROVE  \A a \in answer' : Answered(a)
<1> DEFINE a == [by |-> i, data |-> d, result |-> Calculated(i, e), age |-> age]
<1>1. a.by = i /\ a.data = d /\ a.age = age /\ a.result = Calculated(i, e)
  OBVIOUS
<1>2. Calculated(i, e).by = i /\ Calculated(i, e).main = d.main
  BY DEF Calculated
<1>3. ~i.all => Calculated(i, e) = Calculated(i, d)
  BY DEF Calculated
<1>4. answer' = {a}
  BY DEF Answers
<1> HIDE DEF a
<1> QED BY <1>1, <1>2, <1>3, <1>4 DEF Answered

\* Two keys are the same for the same indicator and main series only.
LEMMA KeysTell ==
  ASSUME NEW i, NEW j, NEW d, NEW e, Key(i, d) = Key(j, e)
  PROVE  i = j /\ d.main = e.main
  BY DEF Key

\* Every step of the caches keeps their invariant.
LEMMA CacheStep == CacheInv /\ [CacheNext]_cacheVars => CacheInv'
<1> SUFFICES ASSUME CacheInv, [CacheNext]_cacheVars PROVE CacheInv'
  OBVIOUS
<1> USE DEF CacheInv
<1>1. ASSUME clock' = clock, IsCache(cache') PROVE IsCache(cache)'
  BY <1>1 DEF IsCache, IsEntry
<1>2. ASSUME clock' = clock, cache' = cache PROVE IsCache(cache)'
  BY <1>2 DEF IsCache, IsEntry
<1>3. CASE UNCHANGED cacheVars
  BY <1>3, <1>2 DEF cacheVars
<1>4. ASSUME NEW i \in Indicators, NEW d \in Inputs,
             Hit(i, d) \/ Miss(i, d) \/ Uncached(i, d) \/ Store(i, d) \/ calculate_with_cache(i, d)
      PROVE  CacheInv'
  <2>0. 0 \in Nat /\ (Ttl # NoTtl => 0 <= Ttl)
    BY CacheAssumption
  <2>1. CASE Hit(i, d)
    <3> DEFINE k == Key(i, d)
    <3>1. k \in DOMAIN cache /\ (Ttl # NoTtl => ~(clock - cache[k].stored > Ttl))
      BY <2>1 DEF Hit, Found, Expired
    <3>2. PICK j \in Indicators, e \in Inputs :
            k = Key(j, e) /\ cache[k].result = Calculated(j, e) /\ cache[k].stored \in Nat
      BY <3>1 DEF IsCache, IsEntry
    <3>3. j = i /\ e.main = d.main
      BY <3>2, KeysTell
    <3>4. Ttl # NoTtl => clock - cache[k].stored <= Ttl
      BY <3>1, <3>2, CacheAssumption
    <3>5. Answers(i, d, Calculated(i, e), clock - cache[k].stored)
      BY <2>1, <3>2, <3>3 DEF Hit
    <3>6. \A a \in answer' : Answered(a)
      BY <3>3, <3>4, <3>5, EntryAnswers
    <3> QED BY <2>1, <1>2, <3>6 DEF Hit
  <2>2. CASE Miss(i, d)
    <3>1. IsCache(cache')
      BY <2>2, DropKeepsCache, SetKeepsCache DEF Miss
    <3>2. \A a \in answer' : Answered(a)
      BY <2>2, <2>0, EntryAnswers DEF Miss
    <3> QED BY <2>2, <1>1, <3>1, <3>2 DEF Miss
  <2>3. CASE Uncached(i, d)
    <3>1. \A a \in answer' : Answered(a)
      BY <2>3, <2>0, EntryAnswers DEF Uncached
    <3> QED BY <2>3, <1>2, <3>1 DEF Uncached
  <2>4. CASE Store(i, d)
    <3>1. IsCache(cache')
      BY <2>4, SetKeepsCache DEF Store
    <3> QED BY <2>4, <1>1, <3>1 DEF Store
  <2>5. CASE calculate_with_cache(i, d)
    <3> DEFINE new == [main |-> d.main, result |-> Calculated(i, d)]
               old == slot[i]
               kept == IF old.main = d.main THEN old ELSE new
    <3>1. d.main \in Series /\ d.main # NoSeries
      BY CacheAssumption DEF Inputs
    <3>2. PICK e \in Inputs : e.main = d.main /\ kept.main = d.main /\ kept.result = Calculated(i, e)
      <4>1. CASE old.main = d.main
        BY <4>1, <3>1 DEF IsSlot
      <4>2. CASE old.main # d.main
        <5>1. new.main = d.main /\ new.result = Calculated(i, d)
          OBVIOUS
        <5> HIDE DEF new, old
        <5> QED BY <4>2, <5>1
      <4> QED BY <4>1, <4>2
    <3> HIDE DEF kept, new, old
    <3>3. slot' = [slot EXCEPT ![i] = kept] /\ Answers(i, d, kept.result, 0)
      BY <2>5 DEF calculate_with_cache, kept, new, old
    <3>4. \A a \in answer' : Answered(a)
      BY <2>0, <3>2, <3>3, EntryAnswers
    <3>5. IsSlot(i, kept)
      BY <3>2 DEF IsSlot
    <3>6. \A j \in Indicators : IsSlot(j, slot'[j])
      BY <3>3, <3>5
    <3>7. UNCHANGED <<cache, clock>>
      BY <2>5 DEF calculate_with_cache
    <3> QED BY <1>2, <3>3, <3>4, <3>6, <3>7
  <2> QED BY <1>4, <2>1, <2>2, <2>3, <2>4, <2>5
<1>5. ASSUME NEW i \in Indicators, clear_cache(i) PROVE CacheInv'
  <2>1. IsSlot(i, EmptySlot(i))
    BY DEF IsSlot, EmptySlot
  <2>2. slot' = [slot EXCEPT ![i] = EmptySlot(i)] /\ UNCHANGED <<cache, clock, answer>>
    BY <1>5 DEF clear_cache
  <2>3. \A j \in Indicators : IsSlot(j, slot'[j])
    BY <2>1, <2>2
  <2> QED BY <1>2, <2>2, <2>3
<1>6. CASE Switch
  BY <1>6, <1>2 DEF Switch
<1>7. CASE clear
  <2>1. IsCache([k \in {} |-> {}])
    <3>1. DOMAIN [k \in {} |-> {}] = {}
      OBVIOUS
    <3> QED BY <3>1, FS_EmptySet, CacheAssumption DEF IsCache, Size
  <2> QED BY <1>7, <1>1, <2>1 DEF clear
<1>8. CASE TimeGoes
  BY <1>8 DEF TimeGoes, IsCache, IsEntry
<1> QED BY <1>3, <1>4, <1>5, <1>6, <1>7, <1>8 DEF CacheNext

LEMMA CacheStart == CacheInit => CacheInv
<1> SUFFICES ASSUME CacheInit PROVE CacheInv
  OBVIOUS
<1>1. IsCache(cache)
  BY FS_EmptySet, CacheAssumption DEF CacheInit, IsCache, Size
<1>2. \A i \in Indicators : IsSlot(i, slot[i])
  BY DEF CacheInit, IsSlot, EmptySlot
<1> QED BY <1>1, <1>2 DEF CacheInit, CacheInv

LEMMA CachePromises == CacheInv => CacheAnswersTruly
  BY DEF CacheInv, IsCache, Size, Answered, CacheAnswersTruly

-----------------------------------------------------------------------------
(* The ways of a strategy                                                  *)

\* What a graph of the file, or of the store, was built from
BuiltFrom(graphs, config) ==
  graphs # {} => graphs = {Designs!GraphOf(config)} /\ Designs!Builds(config)

\* The store holds what was posted of the design, and the graphs of the file and of the
\* store are those of the design and of what was posted.
StoreInv ==
  /\ Designs!IsConfiguration(design)
  /\ \A id \in DOMAIN strategies : strategies[id] = Designs!Posted(design)
  /\ DOMAIN built = {"file", "stored", "saved"}
  /\ BuiltFrom(built.file, design)
  /\ BuiltFrom(built.stored, Designs!Posted(design))
  /\ Designs!ChecksAgree

\* A design keeps its nodes and its ends when it is posted, and loses its ports
\* (StrategyClient.create_strategy).
LEMMA PostKeepsNodes ==
  ASSUME NEW c, Designs!IsConfiguration(c)
  PROVE  /\ Designs!Posted(c).nodes = c.nodes
         /\ DOMAIN Designs!Posted(c).links = DOMAIN c.links
         /\ \A i \in DOMAIN c.links :
              LET l == Designs!Posted(c).links[i] IN
              /\ l.from = c.links[i].from /\ l.to = c.links[i].to /\ l.out = "" /\ l.in = ""
              /\ DOMAIN l = {"from", "to", "out", "in"}
<1>1. /\ Designs!Posted(c).nodes = c.nodes
      /\ Designs!Posted(c).links = [i \in DOMAIN c.links |-> [c.links[i] EXCEPT !.out = "", !.in = ""]]
  BY DEF Designs!Posted
<1>2. \A i \in DOMAIN c.links : DOMAIN c.links[i] = {"from", "to", "out", "in"}
  BY DEF Designs!IsConfiguration, Designs!Entries
<1> SUFFICES ASSUME NEW i \in DOMAIN c.links
             PROVE  LET l == Designs!Posted(c).links[i] IN
                    /\ l.from = c.links[i].from /\ l.to = c.links[i].to /\ l.out = "" /\ l.in = ""
                    /\ DOMAIN l = {"from", "to", "out", "in"}
  BY <1>1
<1> DEFINE k == c.links[i]
<1>3. Designs!Posted(c).links[i] = [k EXCEPT !.out = "", !.in = ""]
  BY <1>1
<1>4. DOMAIN k = {"from", "to", "out", "in"}
  BY <1>2
<1> HIDE DEF k
<1>5. LET l == [k EXCEPT !.out = "", !.in = ""]
      IN  /\ l.from = k.from /\ l.to = k.to /\ l.out = "" /\ l.in = ""
          /\ DOMAIN l = {"from", "to", "out", "in"}
  BY <1>4
<1> QED BY <1>3, <1>5 DEF k

\* The links of a graph are those of its configuration, with the ports they are taken for.
LinksOf(graph, c) ==
  /\ DOMAIN graph.nodes = Designs!IdsOf(c)
  /\ \A g \in graph.links : \E i \in DOMAIN c.links :
       /\ g.from = c.links[i].from /\ g.to = c.links[i].to
       /\ c.links[i].out = "" => g.out = "value"
       /\ c.links[i].in = "" => g.in = "data"
  /\ \A i \in DOMAIN c.links : \E g \in graph.links :
       g.from = c.links[i].from /\ g.to = c.links[i].to

LEMMA GraphLinks ==
  ASSUME NEW c,
         \A i \in DOMAIN c.links : DOMAIN c.links[i] = {"from", "to", "out", "in"}
  PROVE  LinksOf(Designs!GraphOf(c), c)
<1> DEFINE P(l) == [l EXCEPT !.out = IF l.out = "" THEN "value" ELSE l.out,
                             !.in = IF l.in = "" THEN "data" ELSE l.in]
<1>1. DOMAIN Designs!GraphOf(c).nodes = Designs!IdsOf(c)
  BY DEF Designs!GraphOf
<1>2. Designs!GraphOf(c).links = {P(l) : l \in Designs!Entries(c.links)}
  BY DEF Designs!GraphOf
<1>3. \A i \in DOMAIN c.links :
        /\ P(c.links[i]).from = c.links[i].from /\ P(c.links[i]).to = c.links[i].to
        /\ c.links[i].out = "" => P(c.links[i]).out = "value"
        /\ c.links[i].in = "" => P(c.links[i]).in = "data"
  <2> TAKE i \in DOMAIN c.links
  <2> DEFINE l == c.links[i]
  <2>1. DOMAIN l = {"from", "to", "out", "in"}
    OBVIOUS
  <2> HIDE DEF l
  <2>2. /\ P(l).from = l.from /\ P(l).to = l.to
        /\ l.out = "" => P(l).out = "value"
        /\ l.in = "" => P(l).in = "data"
    BY <2>1
  <2> QED BY <2>2 DEF l
<1>4. \A l : l \in Designs!Entries(c.links) <=> \E i \in DOMAIN c.links : l = c.links[i]
  BY DEF Designs!Entries
<1>5. \A g \in Designs!GraphOf(c).links : \E i \in DOMAIN c.links : g = P(c.links[i])
  <2> HIDE DEF P
  <2> QED BY <1>2, <1>4
<1>6. \A i \in DOMAIN c.links : P(c.links[i]) \in Designs!GraphOf(c).links
  <2> HIDE DEF P
  <2> QED BY <1>2, <1>4
<1> HIDE DEF P
<1> QED BY <1>1, <1>3, <1>5, <1>6 DEF LinksOf

\* Building a graph of the design, of what is stored, or of what was serialized
\* (deserialize_graph).
LEMMA DeserializeKeeps ==
  ASSUME StoreInv, NEW origin \in {"file", "stored", "saved"}, NEW config,
         NEW validate \in BOOLEAN, Designs!Deserialize(origin, config, validate),
         origin = "file" => config = design,
         origin = "stored" => config = Designs!Posted(design)
  PROVE  StoreInv'
<1> DEFINE g == Designs!GraphOf(config)
<1>1. UNCHANGED <<design, strategies, saved>>
  BY DEF Designs!Deserialize
<1>2. \/ built' = built
      \/ built' = [built EXCEPT ![origin] = {g}] /\ Designs!Builds(config)
  BY DEF Designs!Deserialize
<1>3. Designs!ChecksAgree'
  <2> DEFINE a == [call |-> origin, of |-> config, validate |-> validate,
                   ok |-> ~(validate /\ ~Designs!Validates(config)) /\ Designs!Builds(config)]
  <2>1. reply' = {a}
    BY DEF Designs!Deserialize
  <2>2. /\ a.call # "flowchart" /\ a.of = config /\ a.validate = validate
        /\ a.ok => (validate => Designs!Validates(config))
    OBVIOUS
  <2>3. LET types == {n.type : n \in Designs!Entries(config.nodes)}
            ends == UNION {Designs!Ends(link) : link \in Designs!Entries(config.links)}
        IN  Designs!Validates(config) /\ "" \notin types \cup ends => Designs!Builds(config)
    BY DEF Designs!Validates, Designs!LinksKnown, Designs!Builds
  <2>4. Designs!Validates(config) =>
          Designs!Cardinality(Designs!IdsOf(config)) = Len(config.nodes)
    BY DEF Designs!Validates
  <2> HIDE DEF a
  <2> QED BY <2>1, <2>2, <2>3, <2>4 DEF Designs!ChecksAgree
<1>4. CASE built' = built
  BY <1>1, <1>3, <1>4 DEF StoreInv
<1>5. CASE built' = [built EXCEPT ![origin] = {g}] /\ Designs!Builds(config)
  <2>1. DOMAIN built' = {"file", "stored", "saved"}
    BY <1>5 DEF StoreInv
  <2>2. BuiltFrom(built'.file, design') /\ BuiltFrom(built'.stored, Designs!Posted(design)')
    <3>1. Designs!Posted(design)' = Designs!Posted(design)
      BY <1>1 DEF Designs!Posted
    <3> QED BY <1>1, <1>5, <3>1 DEF StoreInv, BuiltFrom
  <2> QED BY <1>1, <1>3, <2>1, <2>2 DEF StoreInv
<1> QED BY <1>2, <1>4, <1>5

\* Every step keeps the invariant.
LEMMA StoreStep == StoreInv /\ [Designs!StoreNext]_storeOnly => StoreInv'
<1> SUFFICES ASSUME StoreInv, [Designs!StoreNext]_storeOnly PROVE StoreInv'
  OBVIOUS
<1>1. ASSUME reply' = {} \/ reply' = reply PROVE Designs!ChecksAgree'
  BY <1>1 DEF StoreInv, Designs!ChecksAgree
<1>2. CASE UNCHANGED storeOnly
  BY <1>2, <1>1 DEF storeOnly, StoreInv
<1>3. ASSUME NEW id \in StrategyIds, Designs!create_strategy(id) PROVE StoreInv'
  BY <1>3, <1>1 DEF StoreInv, Designs!create_strategy
<1>4. ASSUME NEW id \in StrategyIds, Designs!delete_strategy(id) PROVE StoreInv'
  BY <1>4, <1>1 DEF StoreInv, Designs!delete_strategy
<1>5. ASSUME NEW id \in StrategyIds, Designs!get_strategy_flowchart(id) PROVE StoreInv'
  <2> DEFINE config == strategies[id]
             a == [call |-> "flowchart", of |-> config, validate |-> FALSE,
                   ok |-> Designs!FlowchartIsValid(config)]
  <2>1. reply' = {a} /\ UNCHANGED <<design, strategies, built, saved>>
    BY <1>5 DEF Designs!get_strategy_flowchart
  <2>2. a.validate = FALSE /\ a.of = config /\ a.ok = Designs!FlowchartIsValid(config)
    OBVIOUS
  <2>3. LET types == {n.type : n \in Designs!Entries(config.nodes)}
            ends == UNION {Designs!Ends(link) : link \in Designs!Entries(config.links)}
        IN  /\ Designs!Validates(config) /\ "" \notin types \cup ends => Designs!Builds(config)
            /\ types \subseteq DOMAIN Categories =>
                 (Designs!FlowchartIsValid(config)
                    <=> Designs!Builds(config) /\ config.nodes # <<>>)
    BY DEF Designs!Validates, Designs!LinksKnown, Designs!Builds, Designs!FlowchartIsValid
  <2> HIDE DEF a
  <2>4. Designs!ChecksAgree'
    BY <2>1, <2>2, <2>3 DEF Designs!ChecksAgree
  <2> QED BY <2>1, <2>4 DEF StoreInv
<1>6. ASSUME NEW id \in StrategyIds, NEW validate \in BOOLEAN,
             Designs!DeserializeStored(id, validate)
      PROVE  StoreInv'
  BY <1>6, DeserializeKeeps DEF Designs!DeserializeStored, StoreInv
<1>7. ASSUME NEW validate \in BOOLEAN, Designs!Deserialize("file", design, validate)
      PROVE  StoreInv'
  BY <1>7, DeserializeKeeps
<1>8. ASSUME NEW validate \in BOOLEAN, Designs!DeserializeSaved(validate)
      PROVE  StoreInv'
  BY <1>8, DeserializeKeeps DEF Designs!DeserializeSaved
<1>9. ASSUME NEW origin \in {"file", "stored"}, Designs!serialize_graph(origin)
      PROVE  StoreInv'
  BY <1>9, <1>1 DEF StoreInv, Designs!serialize_graph
<1> QED BY <1>2, <1>3, <1>4, <1>5, <1>6, <1>7, <1>8, <1>9 DEF Designs!StoreNext

LEMMA StoreStart == Designs!StoreInit => StoreInv
  BY StoreAssumption DEF Designs!StoreInit, StoreInv, BuiltFrom, Designs!ChecksAgree

LEMMA StorePromises == StoreInv => Designs!StrategiesAreTracked
<1> SUFFICES ASSUME StoreInv PROVE Designs!StrategiesAreTracked
  OBVIOUS
<1> DEFINE post == Designs!Posted(design)
<1>1. /\ Designs!IsConfiguration(design) /\ post.nodes = design.nodes
      /\ DOMAIN post.links = DOMAIN design.links
      /\ \A i \in DOMAIN design.links :
           /\ post.links[i].from = design.links[i].from /\ post.links[i].to = design.links[i].to
           /\ post.links[i].out = "" /\ post.links[i].in = ""
           /\ DOMAIN post.links[i] = {"from", "to", "out", "in"}
           /\ DOMAIN design.links[i] = {"from", "to", "out", "in"}
  <2>1. Designs!IsConfiguration(design)
    BY DEF StoreInv
  <2>2. \A i \in DOMAIN design.links : DOMAIN design.links[i] = {"from", "to", "out", "in"}
    BY <2>1 DEF Designs!IsConfiguration, Designs!Entries
  <2> QED BY <2>1, <2>2, PostKeepsNodes, Zenon
<1> HIDE DEF post
<1>2. Designs!StoreKeepsShape
  <2> DEFINE f == Designs!GraphOf(design)
             g == Designs!GraphOf(post)
  <2>1. f.nodes = g.nodes
    <3> DEFINE TypesOf(nodes, ids) ==
          [id \in ids |-> nodes[CHOOSE i \in DOMAIN nodes :
             /\ nodes[i].id = id
             /\ \A j \in DOMAIN nodes : nodes[j].id = id => j <= i].type]
    <3>1. Designs!IdsOf(post) = Designs!IdsOf(design)
      BY <1>1 DEF Designs!IdsOf
    <3>2. f.nodes = TypesOf(design.nodes, Designs!IdsOf(design))
      BY DEF Designs!GraphOf
    <3>3. g.nodes = TypesOf(post.nodes, Designs!IdsOf(post))
      BY DEF Designs!GraphOf
    <3> HIDE DEF TypesOf, f, g
    <3> QED BY <1>1, <3>1, <3>2, <3>3
  <2>2. LinksOf(f, design) /\ LinksOf(g, post)
    <3>1. \A i \in DOMAIN design.links : DOMAIN design.links[i] = {"from", "to", "out", "in"}
      BY <1>1
    <3>2. \A i \in DOMAIN post.links : DOMAIN post.links[i] = {"from", "to", "out", "in"}
      BY <1>1
    <3> QED BY <3>1, <3>2, GraphLinks
  <2> HIDE DEF f, g
  <2>3. \A l \in f.links : \E k \in g.links : l.from = k.from /\ l.to = k.to
    <3> TAKE l \in f.links
    <3>1. PICK i \in DOMAIN design.links :
            l.from = design.links[i].from /\ l.to = design.links[i].to
      BY <2>2 DEF LinksOf
    <3>2. i \in DOMAIN post.links /\ l.from = post.links[i].from /\ l.to = post.links[i].to
      BY <1>1, <3>1
    <3>3. PICK k \in g.links : k.from = post.links[i].from /\ k.to = post.links[i].to
      BY <2>2, <3>2 DEF LinksOf
    <3> QED BY <3>2, <3>3
  <2>4. \A k \in g.links :
          /\ k.out = "value" /\ k.in = "data"
          /\ \E l \in f.links : l.from = k.from /\ l.to = k.to
    <3> TAKE k \in g.links
    <3>1. PICK i \in DOMAIN post.links :
            /\ k.from = post.links[i].from /\ k.to = post.links[i].to
            /\ post.links[i].out = "" => k.out = "value"
            /\ post.links[i].in = "" => k.in = "data"
      BY <2>2 DEF LinksOf
    <3>2. /\ i \in DOMAIN design.links /\ post.links[i].out = "" /\ post.links[i].in = ""
          /\ k.from = design.links[i].from /\ k.to = design.links[i].to
      BY <1>1, <3>1
    <3>3. PICK l \in f.links : l.from = design.links[i].from /\ l.to = design.links[i].to
      BY <2>2, <3>2 DEF LinksOf
    <3>4. l.from = k.from /\ l.to = k.to
      BY <3>2, <3>3
    <3> QED BY <3>1, <3>2, <3>4
  <2>5. Designs!Edges(f) = Designs!Edges(g)
    BY <2>3, <2>4 DEF Designs!Edges
  <2>6. \A l \in g.links : l.out = "value" /\ l.in = "data"
    BY <2>4
  <2>7. Designs!GraphIsValid(g) =>
          \A e \in Designs!Edges(g) :
            "value" \in PortsOut[g.nodes[e[1]]] /\ "data" \in PortsIn[g.nodes[e[2]]]
    BY <2>6 DEF Designs!GraphIsValid, Designs!Edges
  <2>8. built.file \subseteq {f} /\ built.stored \subseteq {g}
    BY DEF StoreInv, BuiltFrom, f, g, post
  <2> QED BY <2>1, <2>5, <2>7, <2>8 DEF Designs!StoreKeepsShape
<1> QED BY <1>2 DEF StoreInv, Designs!StrategiesAreTracked

-----------------------------------------------------------------------------
(* Selecting and sorting                                                   *)

LEMMA NthIs ==
  ASSUME NEW S, S \subseteq Nat, IsFiniteSet(S), NEW k \in 1..Cardinality(S)
  PROVE  Nth(S, k) \in S /\ Rank(S, Nth(S, k)) = k - 1
<1>1. Cardinality(S) \in Nat
  BY FS_CardinalityType
<1>2. k - 1 \in Nat /\ k - 1 < Cardinality(S)
  BY <1>1
<1>3. \E i \in S : Rank(S, i) = k - 1
  BY <1>2, RankExists
<1> QED BY <1>3 DEF Nth, Rank

\* Later positions are greater.
LEMMA NthGrows ==
  ASSUME NEW S, S \subseteq Nat, IsFiniteSet(S),
         NEW k \in 1..Cardinality(S), NEW m \in 1..Cardinality(S), k < m
  PROVE  Nth(S, k) < Nth(S, m)
<1>1. PICK i \in S, j \in S : i = Nth(S, k) /\ j = Nth(S, m) /\ Rank(S, i) = k - 1 /\ Rank(S, j) = m - 1
  BY NthIs
<1>2. Cardinality(S) \in Nat /\ k \in Int /\ m \in Int
  BY FS_CardinalityType
<1>3. i # j
  BY <1>1, <1>2
<1>4. ~(j < i)
  <2> SUFFICES ASSUME j < i PROVE FALSE
    OBVIOUS
  <2>1. Rank(S, j) < Rank(S, i)
    BY RankGrows
  <2> QED BY <1>1, <1>2, <2>1
<1>5. i \in Int /\ j \in Int
  OBVIOUS
<1> QED BY <1>1, <1>3, <1>4, <1>5

\* Every member has its position.
LEMMA NthOf ==
  ASSUME NEW S, S \subseteq Nat, IsFiniteSet(S), NEW i \in S
  PROVE  \E k \in 1..Cardinality(S) : Nth(S, k) = i
<1>1. PICK k : k = Rank(S, i) + 1
  OBVIOUS
<1>2. Cardinality(S) \in Nat /\ Rank(S, i) \in Nat /\ Rank(S, i) < Cardinality(S)
  BY FS_CardinalityType, RankType, RankBelow
<1>3. k \in 1..Cardinality(S) /\ k - 1 = Rank(S, i)
  BY <1>1, <1>2
<1>4. PICK j \in S : j = Nth(S, k) /\ Rank(S, j) = Rank(S, i)
  BY <1>3, NthIs
<1>5. ~(j < i) /\ ~(i < j)
  <2>1. ASSUME j < i PROVE FALSE
    <3>1. Rank(S, j) < Rank(S, i)
      BY <2>1, RankGrows
    <3> QED BY <1>2, <1>4, <3>1
  <2>2. ASSUME i < j PROVE FALSE
    <3>1. Rank(S, i) < Rank(S, j)
      BY <2>2, RankGrows
    <3> QED BY <1>2, <1>4, <3>1
  <2> QED BY <2>1, <2>2
<1>6. i \in Int /\ j \in Int
  OBVIOUS
<1> QED BY <1>3, <1>4, <1>5, <1>6

\* The positions of a sequence are finitely many numbers.
LEMMA PositionsAre ==
  ASSUME NEW D, NEW s \in Seq(D), NEW S, S \subseteq DOMAIN s
  PROVE  S \subseteq Nat /\ IsFiniteSet(S) /\ Cardinality(S) \in Nat /\ Cardinality(S) <= Len(s)
<1>1. DOMAIN s = 1..Len(s) /\ Len(s) \in Nat
  OBVIOUS
<1>2. IsFiniteSet(1..Len(s))
  BY <1>1, FS_Interval
<1>3. Cardinality(1..Len(s)) = Len(s)
  <2>1. \A a, b \in Int : Cardinality(a..b) = IF a > b THEN 0 ELSE b - a + 1
    BY FS_Interval
  <2>2. PICK n \in Nat : n = Len(s)
    BY <1>1
  <2>3. Cardinality(1..n) = IF 1 > n THEN 0 ELSE n - 1 + 1
    BY <2>1
  <2> QED BY <2>2, <2>3
<1>4. IsFiniteSet(S) /\ Cardinality(S) <= Len(s)
  BY <1>1, <1>2, <1>3, FS_Subset
<1>5. Cardinality(S) \in Nat
  BY <1>4, FS_CardinalityType
<1> QED BY <1>1, <1>4, <1>5

LEMMA KeptIs ==
  ASSUME NEW D, NEW s \in Seq(D), NEW S, S \subseteq DOMAIN s
  PROVE  /\ Kept(s, S) \in Seq(D) /\ Len(Kept(s, S)) = Cardinality(S)
         /\ \A k \in 1..Cardinality(S) : Kept(s, S)[k] = s[Nth(S, k)] /\ Nth(S, k) \in S
         /\ \A i \in S : \E k \in 1..Cardinality(S) : Kept(s, S)[k] = s[i]
<1>1. S \subseteq Nat /\ IsFiniteSet(S) /\ Cardinality(S) \in Nat
  BY PositionsAre
<1>2. PICK n \in Nat : n = Cardinality(S)
  BY <1>1
<1>3. PICK q : q = Kept(s, S)
  OBVIOUS
<1>4. q = [k \in 1..n |-> s[Nth(S, k)]]
  BY <1>2, <1>3 DEF Kept
<1>5. \A k \in 1..n : Nth(S, k) \in S
  BY <1>1, <1>2, NthIs
<1>6. \A k \in 1..n : s[Nth(S, k)] \in D
  BY <1>5
<1>7. q \in [1..n -> D]
  BY <1>4, <1>6
<1>8. q \in Seq(D) /\ Len(q) = n /\ DOMAIN q = 1..n
  BY <1>7
<1>9. \A i \in S : \E k \in 1..n : q[k] = s[i]
  BY <1>1, <1>2, <1>4, NthOf
<1>11. \A k \in 1..n : q[k] = s[Nth(S, k)]
  BY <1>4
<1> HIDE DEF Kept, Nth
<1> QED BY <1>2, <1>3, <1>5, <1>8, <1>9, <1>11

\* A finite set of numbers has a greatest.
LEMMA GreatestOf ==
  ASSUME NEW T, T \subseteq Nat, IsFiniteSet(T), T # {}
  PROVE  \E m \in T : \A t \in T : t <= m
<1>1. Cardinality(T) \in Nat /\ Cardinality(T) # 0
  BY FS_CardinalityType, FS_EmptySet
<1>2. PICK n \in Nat : n = Cardinality(T) /\ n \in 1..Cardinality(T)
  BY <1>1
<1>3. PICK m \in T : Rank(T, m) = n - 1
  BY <1>2, NthIs
<1>4. \A t \in T : ~(m < t)
  <2> SUFFICES ASSUME NEW t \in T, m < t PROVE FALSE
    OBVIOUS
  <2>1. Rank(T, m) < Rank(T, t)
    BY RankGrows
  <2>2. Rank(T, t) < n /\ Rank(T, t) \in Nat
    BY <1>2, RankBelow, RankType
  <2> QED BY <1>3, <2>1, <2>2
<1>5. \A t \in T : t \in Int
  OBVIOUS
<1> QED BY <1>4, <1>5

\* How many of s are less than t, and how many are no more
Below(s, t) == Cardinality({i \in DOMAIN s : s[i] < t})
UpTo(s, t) == Cardinality({i \in DOMAIN s : s[i] <= t})

LEMMA CountsAre ==
  ASSUME NEW s \in Seq(Nat), NEW t \in Nat
  PROVE  /\ Below(s, t) \in Nat /\ UpTo(s, t) \in Nat
         /\ Below(s, t) <= Len(s) /\ UpTo(s, t) <= Len(s)
<1>1. {i \in DOMAIN s : s[i] < t} \subseteq DOMAIN s /\ {i \in DOMAIN s : s[i] <= t} \subseteq DOMAIN s
  OBVIOUS
<1> QED BY <1>1, PositionsAre DEF Below, UpTo

\* Those up to a smaller one are fewer than those below a greater one, or as many.
LEMMA CountsGrow ==
  ASSUME NEW s \in Seq(Nat), NEW t \in Nat, NEW u \in Nat, t < u
  PROVE  UpTo(s, t) <= Below(s, u)
<1> DEFINE A == {i \in DOMAIN s : s[i] <= t}
           B == {i \in DOMAIN s : s[i] < u}
<1>1. \A i \in DOMAIN s : s[i] \in Nat
  OBVIOUS
<1>2. A \subseteq B
  BY <1>1
<1>3. IsFiniteSet(B)
  <2>1. B \subseteq DOMAIN s
    OBVIOUS
  <2> QED BY <2>1, PositionsAre
<1> HIDE DEF A, B
<1>4. Cardinality(A) <= Cardinality(B)
  BY <1>2, <1>3, FS_Subset
<1> QED BY <1>4 DEF A, B, UpTo, Below

\* One that is there is counted.
LEMMA CountsOne ==
  ASSUME NEW s \in Seq(Nat), NEW t \in {s[i] : i \in DOMAIN s}
  PROVE  Below(s, t) < UpTo(s, t)
<1> DEFINE A == {i \in DOMAIN s : s[i] < t}
           B == {i \in DOMAIN s : s[i] <= t}
<1>1. \A i \in DOMAIN s : s[i] \in Nat
  OBVIOUS
<1>2. A \subseteq B /\ A # B
  BY <1>1
<1>3. IsFiniteSet(B)
  <2>1. B \subseteq DOMAIN s
    OBVIOUS
  <2> QED BY <2>1, PositionsAre
<1> HIDE DEF A, B
<1>4. Cardinality(A) < Cardinality(B)
  <2>1. Cardinality(A) <= Cardinality(B) /\ (Cardinality(A) = Cardinality(B) => A = B)
    BY <1>2, <1>3, FS_Subset
  <2>2. Cardinality(A) \in Nat /\ Cardinality(B) \in Nat
    BY <1>2, <1>3, FS_Subset, FS_CardinalityType
  <2> QED BY <1>2, <2>1, <2>2
<1> QED BY <1>4 DEF A, B, UpTo, Below

\* The k-th smallest is there.
LEMMA SortedHas ==
  ASSUME NEW s \in Seq(Nat), NEW k \in 1..Len(s)
  PROVE  \E t \in {s[i] : i \in DOMAIN s} : Below(s, t) < k /\ k <= UpTo(s, t)
<1> DEFINE T == {s[i] : i \in DOMAIN s}
           Good == {t \in T : k <= UpTo(s, t)}
<1>1. /\ DOMAIN s = 1..Len(s) /\ Len(s) \in Nat /\ k \in Nat /\ 1 <= k /\ k <= Len(s)
      /\ \A i \in DOMAIN s : s[i] \in Nat
  OBVIOUS
<1>2. IsFiniteSet(T) /\ T \subseteq Nat /\ T # {}
  <2>1. IsFiniteSet(DOMAIN s)
    BY <1>1, FS_Interval
  <2>2. IsFiniteSet(T)
    <3> DEFINE f == [i \in DOMAIN s |-> s[i]]
    <3>1. f \in Surjection(DOMAIN s, T)
      BY DEF Surjection
    <3> HIDE DEF f, T
    <3> QED BY <2>1, <3>1, FS_Surjection
  <2> QED BY <1>1, <2>2
<1>3. PICK m \in T : \A t \in T : t <= m
  <2> HIDE DEF T
  <2> QED BY <1>2, GreatestOf
<1>4. {i \in DOMAIN s : s[i] <= m} = DOMAIN s
  BY <1>3
<1>5. Cardinality(DOMAIN s) = Len(s)
  <2>1. \A a, b \in Int : Cardinality(a..b) = IF a > b THEN 0 ELSE b - a + 1
    BY FS_Interval
  <2>2. PICK n \in Nat : n = Len(s)
    BY <1>1
  <2>3. Cardinality(1..n) = IF 1 > n THEN 0 ELSE n - 1 + 1
    BY <2>1
  <2> QED BY <1>1, <2>2, <2>3
<1>6. m \in Good
  BY <1>1, <1>4, <1>5 DEF UpTo
<1>7. PICK t \in Good : \A u \in Good : t <= u
  <2>1. Good \subseteq Nat /\ Good # {}
    BY <1>2, <1>6
  <2> HIDE DEF Good
  <2> QED BY <2>1, LeastNat
<1>8. t \in T /\ t \in Nat /\ k <= UpTo(s, t)
  BY <1>2, <1>7
<1>9. Below(s, t) < k
  <2> DEFINE L == {u \in T : u < t}
  <2>1. L \subseteq Nat /\ IsFiniteSet(L)
    <3> HIDE DEF T
    <3> QED BY <1>2, FS_Subset
  <2>2. CASE L = {}
    <3>1. {i \in DOMAIN s : s[i] < t} = {}
      BY <2>2
    <3>2. Below(s, t) = 0
      BY <3>1, FS_EmptySet DEF Below
    <3> QED BY <1>1, <3>2
  <2>3. CASE L # {}
    <3>1. PICK u \in L : \A v \in L : v <= u
      <4> HIDE DEF L
      <4> QED BY <2>1, <2>3, GreatestOf
    <3>2. u \in T /\ u \in Nat /\ u < t
      BY <2>1, <3>1
    <3>3. {i \in DOMAIN s : s[i] < t} = {i \in DOMAIN s : s[i] <= u}
      BY <1>1, <1>8, <3>1, <3>2
    <3>4. Below(s, t) = UpTo(s, u)
      BY <3>3 DEF Below, UpTo
    <3>5. u \notin Good
      BY <1>7, <1>8, <3>2
    <3>6. UpTo(s, u) \in Nat
      BY <3>2, CountsAre
    <3> QED BY <1>1, <3>2, <3>4, <3>5, <3>6
  <2> QED BY <2>2, <2>3
<1> QED BY <1>8, <1>9

LEMMA SortedIs ==
  ASSUME NEW s \in Seq(Nat)
  PROVE  /\ Sorted(s) \in Seq(Nat) /\ DOMAIN Sorted(s) = DOMAIN s
         /\ \A i, j \in DOMAIN Sorted(s) : i < j => Sorted(s)[i] <= Sorted(s)[j]
         /\ {Sorted(s)[i] : i \in DOMAIN Sorted(s)} = {s[i] : i \in DOMAIN s}
<1> DEFINE T == {s[i] : i \in DOMAIN s}
           Is(k, t) == Below(s, t) < k /\ k <= UpTo(s, t)
<1>1. /\ DOMAIN s = 1..Len(s) /\ Len(s) \in Nat /\ T \subseteq Nat
  OBVIOUS
<1>2. PICK q : q = Sorted(s)
  OBVIOUS
<1>3. q = [k \in 1..Len(s) |-> CHOOSE t \in T : Is(k, t)]
  BY <1>1, <1>2 DEF Sorted, Below, UpTo
<1>4. \A k \in 1..Len(s) : \E t \in T : Is(k, t)
  BY SortedHas
<1> HIDE DEF T, Is
<1>5. \A k \in 1..Len(s) : q[k] \in T /\ Is(k, q[k])
  BY <1>3, <1>4
<1>6. q \in [1..Len(s) -> Nat]
  BY <1>1, <1>3, <1>5
<1>7. q \in Seq(Nat) /\ DOMAIN q = DOMAIN s
  BY <1>1, <1>6
<1>8. \A i, j \in DOMAIN q : i < j => q[i] <= q[j]
  <2> SUFFICES ASSUME NEW i \in DOMAIN q, NEW j \in DOMAIN q, i < j, ~(q[i] <= q[j])
               PROVE  FALSE
    OBVIOUS
  <2>1. q[i] \in Nat /\ q[j] \in Nat /\ i \in Nat /\ j \in Nat /\ Is(i, q[i]) /\ Is(j, q[j])
    BY <1>1, <1>5, <1>7
  <2>2. UpTo(s, q[j]) <= Below(s, q[i])
    BY <2>1, CountsGrow
  <2>3. UpTo(s, q[j]) \in Nat /\ Below(s, q[i]) \in Nat
    BY <2>1, CountsAre
  <2> QED BY <2>1, <2>2, <2>3 DEF Is
<1>9. ASSUME NEW t \in T PROVE \E k \in 1..Len(s) : q[k] = t
  <2>1. PICK k : k = Below(s, t) + 1
    OBVIOUS
  <2>2. t \in Nat /\ Below(s, t) \in Nat /\ UpTo(s, t) \in Nat /\ UpTo(s, t) <= Len(s)
        /\ Below(s, t) < UpTo(s, t)
    BY <1>1, CountsAre, CountsOne DEF T
  <2>3. k \in 1..Len(s)
    BY <1>1, <2>1, <2>2
  <2>4. PICK u \in Nat : u = q[k] /\ Below(s, u) < k /\ k <= UpTo(s, u)
    BY <1>5, <1>6, <2>3 DEF Is
  <2>5. Below(s, u) \in Nat /\ UpTo(s, u) \in Nat
    BY CountsAre
  <2>6. ~(t < u)
    <3> SUFFICES ASSUME t < u PROVE FALSE
      OBVIOUS
    <3>1. UpTo(s, t) <= Below(s, u)
      BY <2>2, CountsGrow
    <3> QED BY <2>1, <2>2, <2>4, <2>5, <3>1
  <2>7. ~(u < t)
    <3> SUFFICES ASSUME u < t PROVE FALSE
      OBVIOUS
    <3>1. UpTo(s, u) <= Below(s, t)
      BY <2>2, CountsGrow
    <3> QED BY <2>1, <2>2, <2>4, <2>5, <3>1
  <2> QED BY <2>2, <2>3, <2>4, <2>6, <2>7
<1>10. {q[i] : i \in DOMAIN q} = T
  BY <1>1, <1>5, <1>7, <1>9
<1> QED BY <1>2, <1>7, <1>8, <1>10 DEF T

-----------------------------------------------------------------------------
(* Market data                                                             *)

\* Market data selects and sorts as above.
LEMMA MarketSelects ==
  /\ \A S : Market!Cardinality(S) = Cardinality(S)
  /\ \A S, k : Market!Nth(S, k) = Nth(S, k)
  /\ \A s, S : Market!Kept(s, S) = Kept(s, S)
  /\ \A s : Market!Sorted(s) = Sorted(s)
<1>1. \A S : Market!Cardinality(S) = Cardinality(S)
  BY DEF Cardinality, Market!Cardinality
<1>2. \A S, k : Market!Nth(S, k) = Nth(S, k)
  BY <1>1 DEF Nth, Market!Nth
<1>3. \A s, S : Market!Kept(s, S) = Kept(s, S)
  BY <1>1, <1>2 DEF Kept, Market!Kept
<1>4. \A s : Market!Sorted(s) = Sorted(s)
  BY DEF Sorted, Market!Sorted, Cardinality, Market!Cardinality
<1> QED BY <1>1, <1>2, <1>3, <1>4

InOrder(bars) == \A i, j \in DOMAIN bars : i < j => bars[i] <= bars[j]
SameBars(bars, others) == {bars[i] : i \in DOMAIN bars} = {others[i] : i \in DOMAIN others}

\* What get_bars promises of its answer
BarsAnswer(all, got, start, end, limit) ==
  LET in == {i \in DOMAIN all : start <= all[i] /\ all[i] <= end} IN
  /\ InOrder(got)
  /\ \A k \in DOMAIN got : /\ start <= got[k] /\ got[k] <= end
                           /\ \E i \in DOMAIN all : all[i] = got[k]
  /\ \A i \in in : \/ \E k \in DOMAIN got : got[k] = all[i]
                   \/ \A k \in DOMAIN got : all[i] <= got[k]
  /\ IF limit = 0 \/ Cardinality(in) <= limit
       THEN Len(got) = Cardinality(in) /\ \A i \in in : \E k \in DOMAIN got : got[k] = all[i]
       ELSE Len(got) = limit

\* The last bars of an ordered sequence are its latest (Filtered).
LEMMA FilteredAnswers ==
  ASSUME NEW all \in Seq(Nat), InOrder(all), NEW start \in Nat, NEW end \in Nat,
         NEW limit \in Nat
  PROVE  BarsAnswer(all, Market!Filtered(all, start, end, limit), start, end, limit)
<1> DEFINE S == {i \in DOMAIN all : start <= all[i] /\ all[i] <= end}
<1>1. S \subseteq DOMAIN all
  OBVIOUS
<1>2. PICK n \in Nat : n = Cardinality(S)
  BY <1>1, PositionsAre
<1>3. PICK in \in Seq(Nat) : in = Kept(all, S)
  BY <1>1, KeptIs
<1>4. /\ Len(in) = n /\ DOMAIN in = 1..n
      /\ \A k \in 1..n : in[k] = all[Nth(S, k)] /\ Nth(S, k) \in S
      /\ \A i \in S : \E k \in 1..n : in[k] = all[i]
  <2> HIDE DEF S
  <2> QED BY <1>1, <1>2, <1>3, KeptIs
<1>5. InOrder(in)
  <2> SUFFICES ASSUME NEW k \in 1..n, NEW m \in 1..n, k < m PROVE in[k] <= in[m]
    BY <1>4 DEF InOrder
  <2>1. S \subseteq Nat /\ IsFiniteSet(S)
    BY <1>1, PositionsAre
  <2> HIDE DEF S
  <2>2. Nth(S, k) < Nth(S, m)
    BY <1>2, <2>1, NthGrows
  <2>3. Nth(S, k) \in DOMAIN all /\ Nth(S, m) \in DOMAIN all
    BY <1>1, <1>4
  <2> QED BY <1>4, <2>2, <2>3 DEF InOrder
<1>6. /\ \A k \in 1..n : /\ start <= in[k] /\ in[k] <= end
                         /\ \E i \in DOMAIN all : all[i] = in[k]
      /\ \A i \in S : \E k \in 1..n : in[k] = all[i]
  BY <1>4
<1>7. PICK got : got = Market!Filtered(all, start, end, limit)
  OBVIOUS
<1>8. got = IF limit = 0 \/ n <= limit THEN in ELSE SubSeq(in, n - limit + 1, n)
  <2>1. Market!Within(all, start, end) = S
    BY DEF Market!Within
  <2>2. Market!Kept(all, S) = in
    BY <1>3, MarketSelects
  <2> HIDE DEF S
  <2> QED BY <1>4, <1>7, <2>1, <2>2 DEF Market!Filtered
<1>9. BarsAnswer(all, got, start, end, limit)
  <2>1. CASE limit = 0 \/ n <= limit
    <3>1. got = in
      BY <1>8, <2>1
    <3> QED BY <1>2, <1>4, <1>5, <1>6, <2>1, <3>1 DEF BarsAnswer
  <2>2. CASE ~(limit = 0 \/ n <= limit)
    <3>1. got = SubSeq(in, n - limit + 1, n)
      BY <1>8, <2>2
    <3>2. /\ Len(got) = limit /\ DOMAIN got = 1..limit
          /\ \A k \in 1..limit : got[k] = in[n - limit + k] /\ n - limit + k \in 1..n
      <4> DEFINE m == n - limit + 1
      <4>1. m \in 1..n /\ n - m + 1 = limit /\ \A k \in 1..limit : m + k - 1 = n - limit + k /\ n - limit + k \in 1..n
        BY <2>2
      <4>2. got = SubSeq(in, m, n)
        BY <3>1
      <4> HIDE DEF m
      <4>3. got = [k \in 1..(n - m + 1) |-> in[m + k - 1]] /\ got \in Seq(Nat) /\ Len(got) = n - m + 1
        BY <1>4, <4>1, <4>2
      <4> QED BY <4>1, <4>3
    <3>3. InOrder(got)
      <4> SUFFICES ASSUME NEW k \in 1..limit, NEW m \in 1..limit, k < m
                   PROVE  got[k] <= got[m]
        BY <3>2 DEF InOrder
      <4>1. PICK a \in 1..n, b \in 1..n : a = n - limit + k /\ b = n - limit + m
        BY <3>2
      <4>2. a < b
        BY <4>1
      <4>3. in[a] <= in[b]
        BY <1>4, <1>5, <4>2 DEF InOrder
      <4> QED BY <3>2, <4>1, <4>3
    <3>4. \A k \in DOMAIN got : /\ start <= got[k] /\ got[k] <= end
                                /\ \E i \in DOMAIN all : all[i] = got[k]
      BY <1>6, <3>2
    <3>5. ASSUME NEW i \in S
          PROVE  \/ \E k \in DOMAIN got : got[k] = all[i]
                 \/ \A k \in DOMAIN got : all[i] <= got[k]
      <4>1. PICK m \in 1..n : in[m] = all[i]
        BY <1>6
      <4>2. CASE n - limit < m
        <5>1. m - (n - limit) \in 1..limit /\ n - limit + (m - (n - limit)) = m
          BY <2>2, <4>2
        <5>2. got[m - (n - limit)] = in[m]
          BY <3>2, <5>1
        <5> QED BY <3>2, <4>1, <5>1, <5>2
      <4>3. CASE m <= n - limit
        <5> SUFFICES ASSUME NEW k \in 1..limit PROVE all[i] <= got[k]
          BY <3>2
        <5>1. PICK a \in 1..n : a = n - limit + k
          BY <3>2
        <5>2. m < a
          BY <4>3, <5>1
        <5>3. in[m] <= in[a]
          BY <1>4, <1>5, <5>2 DEF InOrder
        <5> QED BY <3>2, <4>1, <5>1, <5>3
      <4> QED BY <4>2, <4>3
    <3> HIDE DEF S
    <3>6. BarsAnswer(all, got, start, end, limit) <=>
            /\ InOrder(got)
            /\ \A k \in DOMAIN got : /\ start <= got[k] /\ got[k] <= end
                                     /\ \E i \in DOMAIN all : all[i] = got[k]
            /\ \A i \in S : \/ \E k \in DOMAIN got : got[k] = all[i]
                            \/ \A k \in DOMAIN got : all[i] <= got[k]
            /\ Len(got) = limit
      BY <1>2, <2>2 DEF BarsAnswer, S
    <3> QED BY <3>2, <3>3, <3>4, <3>5, <3>6
  <2> QED BY <2>1, <2>2
<1> QED BY <1>7, <1>9

\* What the provider has read is in order, and the file's when that was not replaced.
LoadedInv ==
  \A s \in DOMAIN loaded :
    /\ s \in Symbols /\ loaded[s].bars \in Seq(Nat) /\ InOrder(loaded[s].bars)
    /\ loaded[s].version \in Nat /\ loaded[s].version <= file[s].version
    /\ loaded[s].version = file[s].version => SameBars(loaded[s].bars, file[s].bars)

\* An entry of the cache knows the time to live it was given.
QuotesInv ==
  \A k \in DOMAIN quotes :
    /\ quotes[k].at \in Nat /\ quotes[k].asked \in Nat
    /\ quotes[k].ttl = IF quotes[k].asked = 0 THEN DefaultTtl ELSE quotes[k].asked

FilesInv ==
  /\ DOMAIN file = Symbols
  /\ \A s \in Symbols : file[s].version \in Nat /\ file[s].bars \in Files \cup {Missing, Broken}

DataInv ==
  clock \in Nat /\ FilesInv /\ QuotesInv /\ LoadedInv /\ Market!DataAnswersTruly

\* An answer that is none says nothing that is not so.
LEMMA SilenceIsTrue ==
  ASSUME LoadedInv', served' = {} PROVE Market!DataAnswersTruly'
  BY DEF LoadedInv, SameBars, Market!DataAnswersTruly, Market!ToSet

\* Neither does one about bars that get_bars gives.
LEMMA BarsAreTrue ==
  ASSUME LoadedInv', NEW s, NEW start, NEW end, NEW limit, NEW got,
         BarsAnswer(loaded'[s].bars, got, start, end, limit),
         served' = {[from |-> "bars", symbol |-> s, start |-> start, end |-> end,
                    limit |-> limit, bars |-> got]}
  PROVE  Market!DataAnswersTruly'
<1> DEFINE a == [from |-> "bars", symbol |-> s, start |-> start, end |-> end,
                 limit |-> limit, bars |-> got]
<1>1. served' = {a} /\ a.from = "bars" /\ a.symbol = s /\ a.start = start /\ a.end = end
      /\ a.limit = limit /\ a.bars = got
  OBVIOUS
<1> HIDE DEF a
<1> DEFINE all == loaded'[s].bars
           in == {i \in DOMAIN all : start <= all[i] /\ all[i] <= end}
<1>2. /\ \A i, j \in DOMAIN got : i < j => got[i] <= got[j]
      /\ \A u \in Market!ToSet(got) : start <= u /\ u <= end /\ u \in Market!ToSet(all)
      /\ \A i \in in : all[i] \in Market!ToSet(got) \/ \A u \in Market!ToSet(got) : all[i] <= u
      /\ IF limit = 0 \/ Market!Cardinality(in) <= limit
           THEN Len(got) = Market!Cardinality(in) /\ \A i \in in : all[i] \in Market!ToSet(got)
           ELSE Len(got) = limit
  <2>1. Market!Cardinality(in) = Cardinality(in)
    BY MarketSelects
  <2>2. InOrder(got) /\ \A k \in DOMAIN got : /\ start <= got[k] /\ got[k] <= end
                                              /\ \E i \in DOMAIN all : all[i] = got[k]
    BY DEF BarsAnswer
  <2>3. \A i \in in : \/ \E k \in DOMAIN got : got[k] = all[i]
                      \/ \A k \in DOMAIN got : all[i] <= got[k]
    BY DEF BarsAnswer
  <2>4. IF limit = 0 \/ Cardinality(in) <= limit
          THEN Len(got) = Cardinality(in) /\ \A i \in in : \E k \in DOMAIN got : got[k] = all[i]
          ELSE Len(got) = limit
    BY DEF BarsAnswer
  <2> HIDE DEF in
  <2>5. \A u : u \in Market!ToSet(got) <=> \E k \in DOMAIN got : got[k] = u
    BY DEF Market!ToSet
  <2>6. \A u : u \in Market!ToSet(all) <=> \E k \in DOMAIN all : all[k] = u
    BY DEF Market!ToSet
  <2> HIDE DEF all
  <2>7. \A u \in Market!ToSet(got) : start <= u /\ u <= end /\ u \in Market!ToSet(all)
    BY <2>2, <2>5, <2>6
  <2>8. \A i \in in : all[i] \in Market!ToSet(got) \/ \A u \in Market!ToSet(got) : all[i] <= u
    BY <2>3, <2>5
  <2>9. IF limit = 0 \/ Market!Cardinality(in) <= limit
          THEN Len(got) = Market!Cardinality(in) /\ \A i \in in : all[i] \in Market!ToSet(got)
          ELSE Len(got) = limit
    BY <2>1, <2>4, <2>5
  <2> QED BY <2>2, <2>7, <2>8, <2>9 DEF InOrder
<1>3. \A r \in DOMAIN loaded' :
        loaded'[r].version = file'[r].version =>
          Market!ToSet(loaded'[r].bars) = Market!ToSet(file'[r].bars)
  BY DEF LoadedInv, SameBars, Market!ToSet
<1>4. Market!BarsHold(a, all)
  BY <1>1, <1>2, Zenon DEF Market!BarsHold
<1> HIDE DEF all
<1> QED BY <1>1, <1>3, <1>4 DEF Market!DataAnswersTruly, all

\* What is to be answered from is read, sorted, or read before (_load_data).
LEMMA DataIs ==
  ASSUME FilesInv, LoadedInv, NEW s \in Symbols, Market!Readable(s)
  PROVE  /\ Market!Data(s).bars \in Seq(Nat) /\ InOrder(Market!Data(s).bars)
         /\ Market!Data(s).version \in Nat /\ Market!Data(s).version <= file[s].version
         /\ Market!Data(s).version = file[s].version => SameBars(Market!Data(s).bars, file[s].bars)
<1>1. CASE s \in DOMAIN loaded
  BY <1>1 DEF LoadedInv, Market!Data
<1>2. CASE s \notin DOMAIN loaded
  <2>1. file[s].bars \in Seq(Nat) /\ file[s].version \in Nat
    BY <1>2, DataAssumption DEF Market!Readable, FilesInv
  <2>2. Market!Data(s).version = file[s].version /\ Market!Data(s).bars = Sorted(file[s].bars)
    BY <1>2, MarketSelects DEF Market!Data
  <2>3. Sorted(file[s].bars) \in Seq(Nat) /\ InOrder(Sorted(file[s].bars))
        /\ SameBars(Sorted(file[s].bars), file[s].bars)
    BY <2>1, SortedIs DEF InOrder, SameBars
  <2> QED BY <2>1, <2>2, <2>3
<1> QED BY <1>1, <1>2

LEMMA LoadKeeps ==
  ASSUME FilesInv, LoadedInv, NEW s \in Symbols, Market!Readable(s), Market!Load(s),
         file' = file
  PROVE  LoadedInv' /\ s \in DOMAIN loaded' /\ loaded'[s] = Market!Data(s)
<1> DEFINE d == Market!Data(s)
<1>1. loaded' = [k \in DOMAIN loaded \cup {s} |-> IF k = s THEN d ELSE loaded[k]]
  BY DEF Market!Load, Market!Put
<1>2. /\ d.bars \in Seq(Nat) /\ InOrder(d.bars)
      /\ d.version \in Nat /\ d.version <= file[s].version
      /\ d.version = file[s].version => SameBars(d.bars, file[s].bars)
  BY DataIs
<1> HIDE DEF d
<1>3. DOMAIN loaded' = DOMAIN loaded \cup {s} /\ loaded'[s] = d
      /\ \A k \in DOMAIN loaded : k # s => loaded'[k] = loaded[k]
  BY <1>1
<1>4. ASSUME NEW k \in DOMAIN loaded'
      PROVE  /\ k \in Symbols /\ loaded'[k].bars \in Seq(Nat) /\ InOrder(loaded'[k].bars)
             /\ loaded'[k].version \in Nat /\ loaded'[k].version <= file[k].version
             /\ loaded'[k].version = file[k].version => SameBars(loaded'[k].bars, file[k].bars)
  <2>1. CASE k = s
    BY <1>2, <1>3, <2>1
  <2>2. CASE k # s
    BY <1>3, <2>2 DEF LoadedInv
  <2> QED BY <2>1, <2>2
<1>5. LoadedInv'
  BY <1>4 DEF LoadedInv, InOrder, SameBars
<1> QED BY <1>3, <1>5 DEF d

LEMMA DataStart == Market!DataInit => DataInv
<1> SUFFICES ASSUME Market!DataInit PROVE DataInv
  OBVIOUS
<1>1. clock \in Nat /\ FilesInv /\ QuotesInv /\ LoadedInv /\ served = {}
  BY DEF Market!DataInit, FilesInv, QuotesInv, LoadedInv
<1>2. loaded = [s \in {} |-> {}]
  BY DEF Market!DataInit
<1> QED BY <1>1, <1>2 DEF DataInv, Market!DataAnswersTruly

\* Every step keeps the invariant.
LEMMA DataStep == DataInv /\ [Market!DataNext]_<<clock, dataOnly>> => DataInv'
<1> SUFFICES ASSUME DataInv, [Market!DataNext]_<<clock, dataOnly>> PROVE DataInv'
  OBVIOUS
<1> USE DEF DataInv
<1>0. DefaultTtl \in Nat /\ Ttls \subseteq Nat /\ Limits \subseteq Nat /\ Files \subseteq Seq(Nat)
  BY DataAssumption
\* The provider is left alone and nothing is answered.
<1>1. ASSUME UNCHANGED <<file, loaded>>, served' = {}, clock' \in Nat, QuotesInv' PROVE DataInv'
  <2>1. FilesInv' /\ LoadedInv'
    <3>1. file' = file /\ loaded' = loaded
      BY <1>1
    <3>2. FilesInv'
      BY <3>1 DEF FilesInv
    <3>3. LoadedInv'
      BY <3>1 DEF LoadedInv
    <3> QED BY <3>2, <3>3
  <2>2. Market!DataAnswersTruly'
    BY <1>1, <2>1, SilenceIsTrue
  <2> QED BY <1>1, <2>1, <2>2
\* Nothing happens to the files, to what was read and to the answer.
<1>2. ASSUME UNCHANGED <<clock, file, loaded, served>>, QuotesInv',
             \A k \in DOMAIN quotes' : k \in DOMAIN quotes
      PROVE  DataInv'
  <2>1. file' = file /\ loaded' = loaded /\ served' = served /\ clock' = clock
    BY <1>2
  <2>2. FilesInv'
    BY <2>1 DEF FilesInv
  <2>3. LoadedInv'
    BY <2>1 DEF LoadedInv
  <2>4. \A a \in served : a.from = "invalidate" =>
          \A type \in a.types : <<type, a.symbol>> \notin DOMAIN quotes
    BY DEF Market!DataAnswersTruly
  <2>5. \A a \in served' : a.from = "invalidate" =>
          \A type \in a.types : <<type, a.symbol>> \notin DOMAIN quotes'
    BY <1>2, <2>1, <2>4
  <2>6. Market!DataAnswersTruly'
    BY <2>1, <2>5 DEF Market!DataAnswersTruly
  <2> QED BY <1>2, <2>1, <2>2, <2>3, <2>6
<1>3. CASE UNCHANGED <<clock, dataOnly>>
  BY <1>3, <1>2 DEF dataOnly, QuotesInv
<1>4. ASSUME NEW s \in Symbols, NEW type \in Types, NEW ttl \in Ttls, Market!set(s, type, ttl)
      PROVE  DataInv'
  <2> DEFINE e == [at |-> clock, ttl |-> IF ttl = 0 THEN DefaultTtl ELSE ttl, asked |-> ttl]
  <2>1. quotes' = [k \in DOMAIN quotes \cup {<<type, s>>} |->
                     IF k = <<type, s>> THEN e ELSE quotes[k]]
    BY <1>4 DEF Market!set, Market!Put
  <2>2. e.at \in Nat /\ e.asked \in Nat /\ e.ttl = IF e.asked = 0 THEN DefaultTtl ELSE e.asked
    BY <1>0
  <2> HIDE DEF e
  <2>3. QuotesInv'
    BY <2>1, <2>2 DEF QuotesInv
  <2> QED BY <1>4, <1>1, <2>3 DEF Market!set
<1>5. ASSUME NEW s \in Symbols, NEW type \in Types, Market!get(s, type)
      PROVE  DataInv'
  <2> DEFINE key == <<type, s>>
  <2>1. UNCHANGED <<clock, file, loaded>>
    BY <1>5 DEF Market!get
  <2>2. QuotesInv'
    <3>1. quotes' = quotes \/ quotes' = [k \in DOMAIN quotes \ {key} |-> quotes[k]]
      BY <1>5 DEF Market!get, Market!Drop
    <3> QED BY <3>1 DEF QuotesInv
  <2>3. CASE served' = {}
    BY <1>1, <2>1, <2>2, <2>3
  <2>4. CASE served' # {}
    <3> DEFINE a == [from |-> "cache", age |-> clock - quotes[key].at, asked |-> quotes[key].asked]
    <3>1. key \in DOMAIN quotes /\ ~(clock - quotes[key].at > quotes[key].ttl) /\ served' = {a}
      BY <1>5, <2>4 DEF Market!get, Market!Expired
    <3>2. a.from = "cache" /\ a.age <= IF a.asked = 0 THEN DefaultTtl ELSE a.asked
      BY <1>0, <3>1 DEF QuotesInv
    <3> HIDE DEF a
    <3>3. FilesInv'
      BY <2>1 DEF FilesInv
    <3>4. LoadedInv'
      BY <2>1 DEF LoadedInv
    <3>5. Market!DataAnswersTruly'
      BY <3>1, <3>2, <2>1 DEF Market!DataAnswersTruly
    <3> QED BY <2>1, <2>2, <3>3, <3>4, <3>5
  <2> QED BY <2>3, <2>4
<1>6. ASSUME NEW s \in Symbols, NEW types \in SUBSET Types, NEW all \in BOOLEAN,
             all => types = Types, Market!invalidate(s, types, all)
      PROVE  DataInv'
  <2> DEFINE a == [from |-> "invalidate", symbol |-> s, types |-> types]
             dropped1 == IF all THEN {k \in DOMAIN quotes : <<k[2], s>> \in Endings} ELSE types \X {s}
  <2>1. /\ UNCHANGED <<clock, file, loaded>> /\ served' = {a}
        /\ quotes' = [k \in DOMAIN quotes \ dropped1 |-> quotes[k]]
    BY <1>6 DEF Market!invalidate, Market!Drop
  <2>2. QuotesInv'
    <3> HIDE DEF dropped1
    <3> QED BY <2>1 DEF QuotesInv
  <2>3. \A type \in types : <<type, s>> \notin DOMAIN quotes'
    BY <2>1, DataAssumption
  <2>4. a.from = "invalidate" /\ a.symbol = s /\ a.types = types
    OBVIOUS
  <2> HIDE DEF a
  <2>5. FilesInv'
    BY <2>1 DEF FilesInv
  <2>6. LoadedInv'
    BY <2>1 DEF LoadedInv
  <2>7. Market!DataAnswersTruly'
    BY <2>1, <2>3, <2>4 DEF Market!DataAnswersTruly
  <2> QED BY <2>1, <2>2, <2>5, <2>6, <2>7
<1>7. CASE Market!ClearQuotes
  BY <1>7, <1>2 DEF Market!ClearQuotes, QuotesInv
<1>8. CASE Market!TimeGoes
  BY <1>8, <1>1 DEF Market!TimeGoes, QuotesInv
<1>9. CASE Market!connect
  BY <1>9, <1>2 DEF Market!connect, QuotesInv
<1>10. CASE Market!disconnect
  <2>1. UNCHANGED <<clock, quotes, file>> /\ loaded' = [s \in {} |-> {}] /\ served' = {}
    BY <1>10 DEF Market!disconnect
  <2>2. LoadedInv' /\ QuotesInv' /\ FilesInv'
    BY <2>1 DEF LoadedInv, QuotesInv, FilesInv
  <2> QED BY <2>1, <2>2, SilenceIsTrue
<1>11. ASSUME NEW s \in Symbols, Market!get_quote(s) PROVE DataInv'
  <2>1. UNCHANGED <<clock, quotes, file>>
    BY <1>11 DEF Market!get_quote
  <2>2. QuotesInv' /\ FilesInv'
    BY <2>1 DEF QuotesInv, FilesInv
  <2>3. CASE ~Market!Readable(s)
    BY <1>1, <1>11, <2>1, <2>2, <2>3 DEF Market!get_quote
  <2>4. CASE Market!Readable(s)
    <3>1. Market!Load(s)
      BY <1>11, <2>4 DEF Market!get_quote
    <3>2. LoadedInv' /\ s \in DOMAIN loaded' /\ loaded'[s] = Market!Data(s)
      BY <2>1, <2>4, <3>1, LoadKeeps
    <3>3. CASE served' = {}
      BY <2>1, <2>2, <3>2, <3>3, SilenceIsTrue
    <3>4. CASE served' # {}
      <4> DEFINE bars == Market!Data(s).bars
                 a == [from |-> "quote", symbol |-> s, bar |-> Market!Last(bars)]
      <4>1. bars # <<>> /\ served' = {a}
        BY <1>11, <2>4, <3>4 DEF Market!get_quote
      <4>2. bars \in Seq(Nat) /\ InOrder(bars)
        BY <2>4, DataIs
      <4>3. a.from = "quote" /\ a.symbol = s /\ a.bar = bars[Len(bars)]
        BY DEF Market!Last
      <4>4. bars = loaded'[s].bars
        BY <3>2
      <4> HIDE DEF a, bars
      <4>5. \A t \in Market!ToSet(bars) : t <= bars[Len(bars)]
        <5> SUFFICES ASSUME NEW i \in DOMAIN bars PROVE bars[i] <= bars[Len(bars)]
          BY DEF Market!ToSet
        <5>1. i \in Nat /\ i <= Len(bars) /\ Len(bars) \in DOMAIN bars /\ bars[i] \in Nat
          BY <4>1, <4>2
        <5> QED BY <4>2, <5>1 DEF InOrder
      <4>6. \A r \in DOMAIN loaded' :
              loaded'[r].version = file'[r].version =>
                Market!ToSet(loaded'[r].bars) = Market!ToSet(file'[r].bars)
        BY <3>2 DEF LoadedInv, SameBars, Market!ToSet
      <4>7. Market!DataAnswersTruly'
        BY <4>1, <4>3, <4>4, <4>5, <4>6 DEF Market!DataAnswersTruly
      <4> QED BY <2>1, <2>2, <3>2, <4>7
    <3> QED BY <3>3, <3>4
  <2> QED BY <2>3, <2>4
<1>12. ASSUME NEW s \in Symbols, NEW start \in Market!Times, NEW end \in Market!Times,
              NEW limit \in Limits, Market!get_bars(s, start, end, limit)
       PROVE  DataInv'
  <2>1. UNCHANGED <<clock, quotes, file>>
    BY <1>12 DEF Market!get_bars
  <2>2. QuotesInv' /\ FilesInv'
    BY <2>1 DEF QuotesInv, FilesInv
  <2>3. CASE ~Market!Readable(s)
    BY <1>1, <1>12, <2>1, <2>2, <2>3 DEF Market!get_bars
  <2>4. CASE Market!Readable(s)
    <3>1. Market!Load(s)
      BY <1>12, <2>4 DEF Market!get_bars
    <3>2. LoadedInv' /\ s \in DOMAIN loaded' /\ loaded'[s] = Market!Data(s)
      BY <2>1, <2>4, <3>1, LoadKeeps
    <3>3. PICK all : all = Market!Data(s).bars
      OBVIOUS
    <3>4. PICK got : got = Market!Filtered(all, start, end, limit)
      OBVIOUS
    <3>5. served' = {[from |-> "bars", symbol |-> s, start |-> start, end |-> end,
                      limit |-> limit, bars |-> got]}
      BY <1>12, <2>4, <3>3, <3>4 DEF Market!get_bars
    <3>6. start \in Nat /\ end \in Nat /\ limit \in Nat
      BY <1>0 DEF Market!Times, Market!ToSet
    <3>7. all \in Seq(Nat) /\ InOrder(all)
      BY <2>4, <3>3, DataIs
    <3>8. BarsAnswer(all, got, start, end, limit)
      BY <3>4, <3>6, <3>7, FilteredAnswers
    <3>9. BarsAnswer(loaded'[s].bars, got, start, end, limit)
      BY <3>2, <3>3, <3>8
    <3>10. Market!DataAnswersTruly'
      BY <3>2, <3>5, <3>9, BarsAreTrue
    <3> QED BY <2>1, <2>2, <3>2, <3>10
  <2> QED BY <2>3, <2>4
<1>13. ASSUME NEW s \in Symbols, Market!FileChanges(s) PROVE DataInv'
  <2>1. PICK bars \in Files \cup {Missing, Broken} :
          file' = [file EXCEPT ![s] = [version |-> @.version + 1, bars |-> bars]]
    BY <1>13 DEF Market!FileChanges
  <2>2. UNCHANGED <<clock, quotes, loaded>> /\ served' = {}
    BY <1>13 DEF Market!FileChanges
  <2>3. /\ DOMAIN file' = Symbols /\ file'[s].version = file[s].version + 1 /\ file'[s].bars = bars
        /\ \A r \in Symbols : r # s => file'[r] = file[r]
    BY <2>1 DEF FilesInv
  <2>4. FilesInv'
    BY <2>3 DEF FilesInv
  <2>5. LoadedInv'
    BY <2>2, <2>3 DEF LoadedInv, FilesInv
  <2>6. QuotesInv'
    BY <2>2 DEF QuotesInv
  <2> QED BY <2>2, <2>4, <2>5, <2>6, SilenceIsTrue
<1>14. ASSUME Market!DataNext PROVE DataInv'
  BY <1>4, <1>5, <1>6, <1>7, <1>8, <1>9, <1>10, <1>11, <1>12, <1>13, <1>14 DEF Market!DataNext
<1> QED BY <1>3, <1>14

-----------------------------------------------------------------------------
(* Machine-learning factors                                                *)

\* Scores as requests give them
ScoreLists == {score \in Seq(Scores \cup {NaN}) : Len(score) > 0}

\* The position b is the best of the first n scores.
Leads(score, b, n) ==
  /\ b \in 1..n
  /\ score[1] = NaN \/ (score[b] # NaN /\ \A j \in 1..n : ~Factors!Beats(score[j], score[b]))

LEMMA BestFoldLeads ==
  ASSUME NEW score \in ScoreLists
  PROVE  Leads(score, Factors!BestFold(score), Len(score))
<1> DEFINE Step(h, k) ==
      IF k = 1 THEN 1 ELSE IF Factors!Beats(score[k], score[h[k - 1]]) THEN k ELSE h[k - 1]
           Upto(m) == \E h : h = [k \in 1..m |-> Step(h, k)]
           Bad == {m \in Nat : ~Upto(m)}
<1>1. PICK top \in Nat : top = Len(score) /\ top > 0
  BY DEF ScoreLists
<1>2. Upto(top)
  <2>1. SUFFICES ASSUME Bad # {} PROVE FALSE
    BY <1>1
  <2>2. PICK m \in Bad : \A k \in Bad : m <= k
    <3> HIDE DEF Bad
    <3>1. Bad \subseteq Nat
      BY DEF Bad
    <3> QED BY <2>1, <3>1, LeastNat
  <2>3. m # 0
    <3>1. PICK h : h = [k \in 1..0 |-> 1]
      OBVIOUS
    <3>2. h = [k \in 1..0 |-> Step(h, k)]
      BY <3>1
    <3> QED BY <2>2, <3>2
  <2>4. m - 1 \in Nat /\ m - 1 \notin Bad
    <3>1. m \in Nat
      BY <2>2
    <3> HIDE DEF Bad
    <3> QED BY <2>2, <2>3, <3>1
  <2>5. PICK h : h = [k \in 1..(m - 1) |-> Step(h, k)]
    BY <2>4
  <2>6. PICK g : g = [k \in 1..m |-> IF k = m THEN Step(h, m) ELSE h[k]]
    OBVIOUS
  <2>7. \A k \in 1..(m - 1) : g[k] = h[k]
    BY <2>2, <2>6
  <2>8. \A k \in 1..m : g[k] = Step(g, k)
    <3> SUFFICES ASSUME NEW k \in 1..m PROVE g[k] = Step(g, k)
      OBVIOUS
    <3>1. CASE k = m
      <4>1. g[k] = Step(h, m)
        BY <2>6, <3>1
      <4>2. m # 1 => g[m - 1] = h[m - 1]
        BY <2>2, <2>4, <2>7
      <4> QED BY <3>1, <4>1, <4>2
    <3>2. CASE k # m
      <4>1. k \in 1..(m - 1)
        BY <2>2, <3>2
      <4>2. h[k] = Step(h, k)
        BY <2>5, <4>1
      <4>3. k # 1 => k - 1 \in 1..(m - 1)
        BY <2>2, <4>1
      <4> QED BY <2>7, <4>1, <4>2, <4>3
    <3> QED BY <3>1, <3>2
  <2>9. g = [k \in 1..m |-> Step(g, k)]
    <3>1. g = [k \in 1..m |-> g[k]]
      BY <2>6
    <3> QED BY <2>8, <3>1
  <2> QED BY <2>2, <2>9
<1>3. PICK f : f = CHOOSE h : h = [k \in 1..top |-> Step(h, k)]
  OBVIOUS
<1>4. Factors!BestFold(score) = f[top]
  BY <1>1, <1>3 DEF Factors!BestFold
<1>5. f = [k \in 1..top |-> Step(f, k)]
  <2> HIDE DEF Step
  <2> QED BY <1>2, <1>3
<1> DEFINE Wrong == {k \in 1..top : ~Leads(score, f[k], k)}
<1>6. SUFFICES ASSUME Wrong # {} PROVE FALSE
  BY <1>1, <1>4
<1>7. PICK n \in Wrong : \A k \in Wrong : n <= k
  <2>1. Wrong \subseteq Nat
    BY <1>1
  <2> HIDE DEF Wrong
  <2> QED BY <1>6, <2>1, LeastNat
<1>8. n \in 1..top /\ n \in Nat /\ ~Leads(score, f[n], n)
  BY <1>1, <1>7
<1>9. \A k \in 1..top : score[k] \in Scores \cup {NaN}
  BY <1>1 DEF ScoreLists
<1>10. n # 1
  <2> SUFFICES ASSUME n = 1 PROVE FALSE
    OBVIOUS
  <2>1. f[n] = 1
    BY <1>5, <1>8
  <2>2. score[1] = NaN \/ ~Factors!Beats(score[1], score[1])
    <3>1. score[1] = NaN \/ score[1] \in Int
      BY <1>8, <1>9, FactorAssumption
    <3> QED BY <3>1 DEF Factors!Beats
  <2> QED BY <1>8, <2>1, <2>2 DEF Leads
<1>11. n - 1 \in 1..top /\ n - 1 \notin Wrong
  BY <1>1, <1>7, <1>8, <1>10
<1>12. PICK b \in 1..(n - 1) : b = f[n - 1] /\ Leads(score, b, n - 1)
  BY <1>11 DEF Leads
<1>13. f[n] = IF Factors!Beats(score[n], score[b]) THEN n ELSE b
  BY <1>5, <1>8, <1>10, <1>12
<1>14. CASE Factors!Beats(score[n], score[b])
  <2>1. f[n] = n /\ score[n] \in Int /\ score[b] \in Int /\ score[n] # NaN /\ score[b] # NaN
        /\ score[n] > score[b]
    <3>1. score[n] # NaN /\ score[b] # NaN /\ score[n] > score[b]
      BY <1>14 DEF Factors!Beats
    <3>2. b \in 1..top
      BY <1>8, <1>11, <1>12
    <3>3. score[n] \in Int /\ score[b] \in Int
      BY <1>8, <1>9, <3>1, <3>2, FactorAssumption
    <3> QED BY <1>13, <1>14, <3>1, <3>3
  <2>2. ASSUME score[1] # NaN, NEW j \in 1..n PROVE ~Factors!Beats(score[j], score[n])
    <3>1. CASE j = n
      BY <2>1, <3>1 DEF Factors!Beats
    <3>2. CASE j # n
      <4>1. j \in 1..(n - 1) /\ j \in 1..top
        BY <1>8, <3>2
      <4>2. ~Factors!Beats(score[j], score[b])
        BY <1>12, <2>2, <4>1 DEF Leads
      <4>3. score[j] = NaN \/ score[j] \in Int
        BY <1>9, <4>1, FactorAssumption
      <4> QED BY <2>1, <4>2, <4>3 DEF Factors!Beats
    <3> QED BY <3>1, <3>2
  <2>3. n \in 1..n
    BY <1>8
  <2> QED BY <1>8, <2>1, <2>2, <2>3 DEF Leads
<1>15. CASE ~Factors!Beats(score[n], score[b])
  <2>1. f[n] = b /\ b \in 1..n
    BY <1>8, <1>13, <1>15
  <2>2. ASSUME score[1] # NaN, NEW j \in 1..n PROVE ~Factors!Beats(score[j], score[b])
    <3>1. CASE j = n
      BY <1>15, <3>1
    <3>2. CASE j # n
      <4>1. j \in 1..(n - 1)
        BY <1>8, <3>2
      <4> QED BY <1>12, <2>2, <4>1 DEF Leads
    <3> QED BY <3>1, <3>2
  <2> QED BY <1>8, <1>12, <2>1, <2>2 DEF Leads
<1> QED BY <1>14, <1>15

\* The folds that are announced are those there are (get_n_splits, split).
LEMMA FoldsAre ==
  ASSUME NEW window \in Windows, NEW rows \in Nat, window.step > 0, window.train > 0,
         Factors!Folds(window, rows) # {}
  PROVE  /\ Factors!Folds(window, rows) = 1..Factors!get_n_splits(window, rows)
         /\ Factors!Cardinality(Factors!Folds(window, rows)) = Factors!get_n_splits(window, rows)
         /\ Factors!get_n_splits(window, rows) \in Nat
<1>1. PICK train \in Nat, test \in Nat, step \in Nat :
        train = window.train /\ test = window.test /\ step = window.step
  BY FactorAssumption
<1>2. PICK F : F = Factors!Folds(window, rows)
  OBVIOUS
<1>3. F = {k \in 1..rows : (k - 1) * step + train + test <= rows}
  BY <1>1, <1>2 DEF Factors!Folds
<1>4. PICK k0 \in 1..rows : (k0 - 1) * step + train + test <= rows
  BY <1>2, <1>3
<1>5. PICK starts : starts = rows - train - test
  OBVIOUS
<1>6. starts \in Nat /\ starts < rows
  <2>1. (k0 - 1) * step >= 0
    OBVIOUS
  <2> QED BY <1>1, <1>4, <1>5, <2>1
<1>7. PICK q : q = starts \div step
  OBVIOUS
<1>8. q \in Nat /\ q * step <= starts /\ starts < (q + 1) * step
  BY <1>1, <1>6, <1>7
<1>9. PICK n \in Nat : n = q + 1
  BY <1>8
<1>10. Factors!get_n_splits(window, rows) = n
  BY <1>1, <1>5, <1>6, <1>7, <1>9 DEF Factors!get_n_splits
<1>11. ASSUME NEW k \in Int, k >= 1
       PROVE  (k - 1) * step <= starts <=> k <= n
  <2>1. CASE k <= n
    <3>1. PICK d \in Nat : q = (k - 1) + d
      <4>1. q - (k - 1) \in Nat /\ q = (k - 1) + (q - (k - 1))
        BY <1>8, <1>9, <1>11, <2>1
      <4> QED BY <4>1
    <3>2. q * step = (k - 1) * step + d * step /\ d * step >= 0
      BY <1>1, <1>8, <3>1
    <3>3. (k - 1) * step \in Int /\ q * step \in Int /\ d * step \in Int
      BY <1>8
    <3> QED BY <1>6, <1>8, <2>1, <3>2, <3>3
  <2>2. CASE k > n
    <3>1. PICK d \in Nat : k - 1 = (q + 1) + d
      <4>1. k - 1 - (q + 1) \in Nat /\ k - 1 = (q + 1) + (k - 1 - (q + 1))
        BY <1>8, <1>9, <1>11, <2>2
      <4> QED BY <4>1
    <3>2. (k - 1) * step = (q + 1) * step + d * step /\ d * step >= 0
      <4>1. ((q + 1) + d) * step = (q + 1) * step + d * step
        BY <1>8
      <4>2. d * step >= 0
        OBVIOUS
      <4> QED BY <3>1, <4>1, <4>2
    <3>3. (k - 1) * step \in Int /\ (q + 1) * step \in Int /\ d * step \in Int
      BY <1>8
    <3> QED BY <1>6, <1>8, <1>9, <2>2, <3>2, <3>3
  <2> QED BY <1>9, <2>1, <2>2
<1>12. ASSUME NEW k \in 1..n PROVE k <= rows
  <2>1. (k - 1) * step <= starts
    BY <1>9, <1>11
  <2>2. (k - 1) * step >= k - 1
    BY <1>1
  <2>3. (k - 1) * step \in Int
    OBVIOUS
  <2> QED BY <1>6, <2>1, <2>2, <2>3
<1>13. F = 1..n
  <2>1. ASSUME NEW k \in 1..rows PROVE (k - 1) * step + train + test <= rows <=> k <= n
    <3>1. (k - 1) * step \in Int
      OBVIOUS
    <3>2. (k - 1) * step + train + test <= rows <=> (k - 1) * step <= starts
      BY <1>5, <3>1
    <3> QED BY <1>11, <3>2
  <2>2. \A k : k \in F <=> k \in 1..rows /\ k <= n
    BY <1>3, <2>1
  <2>3. \A k \in 1..n : k \in 1..rows
    BY <1>12
  <2>4. F \subseteq 1..n /\ 1..n \subseteq F
    BY <1>9, <2>2, <2>3
  <2> QED BY <2>4, Zenon
<1>14. Factors!Cardinality(F) = n
  <2>1. Factors!Cardinality(F) = Cardinality(F)
    BY DEF Factors!Cardinality, Cardinality
  <2>2. \A a, b \in Int : Cardinality(a..b) = IF a > b THEN 0 ELSE b - a + 1
    BY FS_Interval
  <2>3. Cardinality(1..n) = IF 1 > n THEN 0 ELSE n - 1 + 1
    BY <2>2
  <2> QED BY <1>13, <2>1, <2>3
<1> QED BY <1>2, <1>10, <1>13, <1>14

ResultFields ==
  {"id", "columns", "importances", "learnt", "given", "scoredOn", "score", "fold", "folds", "saved"}

\* A result was scored on rows after all that its model was given.
ResultHolds(r) ==
  /\ DOMAIN r = ResultFields
  /\ \A s \in r.scoredOn : \A g \in IF r.fold = 0 THEN r.learnt ELSE r.given : g < s

IsList(c) == c \in Seq({c[i] : i \in DOMAIN c})

\* What is used of the columns c are those that some data had.
UsedOf(c, used) == \E had : used = Kept(c, {i \in DOMAIN c : c[i] \in had})

FactorHolds(f) ==
  /\ DOMAIN f = {"columns", "used", "learnt", "result"}
  /\ IsList(f.columns) /\ UsedOf(f.columns, f.used)
  /\ ResultHolds(f.result) /\ f.result.learnt = f.learnt
  /\ f.result.importances = Factors!Importances(f.columns, f.used)

\* A model and the result of its id
PairHolds(f, r) ==
  /\ FactorHolds(f) /\ ResultHolds(r) /\ (f.result = r \/ Factors!EarlierFold(r))
  /\ r.importances = Factors!Importances(f.columns, f.used)

RegistryInv ==
  /\ DOMAIN models = DOMAIN results
  /\ \A f \in disk : FactorHolds(f)
  /\ \A id \in DOMAIN models : PairHolds(models[id], results[id]) /\ results[id].id = id

FactorInv == RegistryInv /\ Factors!BestFoldWins /\ Factors!PredictsAsFitted

LEMMA FactorsSelect ==
  /\ \A s, S : Factors!Kept(s, S) = Kept(s, S)
  /\ \A S : Factors!Cardinality(S) = Cardinality(S)
<1>1. \A S : Factors!Cardinality(S) = Cardinality(S)
  BY DEF Cardinality, Factors!Cardinality
<1>2. \A S, k : Factors!Nth(S, k) = Nth(S, k)
  BY <1>1 DEF Nth, Factors!Nth
<1> QED BY <1>1, <1>2 DEF Kept, Factors!Kept

\* The columns that were asked for are a sequence.
LEMMA ColumnsAre ==
  ASSUME NEW listed \in Listings, NEW frame \in Frames
  PROVE  /\ IsList(Factors!Columns(listed, frame))
         /\ UsedOf(Factors!Columns(listed, frame),
                   Factors!Available(Factors!Columns(listed, frame), frame))
<1>1. PICK c : c = Factors!Columns(listed, frame)
  OBVIOUS
<1>2. c = listed \/ c = frame.columns
  BY <1>1 DEF Factors!Columns
<1>3. IsList(c)
  BY <1>2, FactorAssumption DEF IsList
<1>4. PICK had : had = Factors!ToSet(frame.columns)
  OBVIOUS
<1>5. Factors!Available(c, frame) = Kept(c, {i \in DOMAIN c : c[i] \in had})
  BY <1>4, FactorsSelect DEF Factors!Available
<1>6. UsedOf(c, Factors!Available(c, frame))
  BY <1>5 DEF UsedOf
<1> QED BY <1>1, <1>3, <1>6

\* A factor that was fitted, and the result it was given, hold (fit).
LEMMA FittedHolds ==
  ASSUME NEW listed \in Listings, NEW frame \in Frames, NEW first \in Nat, NEW n \in Nat,
         NEW id, NEW score
  PROVE  /\ FactorHolds(Factors!Fitted(listed, frame, first, n, id, score))
         /\ Factors!Fitted(listed, frame, first, n, id, score).result.id = id
         /\ Factors!Fitted(listed, frame, first, n, id, score).result.given = first..(first + n - 1)
<1>1. PICK c : c = Factors!Columns(listed, frame)
  OBVIOUS
<1>2. PICK used : used = Factors!Available(c, frame)
  OBVIOUS
<1>3. PICK m : m = Factors!Trains(n)
  OBVIOUS
<1>4. m \in Int
  BY <1>3 DEF Factors!Trains
<1> DEFINE learnt == first..(first + m - 1)
           r == [id |-> id, columns |-> c, importances |-> Factors!Importances(c, used),
                 learnt |-> learnt, given |-> first..(first + n - 1),
                 scoredOn |-> (first + m)..(first + n - 1),
                 score |-> score, fold |-> 0, folds |-> 0, saved |-> FALSE]
           f == [columns |-> c, used |-> used, learnt |-> learnt, result |-> r]
<1>5. Factors!Fitted(listed, frame, first, n, id, score) = f
  BY <1>1, <1>2, <1>3 DEF Factors!Fitted
<1>6. ResultHolds(r) /\ r.id = id /\ r.learnt = learnt /\ r.given = first..(first + n - 1)
      /\ r.importances = Factors!Importances(c, used)
  <2>1. \A s \in (first + m)..(first + n - 1) : \A g \in learnt : g < s
    BY <1>4
  <2>2. /\ r.id = id /\ r.learnt = learnt /\ r.given = first..(first + n - 1)
        /\ r.importances = Factors!Importances(c, used) /\ DOMAIN r = ResultFields
        /\ r.scoredOn = (first + m)..(first + n - 1) /\ r.fold = 0
    <3> HIDE DEF learnt
    <3> QED BY DEF ResultFields
  <2> HIDE DEF r, learnt
  <2> QED BY <2>1, <2>2 DEF ResultHolds
<1> HIDE DEF r, learnt
<1>7. DOMAIN f = {"columns", "used", "learnt", "result"} /\ f.columns = c /\ f.used = used
      /\ f.learnt = learnt /\ f.result = r
  OBVIOUS
<1> HIDE DEF f
<1>8. IsList(c) /\ UsedOf(c, used)
  BY <1>1, <1>2, ColumnsAre
<1>9. IsList(f.columns) /\ UsedOf(f.columns, f.used)
  BY <1>7, <1>8
<1> QED BY <1>5, <1>6, <1>7, <1>9 DEF FactorHolds

\* A fold is fitted on its rows and scored on those after them (evaluate).
LEMMA FoldHolds ==
  ASSUME NEW listed \in Listings, NEW frame \in Frames, NEW window \in Windows, NEW k \in Nat,
         k > 0, NEW score, NEW f, f = Factors!FoldFactor(listed, frame, window, k, score)
  PROVE  /\ FactorHolds(f) /\ f.result.id = <<"fold", k>> /\ f.result.fold = k
         /\ f.result.score = score
         /\ f.result.folds = Factors!Cardinality(Factors!Folds(window, frame.rows))
         /\ f.columns = Factors!Columns(listed, frame)
         /\ f.used = Factors!Available(Factors!Columns(listed, frame), frame)
<1>1. PICK train \in Nat, step \in Nat : train = window.train /\ step = window.step /\ window.test \in Nat
  BY FactorAssumption
<1>2. PICK start \in Nat : start = (k - 1) * step
  OBVIOUS
<1>3. PICK g : g = Factors!Fitted(listed, frame, start, train, <<"fold", k>>, score)
  OBVIOUS
<1>4. PICK r : r = [g.result EXCEPT !.scoredOn = Factors!TestRows(window, k), !.fold = k,
                      !.folds = Factors!Cardinality(Factors!Folds(window, frame.rows))]
  OBVIOUS
<1>5. f = [g EXCEPT !.result = r]
  BY <1>1, <1>2, <1>3, <1>4 DEF Factors!FoldFactor, Factors!FoldStart
<1>6. FactorHolds(g) /\ g.result.id = <<"fold", k>> /\ g.result.given = start..(start + train - 1)
  <2> DEFINE h == Factors!Fitted(listed, frame, start, train, <<"fold", k>>, score)
  <2>1. FactorHolds(h)
    BY FittedHolds
  <2>2. h.result.id = <<"fold", k>>
    BY FittedHolds
  <2>3. h.result.given = start..(start + train - 1)
    BY FittedHolds
  <2> HIDE DEF h
  <2>4. g = h
    BY <1>3 DEF h
  <2> QED BY <2>1, <2>2, <2>3, <2>4
<1>7. g.result.score = score /\ g.columns = Factors!Columns(listed, frame)
      /\ g.used = Factors!Available(Factors!Columns(listed, frame), frame)
  BY <1>3 DEF Factors!Fitted
<1>8. /\ DOMAIN r = ResultFields /\ r.id = <<"fold", k>> /\ r.given = start..(start + train - 1)
      /\ r.learnt = g.learnt /\ r.importances = Factors!Importances(g.columns, g.used)
      /\ r.fold = k /\ r.score = score /\ r.scoredOn = Factors!TestRows(window, k)
      /\ r.folds = Factors!Cardinality(Factors!Folds(window, frame.rows))
  <2>1. DOMAIN g.result = ResultFields
    BY <1>6 DEF FactorHolds, ResultHolds
  <2> QED BY <1>4, <1>6, <1>7, <2>1 DEF FactorHolds, ResultFields
<1>9. ResultHolds(r)
  <2>1. Factors!TestRows(window, k) = (start + train)..(start + train + window.test - 1)
    BY <1>1, <1>2 DEF Factors!TestRows, Factors!FoldStart
  <2>2. \A s \in r.scoredOn : \A h \in r.given : h < s
    BY <1>1, <1>8, <2>1
  <2> QED BY <1>8, <2>2 DEF ResultHolds
<1>10. DOMAIN f = {"columns", "used", "learnt", "result"} /\ f.result = r
       /\ f.columns = g.columns /\ f.used = g.used /\ f.learnt = g.learnt
  BY <1>5, <1>6 DEF FactorHolds
<1>11. FactorHolds(f)
  <2>1. IsList(f.columns) /\ UsedOf(f.columns, f.used)
    BY <1>6, <1>10 DEF FactorHolds
  <2> QED BY <1>8, <1>9, <1>10, <2>1 DEF FactorHolds
<1> QED BY <1>7, <1>8, <1>10, <1>11

\* A factor that holds is registered with a result that belongs to it (register).
LEMMA RegisterKeeps ==
  ASSUME RegistryInv, NEW f, NEW r, PairHolds(f, r), Factors!register(f, r)
  PROVE  /\ RegistryInv' /\ r.id \in DOMAIN results'
         /\ results'[r.id].score = r.score /\ results'[r.id].fold = r.fold
         /\ results'[r.id].folds = r.folds
<1> DEFINE kept == [r EXCEPT !.saved = @ \/ SavesModels]
           g == IF f.result = r THEN [f EXCEPT !.result = kept] ELSE f
<1>1. /\ disk' = IF SavesModels THEN disk \cup {f} ELSE disk
      /\ results' = [i \in DOMAIN results \cup {r.id} |-> IF i = r.id THEN kept ELSE results[i]]
      /\ models' = [i \in DOMAIN models \cup {r.id} |-> IF i = r.id THEN g ELSE models[i]]
  BY DEF Factors!register, Factors!Entry
<1>2. DOMAIN r = ResultFields
  BY DEF PairHolds, ResultHolds
<1>3. /\ DOMAIN kept = ResultFields /\ kept.id = r.id /\ kept.learnt = r.learnt
      /\ kept.given = r.given /\ kept.scoredOn = r.scoredOn /\ kept.fold = r.fold
      /\ kept.folds = r.folds /\ kept.importances = r.importances /\ kept.score = r.score
  BY <1>2 DEF ResultFields
<1> HIDE DEF kept
<1>4. ResultHolds(kept) /\ (Factors!EarlierFold(r) => Factors!EarlierFold(kept))
  BY <1>3 DEF PairHolds, ResultHolds, Factors!EarlierFold
<1>5. PairHolds(g, kept)
  <2>1. CASE f.result # r
    BY <1>3, <1>4, <2>1 DEF PairHolds
  <2>2. CASE f.result = r
    <3>1. /\ DOMAIN g = {"columns", "used", "learnt", "result"} /\ g.result = kept
          /\ g.columns = f.columns /\ g.used = f.used /\ g.learnt = f.learnt
      BY <2>2 DEF PairHolds, FactorHolds
    <3> HIDE DEF g
    <3>2. FactorHolds(g)
      BY <1>3, <1>4, <2>2, <3>1 DEF PairHolds, FactorHolds
    <3> QED BY <1>3, <1>4, <2>2, <3>1, <3>2 DEF PairHolds
  <2> QED BY <2>1, <2>2
<1> HIDE DEF g
<1>6. DOMAIN models' = DOMAIN results'
  BY <1>1 DEF RegistryInv
<1>7. \A h \in disk' : FactorHolds(h)
  BY <1>1 DEF RegistryInv, PairHolds
<1>8. ASSUME NEW id \in DOMAIN models'
      PROVE  PairHolds(models'[id], results'[id]) /\ results'[id].id = id
  <2>1. CASE id = r.id
    BY <1>1, <1>3, <1>5, <2>1
  <2>2. CASE id # r.id
    BY <1>1, <2>2 DEF RegistryInv
  <2> QED BY <2>1, <2>2
<1>9. RegistryInv'
  BY <1>6, <1>7, <1>8 DEF RegistryInv
<1>10. r.id \in DOMAIN results' /\ results'[r.id] = kept
  BY <1>1
<1> QED BY <1>3, <1>9, <1>10

\* From the columns it was fitted on, a model predicts; from data it predicts from, they
\* are there (_select_features).
LEMMA UsesDecide ==
  ASSUME NEW f, FactorHolds(f), NEW frame \in Frames
  PROVE  /\ Factors!Predicts(f, frame) => Factors!ToSet(f.used) \subseteq Factors!ToSet(frame.columns)
         /\ Factors!ToSet(frame.columns) = Factors!ToSet(f.used) => Factors!Predicts(f, frame)
<1>1. PICK c, u, has : c = f.columns /\ u = f.used /\ has = Factors!ToSet(frame.columns)
  OBVIOUS
<1>2. PICK had : u = Kept(c, {i \in DOMAIN c : c[i] \in had})
  BY <1>1 DEF FactorHolds, UsedOf
<1>3. PICK D : c \in Seq(D)
  BY <1>1 DEF FactorHolds, IsList
<1> DEFINE Those(C) == {i \in DOMAIN c : c[i] \in C}
<1>4. \A C : Those(C) \subseteq DOMAIN c
  OBVIOUS
<1>5. Factors!Predicts(f, frame) <=> Kept(c, Those(has)) = u
  BY <1>1, FactorsSelect DEF Factors!Predicts, Factors!Available
<1>6. ASSUME NEW C PROVE Factors!ToSet(Kept(c, Those(C))) = {c[i] : i \in Those(C)}
  <2>1. PICK q, S : q = Kept(c, S) /\ S = Those(C)
    OBVIOUS
  <2>2. S \subseteq DOMAIN c
    BY <1>4, <2>1
  <2>3. PICK n : n = Cardinality(S)
    OBVIOUS
  <2>4. /\ q \in Seq(D) /\ Len(q) = n
        /\ \A k \in 1..n : q[k] = c[Nth(S, k)] /\ Nth(S, k) \in S
        /\ \A i \in S : \E k \in 1..n : q[k] = c[i]
    <3> HIDE DEF Those
    <3>1. Kept(c, S) \in Seq(D) /\ Len(Kept(c, S)) = Cardinality(S)
      BY <1>3, <2>2, KeptIs
    <3>2. \A k \in 1..Cardinality(S) : Kept(c, S)[k] = c[Nth(S, k)] /\ Nth(S, k) \in S
      BY <1>3, <2>2, KeptIs
    <3>3. \A i \in S : \E k \in 1..Cardinality(S) : Kept(c, S)[k] = c[i]
      BY <1>3, <2>2, KeptIs
    <3> QED BY <2>1, <2>3, <3>1, <3>2, <3>3
  <2>5. DOMAIN q = 1..n
    BY <2>4
  <2>6. {q[k] : k \in DOMAIN q} = {c[i] : i \in S}
    <3>1. \A k \in DOMAIN q : q[k] \in {c[i] : i \in S}
      BY <2>4, <2>5
    <3>2. \A i \in S : c[i] \in {q[k] : k \in DOMAIN q}
      BY <2>4, <2>5
    <3> QED BY <3>1, <3>2
  <2> QED BY <2>1, <2>6 DEF Factors!ToSet
<1>7. u = Kept(c, Those(had))
  BY <1>2
<1>8. Factors!ToSet(u) = {c[i] : i \in Those(had)}
  BY <1>6, <1>7
<1>9. ASSUME Kept(c, Those(has)) = u PROVE Factors!ToSet(u) \subseteq has
  <2>1. Factors!ToSet(u) = {c[i] : i \in Those(has)}
    BY <1>6, <1>9
  <2> QED BY <2>1
<1>10. ASSUME has = Factors!ToSet(u) PROVE Kept(c, Those(has)) = u
  <2>1. Those(has) = Those(had)
    BY <1>8, <1>10
  <2> QED BY <1>7, <2>1
<1> QED BY <1>1, <1>5, <1>9, <1>10

LEMMA FactorStart == Factors!FactorInit => FactorInv
  BY DEF Factors!FactorInit, FactorInv, RegistryInv, Factors!BestFoldWins, Factors!PredictsAsFitted

\* The best fold is found, and it is announced how many there were (walk_forward_optimize).
LEMMA WalkKeeps ==
  ASSUME FactorInv, NEW listed \in Listings, NEW frame \in Frames, NEW window \in Windows,
         NEW score \in [1..Factors!Cardinality(Factors!Folds(window, frame.rows)) -> Scores \cup {NaN}],
         Factors!walk_forward_optimize(listed, frame, window, score)
  PROVE  FactorInv'
<1>1. PICK n : n = Factors!Cardinality(Factors!Folds(window, frame.rows))
  OBVIOUS
<1>2. PICK best : best = Factors!BestFold(score)
  OBVIOUS
<1>3. PICK f : f = Factors!FoldFactor(listed, frame, window, Len(score), score[Len(score)])
  OBVIOUS
<1>4. PICK g : g = Factors!FoldFactor(listed, frame, window, best, score[best])
  OBVIOUS
<1>5. /\ window.step > 0 /\ ~Factors!FitRaises(listed, frame, window.train)
      /\ Len(score) > 0 /\ Len(score) = n /\ Factors!register(f, g.result)
      /\ said' = {[op |-> "walk", id |-> <<"fold", best>>, score |-> score,
                   announced |-> Factors!get_n_splits(window, frame.rows)]}
  BY <1>1, <1>2, <1>3, <1>4 DEF Factors!walk_forward_optimize
<1>6. window.train \in Nat /\ window.train > 0 /\ window.step \in Nat /\ frame.rows \in Nat
  <2>1. window.train \in Nat /\ window.step \in Nat /\ frame.rows \in Nat
    BY FactorAssumption
  <2>2. window.train # 0
    BY <1>5 DEF Factors!FitRaises, Factors!Trains
  <2> QED BY <2>1, <2>2
<1>7. n = Factors!get_n_splits(window, frame.rows) /\ n \in Nat /\ n > 0
  <2>1. Factors!Folds(window, frame.rows) # {}
    <3> SUFFICES ASSUME Factors!Folds(window, frame.rows) = {} PROVE FALSE
      OBVIOUS
    <3>1. n = 0
      BY <1>1, FactorsSelect, FS_EmptySet
    <3> QED BY <1>5, <3>1
  <2>2. n = Factors!get_n_splits(window, frame.rows) /\ n \in Nat
    BY <1>1, <1>5, <1>6, <2>1, FoldsAre
  <2> QED BY <1>5, <2>2
<1>8. score \in ScoreLists /\ DOMAIN score = 1..n
  BY <1>1, <1>5, <1>7 DEF ScoreLists
<1>9. Leads(score, best, n)
  BY <1>2, <1>5, <1>8, BestFoldLeads
<1>10. best \in 1..n /\ best \in Nat /\ best > 0
  BY <1>7, <1>9 DEF Leads
<1>11. /\ FactorHolds(f) /\ f.columns = g.columns /\ f.used = g.used
       /\ FactorHolds(g) /\ g.result.id = <<"fold", best>> /\ g.result.fold = best
       /\ g.result.score = score[best] /\ g.result.folds = n
       /\ best = n => f = g
  <2>1. PICK m \in Nat : m = Len(score) /\ m > 0 /\ m = n
    BY <1>5, <1>7
  <2>2. FactorHolds(f) /\ f.columns = Factors!Columns(listed, frame)
        /\ f.used = Factors!Available(Factors!Columns(listed, frame), frame)
    <3> DEFINE h == Factors!FoldFactor(listed, frame, window, m, score[m])
    <3>1. f = h
      BY <1>3, <2>1
    <3>2. FactorHolds(f)
      BY <2>1, <3>1, FoldHolds
    <3>3. f.columns = Factors!Columns(listed, frame)
      BY <2>1, <3>1, FoldHolds
    <3>4. f.used = Factors!Available(Factors!Columns(listed, frame), frame)
      BY <2>1, <3>1, FoldHolds
    <3> QED BY <3>2, <3>3, <3>4
  <2>3. /\ FactorHolds(g) /\ g.result.id = <<"fold", best>> /\ g.result.fold = best
        /\ g.result.score = score[best]
        /\ g.result.folds = Factors!Cardinality(Factors!Folds(window, frame.rows))
        /\ g.columns = Factors!Columns(listed, frame)
        /\ g.used = Factors!Available(Factors!Columns(listed, frame), frame)
    BY <1>4, <1>10, FoldHolds
  <2>4. best = n => f = g
    BY <1>3, <1>4, <1>5
  <2> QED BY <1>1, <2>2, <2>3, <2>4
<1>12. PairHolds(f, g.result)
  <2>1. f.result = g.result \/ Factors!EarlierFold(g.result)
    BY <1>7, <1>10, <1>11 DEF Factors!EarlierFold
  <2> QED BY <1>11, <2>1 DEF PairHolds, FactorHolds
<1>13. /\ RegistryInv' /\ g.result.id \in DOMAIN results'
       /\ results'[g.result.id].score = score[best] /\ results'[g.result.id].fold = best
       /\ results'[g.result.id].folds = n
  BY <1>5, <1>11, <1>12, RegisterKeeps DEF FactorInv
<1> DEFINE a == [op |-> "walk", id |-> <<"fold", best>>, score |-> score,
                 announced |-> Factors!get_n_splits(window, frame.rows)]
<1>14. a.op = "walk" /\ a.id = g.result.id /\ a.score = score /\ a.announced = n
  BY <1>7, <1>11
<1>15. said' = {a}
  BY <1>5
<1> HIDE DEF a
<1>16. Factors!PredictsAsFitted'
  BY <1>14, <1>15 DEF Factors!PredictsAsFitted
<1>17. score[1] = NaN \/ \A k \in DOMAIN score : ~Factors!Beats(score[k], score[best])
  BY <1>8, <1>9 DEF Leads
<1>18. Factors!BestFoldWins'
  BY <1>5, <1>13, <1>14, <1>15, <1>17 DEF Factors!BestFoldWins
<1> QED BY <1>13, <1>16, <1>18 DEF FactorInv

\* Every step keeps the invariant.
LEMMA FactorStep == FactorInv /\ [Factors!FactorNext]_modelsOnly => FactorInv'
<1> SUFFICES ASSUME FactorInv, [Factors!FactorNext]_modelsOnly PROVE FactorInv'
  OBVIOUS
<1> USE DEF FactorInv
<1>1. ASSUME said' = {} PROVE Factors!BestFoldWins' /\ Factors!PredictsAsFitted'
  BY <1>1 DEF Factors!BestFoldWins, Factors!PredictsAsFitted
<1>2. ASSUME UNCHANGED <<models, results, disk>> PROVE RegistryInv'
  BY <1>2 DEF RegistryInv
<1>3. CASE UNCHANGED modelsOnly
  BY <1>3, <1>2 DEF modelsOnly, Factors!BestFoldWins, Factors!PredictsAsFitted
<1>4. ASSUME NEW listed \in Listings, NEW frame \in Frames, NEW score,
             Factors!train_model(listed, frame, score)
      PROVE  FactorInv'
  <2>1. PICK f : f = Factors!Fitted(listed, frame, 0, frame.rows, <<"training", trainings'>>, score)
    OBVIOUS
  <2>2. Factors!register(f, f.result) /\ said' = {}
    BY <1>4, <2>1 DEF Factors!train_model
  <2>3. frame.rows \in Nat
    BY FactorAssumption
  <2>4. FactorHolds(f)
    BY <2>1, <2>3, FittedHolds
  <2>5. PairHolds(f, f.result)
    BY <2>4 DEF PairHolds, FactorHolds
  <2>6. RegistryInv'
    BY <2>2, <2>5, RegisterKeeps
  <2> QED BY <1>1, <2>2, <2>6
<1>5. ASSUME NEW listed \in Listings, NEW frame \in Frames, NEW window \in Windows,
             NEW score \in [1..Factors!Cardinality(Factors!Folds(window, frame.rows)) -> Scores \cup {NaN}],
             Factors!walk_forward_optimize(listed, frame, window, score)
      PROVE  FactorInv'
  BY <1>5, WalkKeeps
<1>6. ASSUME NEW frame, NEW window, Factors!WalkEndsEmpty(frame, window) PROVE FactorInv'
  BY <1>6, <1>1, <1>2 DEF Factors!WalkEndsEmpty
<1>7. ASSUME NEW id \in DOMAIN models, Factors!delete_model(id) PROVE FactorInv'
  <2>1. /\ models' = [i \in DOMAIN models \ {id} |-> models[i]]
        /\ results' = [i \in DOMAIN results \ {id} |-> results[i]] /\ disk' = disk /\ said' = {}
    BY <1>7 DEF Factors!delete_model, Factors!remove, Factors!Less
  <2>2. RegistryInv'
    BY <2>1 DEF RegistryInv
  <2> QED BY <1>1, <2>1, <2>2
<1>8. ASSUME NEW id \in DOMAIN models, NEW frame \in Frames, Factors!predict(id, frame)
      PROVE  FactorInv'
  <2> DEFINE a == [op |-> "predict", id |-> id, frame |-> frame,
                   ok |-> Factors!Predicts(models[id], frame)]
  <2>1. UNCHANGED <<models, results, disk>> /\ said' = {a}
    BY <1>8 DEF Factors!predict
  <2>2. a.op = "predict" /\ a.id = id /\ a.frame = frame /\ a.ok = Factors!Predicts(models[id], frame)
    OBVIOUS
  <2> HIDE DEF a
  <2>3. FactorHolds(models[id])
    BY DEF RegistryInv, PairHolds
  <2>4. Factors!BestFoldWins'
    BY <2>1, <2>2 DEF Factors!BestFoldWins
  <2>5. /\ a.ok => Factors!ToSet(models[id].used) \subseteq Factors!ToSet(frame.columns)
        /\ Factors!ToSet(frame.columns) = Factors!ToSet(models[id].used) => a.ok
    BY <2>2, <2>3, UsesDecide
  <2>6. Factors!PredictsAsFitted'
    BY <2>1, <2>2, <2>5 DEF Factors!PredictsAsFitted
  <2> QED BY <1>2, <2>1, <2>4, <2>6
<1>9. CASE Factors!Restart
  <2>1. models' = <<>> /\ results' = <<>> /\ said' = {} /\ disk' = disk
    BY <1>9 DEF Factors!Restart
  <2>2. RegistryInv'
    BY <2>1 DEF RegistryInv
  <2> QED BY <1>1, <2>1, <2>2
<1>10. ASSUME NEW f \in disk, Factors!LoadAndRegister(f) PROVE FactorInv'
  <2>1. Factors!register(f, f.result) /\ said' = {}
    BY <1>10 DEF Factors!LoadAndRegister
  <2>2. PairHolds(f, f.result)
    BY DEF RegistryInv, PairHolds, FactorHolds
  <2>3. RegistryInv'
    BY <2>1, <2>2, RegisterKeeps
  <2> QED BY <1>1, <2>1, <2>3
<1> QED BY <1>3, <1>4, <1>5, <1>6, <1>7, <1>8, <1>9, <1>10 DEF Factors!FactorNext

LEMMA FactorPromises == FactorInv => Factors!RegistryIsTruthful
<1> SUFFICES ASSUME FactorInv PROVE Factors!ResultsDescribeModels
  BY DEF FactorInv, Factors!RegistryIsTruthful
<1>1. RegistryInv
  BY DEF FactorInv
<1>2. ASSUME NEW id \in DOMAIN models
      PROVE  /\ results[id].id = id
             /\ models[id].result = results[id] \/ Factors!EarlierFold(results[id])
             /\ \A s \in results[id].scoredOn :
                  \A g \in IF results[id].fold = 0 THEN results[id].learnt ELSE results[id].given : g < s
             /\ models[id].used = models[id].columns =>
                  \A i \in DOMAIN results[id].importances :
                    results[id].importances[i].of = results[id].importances[i].is
             /\ models[id].result.learnt = models[id].learnt
  <2>1. PICK f, r : f = models[id] /\ r = results[id]
    OBVIOUS
  <2>2. PairHolds(f, r) /\ r.id = id
    BY <1>1, <2>1 DEF RegistryInv
  <2>3. ASSUME f.used = f.columns, NEW i \in DOMAIN r.importances
        PROVE  r.importances[i].of = r.importances[i].is
    BY <2>2, <2>3 DEF PairHolds, Factors!Importances
  <2> QED BY <2>1, <2>2, <2>3 DEF PairHolds, FactorHolds, ResultHolds
<1>3. \A f \in disk : f.result.learnt = f.learnt
  BY <1>1 DEF RegistryInv, FactorHolds
<1>4. DOMAIN models = DOMAIN results
  BY <1>1 DEF RegistryInv
<1> QED BY <1>2, <1>3, <1>4 DEF Factors!ResultsDescribeModels

-----------------------------------------------------------------------------
(* All parts                                                               *)

allParts == <<part, clock, hubVars, cacheOnly, dataOnly, shopOnly>>

\* Each part keeps the invariant of its own.
ServiceInv ==
  /\ part = "hub" => HubInv
  /\ part = "cache" => CacheInv
  /\ part = "data" => DataInv
  /\ part = "store" => StoreInv
  /\ part = "models" => FactorInv

LEMMA ServiceStart == ServiceInit => ServiceInv
  BY HubStart, CacheStart, DataStart, StoreStart, FactorStart DEF ServiceInit, ServiceInv

LEMMA ServiceStep == ServiceInv /\ [ServiceNext]_allParts => ServiceInv'
<1> SUFFICES ASSUME ServiceInv, [ServiceNext]_allParts PROVE ServiceInv'
  OBVIOUS
<1>1. part' = part
  BY DEF ServiceNext, HubPart, CachePart, DataPart, StorePart, ModelsPart, allParts
<1>2. CASE part = "hub"
  <2>1. HubNext \/ UNCHANGED hubVars
    BY <1>2 DEF ServiceNext, HubPart, allParts
  <2>2. HubInv'
    BY <1>2, <2>1, HubStep, HubStutter DEF ServiceInv
  <2> QED BY <1>1, <1>2, <2>2 DEF ServiceInv
<1>3. CASE part = "cache"
  <2>1. [CacheNext]_cacheVars
    BY <1>3 DEF ServiceNext, CachePart, allParts, cacheVars, cacheOnly
  <2>2. CacheInv'
    BY <1>3, <2>1, CacheStep DEF ServiceInv
  <2> QED BY <1>1, <1>3, <2>2 DEF ServiceInv
<1>4. CASE part = "store"
  <2>1. [Designs!StoreNext]_storeOnly
    BY <1>4 DEF ServiceNext, StorePart, allParts, shopOnly, storeOnly
  <2>2. StoreInv'
    BY <1>4, <2>1, StoreStep DEF ServiceInv
  <2> QED BY <1>1, <1>4, <2>2 DEF ServiceInv
<1>5. CASE part = "data"
  <2>1. [Market!DataNext]_<<clock, dataOnly>>
    BY <1>5 DEF ServiceNext, DataPart, allParts, dataOnly
  <2>2. DataInv'
    BY <1>5, <2>1, DataStep DEF ServiceInv
  <2> QED BY <1>1, <1>5, <2>2 DEF ServiceInv
<1>6. CASE part = "models"
  <2>1. [Factors!FactorNext]_modelsOnly
    BY <1>6 DEF ServiceNext, ModelsPart, allParts, shopOnly, modelsOnly
  <2>2. FactorInv'
    BY <1>6, <2>1, FactorStep DEF ServiceInv
  <2> QED BY <1>1, <1>6, <2>2 DEF ServiceInv
<1>7. CASE part \notin {"hub", "cache", "data", "store", "models"}
  BY <1>1, <1>7 DEF ServiceInv
<1> QED BY <1>2, <1>3, <1>4, <1>5, <1>6, <1>7

LEMMA ServiceInvariance == ServiceSpec => []ServiceInv
  BY ServiceStart, ServiceStep, PTL DEF ServiceSpec, allParts

\* For any sockets and channels, a broadcast reaches each steady subscriber once and
\* nobody who was never subscribed (broadcast).
THEOREM BroadcastsReach == ServiceSpec => []BroadcastsDeliver
<1>1. ServiceInv => BroadcastsDeliver
  BY HubPromises DEF ServiceInv, BroadcastsDeliver
<1> QED BY <1>1, ServiceInvariance, PTL

\* For any sockets, the hub knows the connections whose endpoints serve, up to broadcasts
\* that failed (connect, disconnect, the endpoints).
THEOREM HubKnowsItsSockets == ServiceSpec => []ConnectionsAreKept
<1>1. ServiceInv => ConnectionsAreKept
  BY HubPromises DEF ServiceInv, ConnectionsAreKept
<1> QED BY <1>1, ServiceInvariance, PTL

\* For any indicators, series, size and time to live, a cache keeps within its size and
\* answers what the calculation would give (IndicatorCache, CachedIndicator).
THEOREM CachesAnswerTruly == ServiceSpec => []CacheAnswers
<1>1. ServiceInv => CacheAnswers
  BY CachePromises DEF ServiceInv, CacheAnswers
<1> QED BY <1>1, ServiceInvariance, PTL

\* For any strategies, ports and categories that are no types, the checks of a strategy
\* agree, the store keeps its nodes and edges, and a graph that was serialized is never
\* built again (create_strategy, deserialize_graph, serialize_graph).
THEOREM StrategiesStayWhatTheyAre == ServiceSpec => []StrategiesTracked
<1>1. ServiceInv => StrategiesTracked
  BY StorePromises DEF ServiceInv, StrategiesTracked
<1> QED BY <1>1, ServiceInvariance, PTL

\* For any files, with bars at any times in any order, no quote is served past the time its
\* caller gave it or after it was invalidated, and what is served of a file are its bars, in
\* order, within the bounds, the latest and all that the limit allows (DataCache, _load_data,
\* get_quote, get_bars).
THEOREM DataIsServedTruly == ServiceSpec => []DataAnswers
<1>1. ServiceInv => DataAnswers
  BY DEF ServiceInv, DataInv, DataAnswers
<1> QED BY <1>1, ServiceInvariance, PTL

\* For any columns, data, windows and scores, a result was scored after all that its model
\* was given and belongs to it or to an earlier fold; the best fold is one that no other beats;
\* the folds that are announced are those there are; a model predicts from the columns it was
\* fitted on (fit, evaluate, split, get_n_splits, walk_forward_optimize, register, load).
THEOREM ModelsAreAsTold == ServiceSpec => []ModelsAreTold
<1>1. ServiceInv => ModelsAreTold
  BY FactorPromises DEF ServiceInv, ModelsAreTold
<1> QED BY <1>1, ServiceInvariance, PTL
=============================================================================
