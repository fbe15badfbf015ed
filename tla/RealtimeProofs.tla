--------------------------- MODULE RealtimeProofs ---------------------------
(***************************************************************************)
(* Theorems about the realtime service, for every set of sockets and       *)
(* channels: the two subscription indexes agree, the linger timers are     *)
(* held and only wait on empty entries, no entry is leaked while the       *)
(* service is up, and the service implements Fanout.                       *)
(***************************************************************************)
EXTENDS Realtime, TLAPS

(* The inductive invariant: the safety invariants need one another.  A     *)
(* linger timer may be dropped by addSubscription only because a held      *)
(* timer is the only one armed; an entry left empty gets a timer only      *)
(* because the sets it was computed from belong to entries.                *)
IInv == /\ TypeOK
        /\ IndexesAgree
        /\ TimersHeld
        /\ LingerOnlyEmpty
        /\ EmptyEntryTimed
        /\ NoGhosts

(* What the shared helpers need and keep, whatever the phase. *)
MapInv == /\ subs \in [Channels -> SUBSET Sockets]
          /\ entries \in SUBSET Channels
          /\ wsChannels \in [Sockets -> SUBSET Channels]
          /\ lingerTimers \in SUBSET Channels
          /\ armed \in [Channels -> Nat]
          /\ due \in SUBSET Channels
          /\ IndexesAgree
          /\ TimersHeld
          /\ LingerOnlyEmpty

(* Every entry without subscribers has a timeout armed. *)
AllTimed == \A c \in entries : subs[c] = {} => armed[c] > 0

(* Where the members of the channels' sets are. *)
LEMMA MapInvOfIInv == IInv => MapInv
BY DEF IInv, MapInv, TypeOK

(* addSubscription keeps the indexes and the timers consistent: a held      *)
(* timer is the only one armed, so clearing it leaves none.                 *)
LEMMA AddKeeps ==
    ASSUME MapInv, NEW ws \in Sockets, NEW c \in Channels, addSubscription(ws, c)
    PROVE  /\ MapInv'
           /\ AllTimed => AllTimed'
           /\ entries' = entries \union {c}
           /\ \A d \in Channels : subs'[d] = IF d = c THEN subs[d] \union {ws} ELSE subs[d]
<1> USE DEF MapInv, addSubscription, ClearTimeouts
<1>1. \A d \in Channels : subs'[d] = IF d = c THEN subs[d] \union {ws} ELSE subs[d]
  OBVIOUS
<1>2. \A v \in Sockets : wsChannels'[v] = IF v = ws THEN wsChannels[v] \union {c}
                                                   ELSE wsChannels[v]
  OBVIOUS
<1>3. \A d \in Channels : armed'[d] = IF d = c THEN 0 ELSE armed[d]
  BY DEF TimersHeld
<1>4. /\ subs' \in [Channels -> SUBSET Sockets]
      /\ entries' \in SUBSET Channels
      /\ wsChannels' \in [Sockets -> SUBSET Channels]
      /\ lingerTimers' \in SUBSET Channels
      /\ due' \in SUBSET Channels
  OBVIOUS
<1>5. armed' \in [Channels -> Nat]
  BY <1>3
<1>6. IndexesAgree'
  BY <1>1, <1>2 DEF IndexesAgree
<1>7. TimersHeld'
  BY <1>3 DEF TimersHeld
<1>8. LingerOnlyEmpty'
  BY <1>1 DEF LingerOnlyEmpty
<1>9. AllTimed => AllTimed'
  BY <1>1, <1>3 DEF AllTimed
<1> QED
  BY <1>1, <1>4, <1>5, <1>6, <1>7, <1>8, <1>9

(* removeSubscriptions keeps them too: a channel it leaves empty gets one   *)
(* timeout, in place of the one that was armed.                             *)
LEMMA RemoveKeeps ==
    ASSUME MapInv, NEW R \in SUBSET (Sockets \X Channels), removeSubscriptions(R)
    PROVE  /\ MapInv'
           /\ AllTimed => AllTimed'
           /\ entries' = entries
           /\ \A c \in Channels : subs'[c] = {ws \in subs[c] : <<ws, c>> \notin R}
<1> USE DEF MapInv, removeSubscriptions, scheduleLinger
<1> DEFINE E == Emptied(R)
<1>1. \A c \in Channels : subs'[c] = {ws \in subs[c] : <<ws, c>> \notin R}
  BY DEF Remaining
<1>2. \A ws \in Sockets : wsChannels'[ws] = {c \in wsChannels[ws] : <<ws, c>> \notin R}
  OBVIOUS
<1>3. \A c \in Channels : c \in E <=> /\ c \in entries
                                      /\ subs'[c] = {}
                                      /\ \E ws \in Sockets : <<ws, c>> \in R
  BY <1>1 DEF Emptied, Remaining
<1>4. E \subseteq Channels
  BY DEF Emptied
<1> HIDE DEF E
<1>5. \A c \in Channels : armed'[c] = IF c \in E THEN 1 ELSE armed[c]
  <2> SUFFICES ASSUME NEW c \in Channels
               PROVE  armed'[c] = IF c \in E THEN 1 ELSE armed[c]
    OBVIOUS
  <2>1. armed'[c] = IF c \in E THEN ClearTimeouts(E)[c] + 1 ELSE armed[c]
    BY DEF E
  <2>2. c \in E => ClearTimeouts(E)[c] = 0
    BY DEF ClearTimeouts, TimersHeld
  <2> QED
    BY <2>1, <2>2
<1>6. lingerTimers' = lingerTimers \union E /\ due' = due \ E
  BY DEF E
<1>7. /\ subs' \in [Channels -> SUBSET Sockets]
      /\ entries' \in SUBSET Channels
      /\ wsChannels' \in [Sockets -> SUBSET Channels]
      /\ lingerTimers' \in SUBSET Channels
      /\ due' \in SUBSET Channels
  BY <1>4, <1>6 DEF Remaining
<1>8. armed' \in [Channels -> Nat]
  BY <1>5 DEF E
<1>9. IndexesAgree'
  BY <1>1, <1>2 DEF IndexesAgree
<1>10. TimersHeld'
  BY <1>5, <1>6 DEF TimersHeld
<1>11. LingerOnlyEmpty'
  BY <1>1, <1>3, <1>4, <1>6 DEF LingerOnlyEmpty
<1>12. AllTimed => AllTimed'
  BY <1>1, <1>3, <1>5 DEF AllTimed
<1> QED
  BY <1>1, <1>7, <1>8, <1>9, <1>10, <1>11, <1>12
-----------------------------------------------------------------------------
LEMMA InitIInv == Init => IInv
BY PubAssumption DEF Init, IInv, TypeOK, IndexesAgree, TimersHeld,
   LingerOnlyEmpty, EmptyEntryTimed, NoGhosts

(* The types of what the helpers do not touch. *)
ConnType == /\ phase \in {"up", "draining", "stopped"}
            /\ sock \in [Sockets -> {"none", "tcp", "open", "closing"}]
            /\ scope \in [Sockets -> Channels \union {NoScope}]
            /\ late \in SUBSET Sockets
            /\ wsAlive \in [Sockets -> BOOLEAN]
TrafficType == /\ bus \in Seq(Messages)
               /\ published \in 0..MaxPub
               /\ inbox \in [Sockets -> Seq(Messages)]

LEMMA TypeParts == TypeOK <=> /\ ConnType
                              /\ TrafficType
                              /\ subs \in [Channels -> SUBSET Sockets]
                              /\ entries \in SUBSET Channels
                              /\ wsChannels \in [Sockets -> SUBSET Channels]
                              /\ lingerTimers \in SUBSET Channels
                              /\ armed \in [Channels -> Nat]
                              /\ due \in SUBSET Channels
BY DEF TypeOK, ConnType, TrafficType

(* The invariant, cut along the lines of what the actions disturb. *)
LEMMA IInvParts ==
    IInv <=> /\ ConnType
             /\ TrafficType
             /\ MapInv
             /\ phase = "up" => AllTimed
             /\ NoGhosts
BY TypeParts DEF IInv, MapInv, EmptyEntryTimed, AllTimed

LEMMA TrafficStep == IInv /\ [Next]_vars => TrafficType'
<1> SUFFICES ASSUME IInv, [Next]_vars PROVE TrafficType'
  OBVIOUS
<1>1. TrafficType
  BY IInvParts
<1>2. ASSUME NEW c \in Channels, Enqueue(c) PROVE bus' \in Seq(Messages) /\ published' \in 0..MaxPub
  BY <1>1, <1>2, PubAssumption DEF Enqueue, TrafficType, Messages
<1>3. ASSUME NEW ws \in Sockets, Typing(ws) PROVE TrafficType'
  <2>1. scope[ws] \in Channels
    BY <1>3, IInvParts DEF Typing, Handled, ConnType
  <2> QED
    BY <1>1, <1>2, <1>3, <2>1 DEF Typing, TrafficType
<1>4. ASSUME NEW c \in Channels, ApiPublish(c) PROVE TrafficType'
  BY <1>1, <1>2, <1>4 DEF ApiPublish, TrafficType
<1>5. CASE LoseBus
  BY <1>1, <1>5 DEF LoseBus, TrafficType
<1>6. CASE Deliver
  <2>1. bus \in Seq(Messages) /\ bus # <<>>
    BY <1>1, <1>6 DEF Deliver, TrafficType
  <2>2. Head(bus) \in Messages /\ Tail(bus) \in Seq(Messages)
    BY <2>1
  <2>3. \A ws \in Sockets : Append(inbox[ws], Head(bus)) \in Seq(Messages)
    BY <1>1, <2>2 DEF TrafficType
  <2> QED
    BY <1>1, <1>6, <2>2, <2>3 DEF Deliver, TrafficType
<1>7. ASSUME NEW ws \in Sockets, Closed(ws) PROVE TrafficType'
  BY <1>1, <1>7 DEF Closed, TrafficType
<1>8. CASE UNCHANGED traffic
  BY <1>1, <1>8 DEF traffic, TrafficType
<1> QED
  BY <1>3, <1>4, <1>5, <1>6, <1>7, <1>8
  DEF Next, vars, traffic, Accept, Reject, Abandon, PeerClose, Pong, Subscribe,
      Unsubscribe, Forbidden, Connect, LingerElapses, LingerExpires, Heartbeat,
      Shutdown, Stop

LEMMA ConnStep == IInv /\ [Next]_vars => ConnType'
<1> SUFFICES ASSUME IInv, [Next]_vars PROVE ConnType'
  OBVIOUS
<1>1. ConnType
  BY IInvParts
<1> QED
  BY <1>1
  DEF ConnType, Next, vars, Accept, Reject, Abandon, PeerClose, Closed, Pong, Subscribe,
      Unsubscribe, Forbidden, Typing, Connect, ApiPublish, LingerElapses, LingerExpires,
      LoseBus, Deliver, Heartbeat, Shutdown, Stop

(* A step that leaves the maps and timers alone and moves no subscribed      *)
(* socket out of wss.clients keeps everything but the types.                 *)
LEMMA QuietStep ==
    ASSUME IInv, UNCHANGED <<maps, timers>>,
           phase' = "up" => phase = "up",
           \A ws \in Sockets : sock[ws] \in {"open", "closing"} =>
               sock'[ws] \in {"open", "closing"} /\ scope'[ws] = scope[ws]
    PROVE  MapInv' /\ NoGhosts' /\ (phase' = "up" => AllTimed')
<1> USE IInvParts DEF maps, timers
<1>1. MapInv'
  BY DEF MapInv, IndexesAgree, TimersHeld, LingerOnlyEmpty
<1>2. phase' = "up" => AllTimed'
  BY DEF AllTimed
<1>3. NoGhosts'
  BY DEF NoGhosts, MapInv
<1> QED
  BY <1>1, <1>2, <1>3

LEMMA RemoveAllKeeps ==
    ASSUME IInv, NEW S \in SUBSET Sockets, removeAllSubscriptions(S)
    PROVE  /\ MapInv'
           /\ AllTimed => AllTimed'
           /\ entries' = entries
           /\ \A c \in Channels : subs'[c] = subs[c] \ S
<1> DEFINE R == AllOf(S)
<1>1. R \in SUBSET (Sockets \X Channels)
  BY DEF AllOf
<1>2. MapInv /\ removeSubscriptions(R)
  BY IInvParts DEF removeAllSubscriptions
<1>3. \A c \in Channels : \A ws \in subs[c] : <<ws, c>> \in R <=> ws \in S
  BY <1>2 DEF AllOf, MapInv, IndexesAgree
<1> HIDE DEF R
<1>4. /\ MapInv'
      /\ AllTimed => AllTimed'
      /\ entries' = entries
      /\ \A c \in Channels : subs'[c] = {ws \in subs[c] : <<ws, c>> \notin R}
  BY <1>1, <1>2, RemoveKeeps
<1> QED
  BY <1>3, <1>4

LEMMA StepKeeps == IInv /\ [Next]_vars => IInv'
<1> SUFFICES ASSUME IInv, [Next]_vars PROVE IInv'
  OBVIOUS
<1> DEFINE Goal == MapInv' /\ NoGhosts' /\ (phase' = "up" => AllTimed')
<1>1. ConnType' /\ TrafficType'
  BY ConnStep, TrafficStep
<1>2. ConnType /\ MapInv /\ NoGhosts /\ (phase = "up" => AllTimed)
  BY IInvParts
<1>3. ASSUME NEW ws \in Sockets,
             \/ Accept(ws) \/ Reject(ws) \/ Abandon(ws) \/ PeerClose(ws)
             \/ Pong(ws) \/ Forbidden(ws) \/ Typing(ws)
             \/ \E c \in Channels : Connect(ws, c)
      PROVE  Goal
  BY <1>2, <1>3, QuietStep
  DEF ConnType, Accept, Reject, Abandon, PeerClose, Pong, Forbidden, Typing, Connect, Handled, Clients
<1>4. ASSUME NEW ws \in Sockets, Closed(ws) PROVE Goal
  <2>1. /\ MapInv'
        /\ AllTimed => AllTimed'
        /\ entries' = entries
        /\ \A c \in Channels : subs'[c] = subs[c] \ {ws}
    BY <1>4, RemoveAllKeeps DEF Closed
  <2>2. NoGhosts'
    BY <1>2, <1>4, <2>1 DEF NoGhosts, Closed, ConnType, MapInv
  <2> QED
    BY <1>2, <1>4, <2>1, <2>2 DEF Closed
<1>5. ASSUME NEW ws \in Sockets, Subscribe(ws) PROVE Goal
  <2>1. scope[ws] \in Channels /\ sock[ws] \in {"open", "closing"}
    BY <1>2, <1>5 DEF Subscribe, Handled, Clients, ConnType
  <2>2. /\ MapInv'
        /\ AllTimed => AllTimed'
        /\ entries' = entries \union {scope[ws]}
        /\ \A d \in Channels : subs'[d] = IF d = scope[ws] THEN subs[d] \union {ws} ELSE subs[d]
    BY <1>2, <1>5, <2>1, AddKeeps DEF Subscribe
  <2>3. UNCHANGED <<phase, sock, scope>>
    BY <1>5 DEF Subscribe
  <2>4. NoGhosts'
    <3> SUFFICES ASSUME NEW c \in Channels
                 PROVE  /\ \A v \in subs'[c] : sock[v] \in {"open", "closing"} /\ scope[v] = c
                        /\ subs'[c] # {} => c \in entries'
      BY <2>3 DEF NoGhosts
    <3>1. CASE c = scope[ws]
      <4>1. subs'[c] = subs[c] \union {ws} /\ c \in entries'
        BY <2>2, <3>1
      <4>2. sock[ws] \in {"open", "closing"} /\ scope[ws] = c
        BY <2>1, <3>1
      <4>3. \A v \in subs[c] : sock[v] \in {"open", "closing"} /\ scope[v] = c
        BY <1>2 DEF NoGhosts
      <4> QED
        BY <4>1, <4>2, <4>3
    <3>2. CASE c # scope[ws]
      BY <1>2, <2>2, <3>2 DEF NoGhosts
    <3> QED
      BY <3>1, <3>2
  <2> QED
    BY <1>2, <2>2, <2>3, <2>4
<1>6. ASSUME NEW ws \in Sockets, Unsubscribe(ws) PROVE Goal
  <2>1. {<<ws, scope[ws]>>} \in SUBSET (Sockets \X Channels)
    BY <1>2, <1>6 DEF Unsubscribe, Handled, ConnType
  <2>2. /\ MapInv'
        /\ AllTimed => AllTimed'
        /\ entries' = entries
        /\ \A c \in Channels : subs'[c] \subseteq subs[c]
    BY <1>2, <1>6, <2>1, RemoveKeeps DEF Unsubscribe
  <2>3. NoGhosts'
    BY <1>2, <1>6, <2>2 DEF NoGhosts, Unsubscribe
  <2> QED
    BY <1>2, <1>6, <2>2, <2>3 DEF Unsubscribe
<1>7. ASSUME NEW c \in Channels, LingerElapses(c) PROVE Goal
  <2>1. NoGhosts'
    BY <1>2, <1>7 DEF LingerElapses, NoGhosts, maps
  <2>2. phase' = "up" => AllTimed'
    BY <1>2, <1>7 DEF LingerElapses, AllTimed, maps
  <2>3. MapInv'
    BY <1>2, <1>7 DEF LingerElapses, MapInv, maps, IndexesAgree, TimersHeld, LingerOnlyEmpty
  <2> QED
    BY <2>1, <2>2, <2>3
<1>8. ASSUME NEW c \in Channels, LingerExpires(c) PROVE Goal
  <2>1. armed[c] = 1 /\ c \in lingerTimers /\ subs[c] = {} /\ c \in entries
    BY <1>2, <1>8 DEF LingerExpires, MapInv, TimersHeld, LingerOnlyEmpty
  <2>2. /\ entries' = entries \ {c}
        /\ lingerTimers' = lingerTimers \ {c}
        /\ \A d \in Channels : armed'[d] = IF d = c THEN 0 ELSE armed[d]
        /\ UNCHANGED <<subs, wsChannels, sock, scope, phase>>
    BY <1>2, <1>8, <2>1 DEF LingerExpires, MapInv
  <2>3. armed' \in [Channels -> Nat] /\ due' \in SUBSET Channels
    BY <1>2, <1>8, <2>1 DEF LingerExpires, MapInv
  <2>4. NoGhosts'
    BY <1>2, <2>1, <2>2 DEF NoGhosts
  <2>5. phase' = "up" => AllTimed'
    BY <1>2, <2>2 DEF AllTimed, MapInv
  <2>6. MapInv'
    BY <1>2, <2>1, <2>2, <2>3 DEF MapInv, IndexesAgree, TimersHeld, LingerOnlyEmpty
  <2> QED
    BY <2>4, <2>5, <2>6
<1>9. ASSUME Heartbeat PROVE Goal
  <2> DEFINE Dead == {ws \in Clients : ~wsAlive[ws]}
  <2>1. Dead \in SUBSET Sockets /\ removeAllSubscriptions(Dead)
    BY <1>9 DEF Heartbeat, Clients
  <2>2. /\ MapInv'
        /\ AllTimed => AllTimed'
        /\ entries' = entries
        /\ \A c \in Channels : subs'[c] = subs[c] \ Dead
    BY <2>1, RemoveAllKeeps
  <2>3. NoGhosts'
    BY <1>2, <1>9, <2>2 DEF NoGhosts, Heartbeat, MapInv, ConnType
  <2> QED
    BY <1>2, <1>9, <2>2, <2>3 DEF Heartbeat
<1>10. ASSUME Shutdown PROVE Goal
  <2>1. phase' # "up" /\ UNCHANGED maps /\ lingerTimers' = {} /\ due' = {}
    BY <1>10 DEF Shutdown
  <2>2. \A c \in Channels : armed'[c] = 0
    BY <1>2, <1>10 DEF Shutdown, ClearTimeouts, MapInv, TimersHeld
  <2>3. armed' \in [Channels -> Nat]
    BY <1>10, <2>2 DEF Shutdown, ClearTimeouts
  <2>4. MapInv'
    BY <1>2, <2>1, <2>2, <2>3 DEF MapInv, maps, IndexesAgree, TimersHeld, LingerOnlyEmpty
  <2>5. NoGhosts'
    BY <1>2, <1>10, <2>1 DEF NoGhosts, Shutdown, maps, MapInv
  <2> QED
    BY <2>1, <2>4, <2>5
<1>11. ASSUME \/ LoseBus \/ Deliver \/ Stop \/ UNCHANGED vars
              \/ \E c \in Channels : ApiPublish(c)
       PROVE  Goal
  BY <1>2, <1>11, QuietStep DEF LoseBus, Deliver, Stop, ApiPublish, vars
<1>12. Goal
  BY <1>3, <1>4, <1>5, <1>6, <1>7, <1>8, <1>9, <1>10, <1>11 DEF Next
<1> QED
  BY <1>1, <1>12
  DEF IInv, TypeOK, ConnType, TrafficType, MapInv, EmptyEntryTimed, AllTimed

(* The inductive invariant holds in every reachable state. *)
THEOREM Invariance == Spec => []IInv
BY InitIInv, StepKeeps, PTL DEF Spec

(* Types: the first part of the invariant. *)
THEOREM TypeCorrect == Spec => []TypeOK
BY Invariance, PTL DEF IInv

(* The two subscription indexes always describe the same relation, and only *)
(* sockets that are upgraded and hold a ticket for the channel are in it.   *)
THEOREM SubscriptionsConsistent == Spec => []Subscriptions
<1>1. IInv => Subscriptions
  BY DEF IInv, Subscriptions
<1> QED
  BY <1>1, Invariance, PTL

(* Linger timers: every armed one is held, waits on an empty entry, and     *)
(* every empty entry has one while the service is up.                       *)
THEOREM LingerConsistent == Spec => []Lingers
<1>1. IInv => Lingers
  BY DEF IInv, Lingers
<1> QED
  BY <1>1, Invariance, PTL

(* Only the linger callback removes an entry, and the entry it removes is    *)
(* one no socket is subscribed to: its timer is pending only while the set   *)
(* is empty, and the indexes agree.                                          *)
LEMMA EntryStep ==
    ASSUME IInv, Next
    PROVE  \A c \in entries \ entries' : \A ws \in Sockets : c \notin wsChannels[ws]
<1> SUFFICES ASSUME NEW c \in Channels, c \in entries, c \notin entries'
             PROVE  \A ws \in Sockets : c \notin wsChannels[ws]
  BY DEF IInv, TypeOK
<1>1. subs[c] = {} => \A ws \in Sockets : c \notin wsChannels[ws]
  BY DEF IInv, IndexesAgree
<1>2. ASSUME NEW d \in Channels, LingerExpires(d) PROVE subs[c] = {}
  BY <1>2 DEF LingerExpires
<1>3. ASSUME NEW ws \in Sockets, Subscribe(ws) PROVE FALSE
  BY <1>3 DEF Subscribe, addSubscription
<1>4. entries' = entries => FALSE
  OBVIOUS
<1> QED
  BY <1>1, <1>2, <1>3, <1>4
  DEF Next, maps, Accept, Reject, Abandon, PeerClose, Closed, Pong, Unsubscribe, Forbidden,
      Typing, Connect, ApiPublish, LingerElapses, LoseBus, Deliver, Heartbeat, Shutdown, Stop,
      removeAllSubscriptions, removeSubscriptions

THEOREM EntrySafe == Spec => EntryOutlivesSubscribers
<1>1. IInv /\ [Next]_vars =>
        [\A c \in entries \ entries' : \A ws \in Sockets : c \notin wsChannels[ws]]_vars
  BY EntryStep
<1> QED
  BY <1>1, Invariance, PTL DEF Spec, EntryOutlivesSubscribers
-----------------------------------------------------------------------------
(* The service implements Fanout, under the mapping of ImplementsFanout.     *)
(* Delivery walks subs, Fanout's members are wsChannels: the step below      *)
(* needs IndexesAgree.                                                       *)
OpenSockets == {ws \in Sockets : sock[ws] = "open"}

LEMMA FanoutInit == Init => F!Init
BY DEF Init, F!Init

LEMMA FanoutDeliver == ASSUME IInv, Deliver PROVE F!Publish(Head(bus)) /\ Head(bus) \in Messages
<1>1. Head(bus) \in Messages /\ Head(bus).ch \in Channels
  <2>1. bus \in Seq(Messages) /\ bus # <<>>
    BY DEF IInv, TypeOK, Deliver
  <2>2. Head(bus) \in Messages
    BY <2>1
  <2> QED
    BY <2>2 DEF Messages
<1>2. \A ws \in Sockets : ws \in subs[Head(bus).ch] <=> Head(bus).ch \in wsChannels[ws]
  BY <1>1 DEF IInv, IndexesAgree
<1>3. UNCHANGED <<wsChannels, sock>>
  BY DEF Deliver, maps
<1> QED
  BY <1>1, <1>2, <1>3 DEF Deliver, F!Publish

LEMMA FanoutClosed == ASSUME IInv, NEW ws \in Sockets, Closed(ws) PROVE F!Forget(ws)
<1>1. wsChannels \in [Sockets -> SUBSET Channels] /\ sock \in [Sockets -> {"none", "tcp", "open", "closing"}]
  BY DEF IInv, TypeOK
<1>2. OpenSockets' = OpenSockets /\ ws \notin OpenSockets
  BY <1>1 DEF Closed, OpenSockets
<1>3. \A v \in Sockets : wsChannels'[v] = IF v = ws THEN {} ELSE wsChannels[v]
  BY <1>1 DEF Closed, removeAllSubscriptions, removeSubscriptions, AllOf
<1>4. wsChannels' = [wsChannels EXCEPT ![ws] = {}]
  BY <1>1, <1>3 DEF Closed, removeAllSubscriptions, removeSubscriptions
<1> QED
  BY <1>2, <1>4 DEF Closed, F!Forget, OpenSockets

LEMMA FanoutHeartbeat == ASSUME IInv, Heartbeat PROVE F!Next
<1> PICK Dead \in SUBSET Sockets : Dead = {ws \in Clients : ~wsAlive[ws]}
  BY DEF Clients
<1>1. wsChannels \in [Sockets -> SUBSET Channels]
  BY DEF IInv, TypeOK
<1>2. OpenSockets' = OpenSockets \ Dead /\ Dead \intersect OpenSockets' = {}
  BY <1>1 DEF Heartbeat, OpenSockets
<1>3. wsChannels' = [ws \in Sockets |-> {c \in wsChannels[ws] : <<ws, c>> \notin AllOf(Dead)}]
  BY DEF Heartbeat, removeAllSubscriptions, removeSubscriptions
<1>4. \A ws \in Sockets : {c \in wsChannels[ws] : <<ws, c>> \notin AllOf(Dead)}
                            = IF ws \in Dead THEN {} ELSE wsChannels[ws]
  BY <1>1 DEF AllOf
<1>5. wsChannels' = [ws \in Sockets |-> IF ws \in Dead THEN {} ELSE wsChannels[ws]]
  BY <1>3, <1>4
<1>6. UNCHANGED inbox
  BY DEF Heartbeat, traffic
<1>7. F!Shut(Dead, Dead)
  BY <1>2, <1>5, <1>6 DEF F!Shut, OpenSockets
<1> QED
  BY <1>7 DEF F!Next

LEMMA FanoutStep == IInv /\ [Next]_vars => [F!Next]_(F!vars)
<1> SUFFICES ASSUME IInv, [Next]_vars PROVE F!Next \/ UNCHANGED F!vars
  OBVIOUS
<1> USE DEF OpenSockets
<1>1. TypeOK /\ NoGhosts /\ IndexesAgree
  BY DEF IInv
<1>2. ASSUME UNCHANGED <<wsChannels, inbox>>, OpenSockets' \subseteq OpenSockets PROVE F!Next
  <2>1. F!Shut(OpenSockets \ OpenSockets', {})
    BY <1>1, <1>2 DEF F!Shut, TypeOK
  <2>2. OpenSockets \ OpenSockets' \in SUBSET Sockets /\ {} \in SUBSET Sockets
    OBVIOUS
  <2> QED
    BY <2>1, <2>2 DEF F!Next
<1>3. ASSUME NEW ws \in Sockets, NEW c \in Channels, Connect(ws, c) PROVE F!Next
  <2>1. wsChannels[ws] = {}
    BY <1>1, <1>3 DEF Connect, TypeOK, NoGhosts, IndexesAgree
  <2>2. ws \notin OpenSockets /\ OpenSockets' = OpenSockets \union {ws}
    BY <1>1, <1>3 DEF Connect, TypeOK
  <2>3. F!Open(ws)
    BY <1>3, <2>1, <2>2 DEF Connect, F!Open, maps, traffic
  <2> QED
    BY <2>3 DEF F!Next
<1>4. ASSUME NEW ws \in Sockets, Subscribe(ws) PROVE F!Next
  <2>1. scope[ws] \in Channels
    BY <1>1, <1>4 DEF Subscribe, Handled, TypeOK
  <2>2. F!Join(ws, scope[ws])
    BY <1>4 DEF Subscribe, addSubscription, F!Join, traffic
  <2> QED
    BY <2>1, <2>2 DEF F!Next
<1>5. ASSUME NEW ws \in Sockets, Unsubscribe(ws) PROVE F!Next
  <2>1. scope[ws] \in Channels
    BY <1>1, <1>5 DEF Unsubscribe, Handled, TypeOK
  <2>2. wsChannels' = [wsChannels EXCEPT ![ws] = @ \ {scope[ws]}]
    <3>1. \A v \in Sockets : {c \in wsChannels[v] : <<v, c>> \notin {<<ws, scope[ws]>>}}
                               = IF v = ws THEN wsChannels[v] \ {scope[ws]} ELSE wsChannels[v]
      OBVIOUS
    <3> QED
      BY <1>1, <1>5, <3>1 DEF Unsubscribe, removeSubscriptions, TypeOK
  <2>3. F!Leave(ws, scope[ws])
    BY <1>5, <2>2 DEF Unsubscribe, F!Leave, traffic
  <2> QED
    BY <2>1, <2>3 DEF F!Next
<1>6. CASE Deliver
  BY <1>6, FanoutDeliver DEF F!Next
<1>7. CASE Heartbeat
  BY <1>7, FanoutHeartbeat
<1>8. ASSUME NEW ws \in Sockets, Closed(ws) PROVE F!Next
  BY <1>8, FanoutClosed DEF F!Next
<1>9. ASSUME NEW ws \in Sockets,
             \/ Accept(ws) \/ Reject(ws) \/ Abandon(ws) \/ PeerClose(ws) \/ Pong(ws)
             \/ Forbidden(ws) \/ Typing(ws)
      PROVE  F!Next
  BY <1>1, <1>2, <1>9
  DEF TypeOK, maps, traffic, Accept, Reject, Abandon, PeerClose, Pong, Forbidden, Typing
<1>10. ASSUME \/ LoseBus \/ Shutdown \/ Stop \/ UNCHANGED vars
              \/ \E c \in Channels : ApiPublish(c) \/ LingerElapses(c) \/ LingerExpires(c)
       PROVE  F!Next
  BY <1>1, <1>2, <1>10
  DEF TypeOK, vars, maps, traffic, LoseBus, Shutdown, Stop, ApiPublish, LingerElapses, LingerExpires
<1> QED
  BY <1>3, <1>4, <1>5, <1>6, <1>7, <1>8, <1>9, <1>10 DEF Next

(* Every behaviour of the service is one Fanout allows. *)
THEOREM RealtimeImplementsFanout == Spec => ImplementsFanout
<1>1. Init => F!Init
  BY FanoutInit
<1>2. IInv /\ [Next]_vars => [F!Next]_(F!vars)
  BY FanoutStep
<1> QED
  BY <1>1, <1>2, Invariance, PTL DEF Spec, ImplementsFanout, F!Spec
-----------------------------------------------------------------------------
(* Delivery order.  What makes InboxInOrder inductive: the queue is in        *)
(* order, everything sent is older than everything queued, and a socket that  *)
(* is not upgraded has been sent nothing.                                     *)
QueueInv == /\ \A i \in 1..Len(bus) : bus[i].id \in 1..published
            /\ \A i, j \in 1..Len(bus) : i < j => bus[i].id < bus[j].id
            /\ \A ws \in Sockets : \A k \in 1..Len(inbox[ws]) :
                  /\ inbox[ws][k].id \in 1..published
                  /\ \A i \in 1..Len(bus) : inbox[ws][k].id < bus[i].id
            /\ \A ws \in Sockets : sock[ws] \in {"none", "tcp"} => inbox[ws] = <<>>

OInv == QueueInv /\ InboxInOrder

LEMMA InitOInv == Init => OInv
BY DEF Init, OInv, QueueInv, InboxInOrder

(* A new message is younger than everything queued or sent. *)
LEMMA EnqueueKeeps ==
    ASSUME IInv, OInv, NEW c \in Channels, Enqueue(c), UNCHANGED <<inbox, sock, scope>>
    PROVE  OInv'
<1> DEFINE n == Len(bus)
<1>1. bus \in Seq(Messages) /\ published \in Nat /\ inbox \in [Sockets -> Seq(Messages)]
  BY PubAssumption DEF IInv, TypeOK
<1>2. /\ n \in Nat /\ Len(bus') = n + 1 /\ published' = published + 1
      /\ \A i \in 1..n : bus'[i] = bus[i]
      /\ bus'[n + 1] = [id |-> published + 1, ch |-> c]
  BY <1>1 DEF Enqueue
<1>3. \A i \in 1..n : bus[i].id \in Nat
  BY <1>1 DEF OInv, QueueInv
<1>4. \A ws \in Sockets : \A k \in 1..Len(inbox[ws]) : inbox[ws][k].id \in Nat
  BY <1>1 DEF OInv, QueueInv
<1> HIDE DEF n
<1>5. \A i \in 1..(n + 1) : bus'[i].id \in 1..published'
  BY <1>1, <1>2, <1>3 DEF OInv, QueueInv, n
<1>6. \A i, j \in 1..(n + 1) : i < j => bus'[i].id < bus'[j].id
  <2> SUFFICES ASSUME NEW i \in 1..(n + 1), NEW j \in 1..(n + 1), i < j
               PROVE  bus'[i].id < bus'[j].id
    OBVIOUS
  <2>1. i \in 1..n /\ bus'[i].id = bus[i].id /\ bus[i].id \in 1..published
    BY <1>1, <1>2 DEF OInv, QueueInv, n
  <2>2. CASE j = n + 1
    BY <1>1, <1>2, <2>1, <2>2
  <2>3. CASE j \in 1..n
    BY <1>2, <2>1, <2>3 DEF OInv, QueueInv, n
  <2> QED
    BY <1>2, <2>2, <2>3
<1>7. \A ws \in Sockets : \A k \in 1..Len(inbox[ws]) :
          /\ inbox[ws][k].id \in 1..published'
          /\ \A i \in 1..(n + 1) : inbox[ws][k].id < bus'[i].id
  <2> SUFFICES ASSUME NEW ws \in Sockets, NEW k \in 1..Len(inbox[ws])
               PROVE  /\ inbox[ws][k].id \in 1..published'
                      /\ \A i \in 1..(n + 1) : inbox[ws][k].id < bus'[i].id
    OBVIOUS
  <2>1. inbox[ws][k].id \in 1..published /\ \A i \in 1..n : inbox[ws][k].id < bus[i].id
    BY DEF OInv, QueueInv, n
  <2> QED
    BY <1>1, <1>2, <2>1
<1>8. InboxInOrder'
  BY DEF OInv, InboxInOrder
<1> QED
  BY <1>2, <1>5, <1>6, <1>7, <1>8 DEF OInv, QueueInv

(* Delivery moves the oldest queued message to the end of some inboxes. *)
LEMMA DeliverKeeps == ASSUME IInv, OInv, Deliver PROVE OInv'
<1> DEFINE m == Head(bus)
           n == Len(bus)
<1>1. /\ bus \in Seq(Messages) /\ bus # <<>> /\ published \in Nat
      /\ inbox \in [Sockets -> Seq(Messages)] /\ IndexesAgree /\ NoGhosts
      /\ sock \in [Sockets -> {"none", "tcp", "open", "closing"}]
  BY PubAssumption DEF IInv, TypeOK, Deliver
<1>2. /\ n \in Nat \ {0} /\ Len(bus') = n - 1
      /\ \A i \in 1..(n - 1) : bus'[i] = bus[i + 1]
      /\ m = bus[1] /\ m \in Messages
  BY <1>1 DEF Deliver
<1>3. \A i \in 1..n : bus[i].id \in 1..published /\ bus[i].id \in Nat
  BY <1>1 DEF OInv, QueueInv
<1>4. \A i, j \in 1..n : i < j => bus[i].id < bus[j].id
  BY DEF OInv, QueueInv
<1>5. UNCHANGED <<sock, scope, published>>
  BY DEF Deliver
<1>6. ASSUME NEW ws \in Sockets
      PROVE  \/ /\ sock[ws] = "open"
                /\ scope[ws] = m.ch
                /\ inbox'[ws] = Append(inbox[ws], m)
             \/ inbox'[ws] = inbox[ws]
  <2>1. m.ch \in Channels
    BY <1>2 DEF Messages
  <2>2. ws \in subs[m.ch] => scope[ws] = m.ch
    BY <1>1, <2>1 DEF NoGhosts
  <2> QED
    BY <2>2 DEF Deliver
<1>7. ASSUME NEW ws \in Sockets
      PROVE  /\ inbox[ws] \in Seq(Messages)
             /\ \A k \in 1..Len(inbox[ws]) : /\ inbox[ws][k].id \in Nat
                                             /\ inbox[ws][k].id \in 1..published
                                             /\ inbox[ws][k].ch = scope[ws]
                                             /\ \A i \in 1..n : inbox[ws][k].id < bus[i].id
             /\ \A k, l \in 1..Len(inbox[ws]) : k < l => inbox[ws][k].id < inbox[ws][l].id
  BY <1>1 DEF OInv, QueueInv, InboxInOrder
<1> HIDE DEF m, n
<1>8. \A i \in 1..(n - 1) : /\ bus'[i].id \in 1..published
                            /\ bus[1].id < bus'[i].id
                            /\ \A j \in 1..(n - 1) : i < j => bus'[i].id < bus'[j].id
  <2> SUFFICES ASSUME NEW i \in 1..(n - 1)
               PROVE  /\ bus'[i].id \in 1..published
                      /\ bus[1].id < bus'[i].id
                      /\ \A j \in 1..(n - 1) : i < j => bus'[i].id < bus'[j].id
    OBVIOUS
  <2>1. i + 1 \in 1..n /\ 1 \in 1..n /\ 1 < i + 1
    BY <1>2
  <2>2. \A j \in 1..(n - 1) : i < j => j + 1 \in 1..n /\ i + 1 < j + 1 /\ bus'[j] = bus[j + 1]
    BY <1>2
  <2> QED
    BY <1>2, <1>3, <1>4, <2>1, <2>2
<1>9. ASSUME NEW ws \in Sockets
      PROVE  /\ \A k \in 1..Len(inbox'[ws]) : /\ inbox'[ws][k].id \in 1..published
                                              /\ inbox'[ws][k].ch = scope[ws]
                                              /\ \A i \in 1..(n - 1) : inbox'[ws][k].id < bus'[i].id
             /\ \A k, l \in 1..Len(inbox'[ws]) : k < l => inbox'[ws][k].id < inbox'[ws][l].id
             /\ sock[ws] \in {"none", "tcp"} => inbox'[ws] = <<>>
  <2> DEFINE L == Len(inbox[ws])
  <2>0. \A k \in 1..Len(inbox[ws]) : \A i \in 1..(n - 1) : inbox[ws][k].id < bus'[i].id
    <3> SUFFICES ASSUME NEW k \in 1..Len(inbox[ws]), NEW i \in 1..(n - 1)
                 PROVE  inbox[ws][k].id < bus'[i].id
      OBVIOUS
    <3>1. i + 1 \in 1..n /\ bus'[i] = bus[i + 1]
      BY <1>2
    <3> QED
      BY <1>7, <3>1
  <2>1. CASE inbox'[ws] = inbox[ws]
    BY <1>7, <2>0, <2>1 DEF OInv, QueueInv
  <2>2. CASE sock[ws] = "open" /\ scope[ws] = m.ch /\ inbox'[ws] = Append(inbox[ws], m)
    <3>1. /\ L \in Nat /\ Len(inbox'[ws]) = L + 1 /\ inbox'[ws][L + 1] = bus[1]
          /\ \A k \in 1..L : inbox'[ws][k] = inbox[ws][k]
      BY <1>2, <1>7, <2>2
    <3>2. \A k \in 1..L : inbox[ws][k].id < bus[1].id
      BY <1>2, <1>7
    <3>3. 1 \in 1..n
      BY <1>2
    <3>4. bus[1].ch = scope[ws]
      BY <1>2, <2>2
    <3> HIDE DEF L
    <3>5. \A k \in 1..(L + 1) : /\ inbox'[ws][k].id \in 1..published
                                /\ inbox'[ws][k].ch = scope[ws]
                                /\ \A i \in 1..(n - 1) : inbox'[ws][k].id < bus'[i].id
      <4> SUFFICES ASSUME NEW k \in 1..(L + 1)
                   PROVE  /\ inbox'[ws][k].id \in 1..published
                          /\ inbox'[ws][k].ch = scope[ws]
                          /\ \A i \in 1..(n - 1) : inbox'[ws][k].id < bus'[i].id
        OBVIOUS
      <4>1. CASE k = L + 1
        BY <1>3, <1>8, <3>1, <3>3, <3>4, <4>1
      <4>2. CASE k \in 1..L
        BY <1>7, <2>0, <3>1, <4>2 DEF L
      <4> QED
        BY <3>1, <4>1, <4>2
    <3>6. \A k, l \in 1..(L + 1) : k < l => inbox'[ws][k].id < inbox'[ws][l].id
      <4> SUFFICES ASSUME NEW k \in 1..(L + 1), NEW l \in 1..(L + 1), k < l
                   PROVE  inbox'[ws][k].id < inbox'[ws][l].id
        OBVIOUS
      <4>1. k \in 1..L /\ inbox'[ws][k] = inbox[ws][k]
        BY <3>1
      <4>2. CASE l = L + 1
        BY <3>1, <3>2, <4>1, <4>2
      <4>3. CASE l \in 1..L
        BY <1>7, <3>1, <4>1, <4>3 DEF L
      <4> QED
        BY <3>1, <4>2, <4>3
    <3> QED
      BY <2>2, <3>1, <3>5, <3>6
  <2> QED
    BY <1>6, <2>1, <2>2
<1>10. QueueInv'
  BY <1>2, <1>5, <1>8, <1>9 DEF QueueInv
<1>11. InboxInOrder'
  BY <1>5, <1>9 DEF InboxInOrder
<1> QED
  BY <1>10, <1>11 DEF OInv

LEMMA OrderStep == IInv /\ OInv /\ [Next]_vars => OInv'
<1> SUFFICES ASSUME IInv, OInv, [Next]_vars PROVE OInv'
  OBVIOUS
<1>1. /\ sock \in [Sockets -> {"none", "tcp", "open", "closing"}]
      /\ scope \in [Sockets -> Channels \union {NoScope}]
      /\ inbox \in [Sockets -> Seq(Messages)]
  BY DEF IInv, TypeOK
<1>2. CASE Deliver
  BY <1>2, DeliverKeeps
<1>3. ASSUME NEW c \in Channels, ApiPublish(c) PROVE OInv'
  BY <1>3, EnqueueKeeps DEF ApiPublish
<1>4. ASSUME NEW ws \in Sockets, Typing(ws) PROVE OInv'
  BY <1>1, <1>4, EnqueueKeeps DEF Typing, Handled
<1>5. CASE LoseBus
  <2>1. UNCHANGED <<sock, scope, inbox, published>> /\ Len(bus') = 0
    BY <1>5 DEF LoseBus
  <2> QED
    BY <2>1 DEF OInv, QueueInv, InboxInOrder
<1>6. ASSUME NEW ws \in Sockets, Closed(ws) PROVE OInv'
  <2>1. UNCHANGED <<bus, published>>
    BY <1>6 DEF Closed
  <2>2. /\ inbox'[ws] = <<>>
        /\ \A v \in Sockets : v # ws => /\ inbox'[v] = inbox[v]
                                        /\ sock'[v] = sock[v]
                                        /\ scope'[v] = scope[v]
    BY <1>1, <1>6 DEF Closed
  <2>3. QueueInv'
    BY <2>1, <2>2 DEF OInv, QueueInv
  <2>4. InboxInOrder'
    BY <2>2 DEF OInv, InboxInOrder
  <2> QED
    BY <2>3, <2>4 DEF OInv
<1>7. ASSUME NEW ws \in Sockets, NEW c \in Channels, Connect(ws, c) PROVE OInv'
  <2>1. UNCHANGED <<bus, published, inbox>> /\ inbox[ws] = <<>>
    BY <1>7 DEF Connect, traffic, OInv, QueueInv
  <2>2. \A v \in Sockets : v # ws => sock'[v] = sock[v] /\ scope'[v] = scope[v]
    BY <1>1, <1>7 DEF Connect
  <2> QED
    BY <2>1, <2>2 DEF OInv, QueueInv, InboxInOrder
<1>8. ASSUME UNCHANGED <<traffic, scope>>,
             \A ws \in Sockets : sock'[ws] \in {"none", "tcp"} => sock[ws] \in {"none", "tcp"}
      PROVE  OInv'
  BY <1>8 DEF traffic, OInv, QueueInv, InboxInOrder
<1>9. ASSUME NEW ws \in Sockets,
             \/ Accept(ws) \/ Reject(ws) \/ Abandon(ws) \/ PeerClose(ws)
             \/ Pong(ws) \/ Subscribe(ws) \/ Unsubscribe(ws) \/ Forbidden(ws)
      PROVE  OInv'
  BY <1>1, <1>8, <1>9 DEF Accept, Reject, Abandon, PeerClose, Pong, Subscribe, Unsubscribe, Forbidden
<1>10. ASSUME \/ Heartbeat \/ Shutdown \/ Stop \/ UNCHANGED vars
              \/ \E c \in Channels : LingerElapses(c) \/ LingerExpires(c)
       PROVE  OInv'
  BY <1>1, <1>8, <1>10 DEF Heartbeat, Shutdown, Stop, LingerElapses, LingerExpires, vars
<1> QED
  BY <1>2, <1>3, <1>4, <1>5, <1>6, <1>7, <1>9, <1>10 DEF Next

(* A socket gets only messages of its ticket's channel, each at most once,   *)
(* in the order of their publication.                                        *)
THEOREM DeliveryOrdered == Spec => []InboxInOrder
<1>1. Init => OInv
  BY InitOInv
<1>2. IInv /\ OInv /\ [Next]_vars => OInv'
  BY OrderStep
<1>3. OInv => InboxInOrder
  BY DEF OInv
<1> QED
  BY <1>1, <1>2, <1>3, Invariance, PTL DEF Spec
=============================================================================
