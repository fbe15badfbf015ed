------------------------------ MODULE Realtime ------------------------------
(***************************************************************************)
(* realtime/src/service.ts: the WebSocket service.  One Node process, so   *)
(* every event handler, timer callback and interval tick is one atomic     *)
(* action; what interleaves are the events.                                *)
(*                                                                         *)
(* Maps are a key set and a content.  `entries' is the key set of `subs';  *)
(* `subs[c]' is {} for an absent key.  An absent key of `wsChannels' acts  *)
(* like an empty one, so only the content is kept.  `lingerTimers' is the  *)
(* key set of the map of that name and of `lingerUntil', which is written  *)
(* with it and never read.  `armed[c]' counts the timeouts of channel c    *)
(* that Node still has to run, held in the map or not; c is in `due' when  *)
(* the last one set has waited its lingerMs (those before are due earlier).*)
(***************************************************************************)
EXTENDS Integers, Sequences

CONSTANTS Sockets,    \* WebSocket objects; a name is used again after its close event
          Channels,   \* channel ids and names, user:<id> included
          NoScope,    \* the scope of a socket without a verified ticket
          MaxPub      \* bound: messages published on Redis

ASSUME ScopeAssumption == NoScope \notin Channels
ASSUME PubAssumption == MaxPub \in Nat

VARIABLES phase,         \* "up", "draining" once shutdown() ran, "stopped" after its awaits
          sock,          \* "none", "tcp" (not upgraded yet), "open", "closing"
          scope,         \* wsAuth: the channel of the verified ticket
          late,          \* history: the sockets upgraded after shutdown() closed the others
          wsAlive,
          subs, entries, wsChannels,
          lingerTimers, armed, due,
          bus,           \* messages of the Redis channel "messages" not handled yet
          published,     \* how many messages were published: their ids
          inbox          \* inbox[ws]: what was sent to ws

maps == <<subs, entries, wsChannels>>
timers == <<lingerTimers, armed, due>>
traffic == <<bus, published, inbox>>
vars == <<phase, sock, scope, late, wsAlive, maps, timers, traffic>>

Messages == [id : 1..MaxPub, ch : Channels]

TypeOK == /\ phase \in {"up", "draining", "stopped"}
          /\ sock \in [Sockets -> {"none", "tcp", "open", "closing"}]
          /\ scope \in [Sockets -> Channels \union {NoScope}]
          /\ late \in SUBSET Sockets
          /\ wsAlive \in [Sockets -> BOOLEAN]
          /\ subs \in [Channels -> SUBSET Sockets]
          /\ entries \in SUBSET Channels
          /\ wsChannels \in [Sockets -> SUBSET Channels]
          /\ lingerTimers \in SUBSET Channels
          /\ armed \in [Channels -> Nat]
          /\ due \in SUBSET Channels
          /\ bus \in Seq(Messages)
          /\ published \in 0..MaxPub
          /\ inbox \in [Sockets -> Seq(Messages)]

Init == /\ phase = "up"
        /\ sock = [ws \in Sockets |-> "none"]
        /\ scope = [ws \in Sockets |-> NoScope]
        /\ late = {}
        /\ wsAlive = [ws \in Sockets |-> FALSE]
        /\ subs = [c \in Channels |-> {}]
        /\ entries = {}
        /\ wsChannels = [ws \in Sockets |-> {}]
        /\ lingerTimers = {}
        /\ armed = [c \in Channels |-> 0]
        /\ due = {}
        /\ bus = <<>>
        /\ published = 0
        /\ inbox = [ws \in Sockets |-> <<>>]

(* wss.clients: from the upgrade to the close event. *)
Clients == {ws \in Sockets : sock[ws] \in {"open", "closing"}}
-----------------------------------------------------------------------------
(* The helpers the handlers share. *)

(* Bug_X is X with a slip a maintainer could make; nothing below uses it. *)

(* Slip: the old timeout is forgotten, not cleared. *)
Bug_ClearTimeouts(C) == armed

(* clearTimeout of the timers the map holds for the channels C. *)
ClearTimeouts(C) ==
    [c \in Channels |-> IF c \in C \intersect lingerTimers /\ armed[c] > 0
                        THEN armed[c] - 1 ELSE armed[c]]

scheduleLinger(C) ==
    /\ armed' = [c \in Channels |-> IF c \in C THEN ClearTimeouts(C)[c] + 1
                                               ELSE armed[c]]
    /\ due' = due \ C
    /\ lingerTimers' = lingerTimers \union C

(* Slip: the pending linger is left alone. *)
Bug_addSubscription(ws, c) ==
    /\ subs' = [subs EXCEPT ![c] = @ \union {ws}]
    /\ entries' = entries \union {c}
    /\ wsChannels' = [wsChannels EXCEPT ![ws] = @ \union {c}]
    /\ UNCHANGED timers

(* Slip: a new Set every time. *)
Bug_addSubscriptionFresh(ws, c) ==
    /\ subs' = [subs EXCEPT ![c] = {ws}]
    /\ entries' = entries \union {c}
    /\ wsChannels' = [wsChannels EXCEPT ![ws] = @ \union {c}]
    /\ armed' = ClearTimeouts({c})
    /\ due' = due \ {c}
    /\ lingerTimers' = lingerTimers \ {c}

addSubscription(ws, c) ==
    /\ subs' = [subs EXCEPT ![c] = @ \union {ws}]
    /\ entries' = entries \union {c}
    /\ wsChannels' = [wsChannels EXCEPT ![ws] = @ \union {c}]
    /\ armed' = ClearTimeouts({c})
    /\ due' = due \ {c}
    /\ lingerTimers' = lingerTimers \ {c}

(* removeSubscription for every <<ws, c>> in R, one after the other: a      *)
(* channel in R whose set is empty at the end had its linger (re)scheduled. *)
Remaining(R) == [c \in Channels |-> {ws \in subs[c] : <<ws, c>> \notin R}]

(* Slip: the size is looked at before the delete. *)
Bug_Emptied(R) == {c \in entries : subs[c] = {} /\ \E ws \in Sockets : <<ws, c>> \in R}

Emptied(R) == {c \in entries : /\ Remaining(R)[c] = {}
                               /\ \E ws \in Sockets : <<ws, c>> \in R}

(* Slip: the socket's own index is not updated. *)
Bug_removeSubscriptions(R) ==
    /\ subs' = Remaining(R)
    /\ scheduleLinger(Emptied(R))
    /\ UNCHANGED <<entries, wsChannels>>

removeSubscriptions(R) ==
    /\ subs' = Remaining(R)
    /\ scheduleLinger(Emptied(R))
    /\ wsChannels' = [ws \in Sockets |-> {c \in wsChannels[ws] : <<ws, c>> \notin R}]
    /\ UNCHANGED entries

(* removeAllSubscriptions(ws) for every ws in S. *)
AllOf(S) == {p \in S \X Channels : p[2] \in wsChannels[p[1]]}

removeAllSubscriptions(S) == removeSubscriptions(AllOf(S))
-----------------------------------------------------------------------------
(* Connections. *)

(* The TCP connection is accepted, the upgrade request not handled yet. *)
Accept(ws) == /\ phase = "up"
              /\ sock[ws] = "none"
              /\ sock' = [sock EXCEPT ![ws] = "tcp"]
              /\ UNCHANGED <<phase, scope, late, wsAlive, maps, timers, traffic>>

(* wss "connection" with an allowed origin and a valid ticket for channel c. *)
(* Nothing here looks at shutdown(): a request accepted before is served.    *)
Connect(ws, c) == /\ phase # "stopped"
                  /\ sock[ws] = "tcp"
                  /\ sock' = [sock EXCEPT ![ws] = "open"]
                  /\ scope' = [scope EXCEPT ![ws] = c]
                  /\ late' = IF phase = "draining" THEN late \union {ws} ELSE late
                  /\ wsAlive' = [wsAlive EXCEPT ![ws] = TRUE]
                  /\ UNCHANGED <<phase, maps, timers, traffic>>

(* Wrong origin or ticket: close(1008) before any handler is attached. *)
Reject(ws) == /\ phase # "stopped"
              /\ sock[ws] = "tcp"
              /\ sock' = [sock EXCEPT ![ws] = "closing"]
              /\ UNCHANGED <<phase, scope, late, wsAlive, maps, timers, traffic>>

(* The peer's close frame, a reset or an error: the socket is closing. *)
PeerClose(ws) == /\ sock[ws] = "open"
                 /\ sock' = [sock EXCEPT ![ws] = "closing"]
                 /\ UNCHANGED <<phase, scope, late, wsAlive, maps, timers, traffic>>

(* Slip: only terminate() cleans up. *)
Bug_Closed(ws) == /\ sock[ws] = "closing"
                  /\ sock' = [sock EXCEPT ![ws] = "none"]
                  /\ wsAlive' = [wsAlive EXCEPT ![ws] = FALSE]
                  /\ scope' = [scope EXCEPT ![ws] = NoScope]
                  /\ late' = late \ {ws}
                  /\ inbox' = [inbox EXCEPT ![ws] = <<>>]
                  /\ UNCHANGED <<phase, maps, timers, bus, published>>

(* The "close" event.  A rejected socket has no handler, and no channels. *)
Closed(ws) == /\ sock[ws] = "closing"
              /\ sock' = [sock EXCEPT ![ws] = "none"]
              /\ removeAllSubscriptions({ws})
              /\ wsAlive' = [wsAlive EXCEPT ![ws] = FALSE]
              /\ scope' = [scope EXCEPT ![ws] = NoScope]
              /\ late' = late \ {ws}
              /\ inbox' = [inbox EXCEPT ![ws] = <<>>]
              /\ UNCHANGED <<phase, bus, published>>

(* A client that left before its upgrade was handled. *)
Abandon(ws) == /\ sock[ws] = "tcp"
               /\ sock' = [sock EXCEPT ![ws] = "none"]
               /\ UNCHANGED <<phase, scope, late, wsAlive, maps, timers, traffic>>
-----------------------------------------------------------------------------
(* Frames.  The handlers stay attached until the close event, so frames    *)
(* the peer had sent are handled while the socket is closing, too.         *)

(* Slip: the handlers are attached before the ticket is verified. *)
Bug_Handled(ws) == ws \in Clients

Handled(ws) == ws \in Clients /\ scope[ws] # NoScope

Pong(ws) == /\ Handled(ws)
            /\ wsAlive' = [wsAlive EXCEPT ![ws] = TRUE]
            /\ UNCHANGED <<phase, sock, scope, late, maps, timers, traffic>>

(* Slip: the channel of the frame, not of the ticket. *)
Bug_Subscribe(ws) == /\ Handled(ws)
                     /\ \E c \in Channels : addSubscription(ws, c)
                     /\ UNCHANGED <<phase, sock, scope, late, wsAlive, traffic>>

Subscribe(ws) == /\ Handled(ws)
                 /\ addSubscription(ws, scope[ws])
                 /\ UNCHANGED <<phase, sock, scope, late, wsAlive, traffic>>

Unsubscribe(ws) == /\ Handled(ws)
                   /\ removeSubscriptions({<<ws, scope[ws]>>})
                   /\ UNCHANGED <<phase, sock, scope, late, wsAlive, traffic>>

(* A frame that names another channel than the ticket's: close(1008). *)
Forbidden(ws) == /\ Handled(ws)
                 /\ sock' = [sock EXCEPT ![ws] = "closing"]
                 /\ UNCHANGED <<phase, scope, late, wsAlive, maps, timers, traffic>>

(* Redis PUBLISH of a message of channel c: the subscriber connection of    *)
(* this process sees the messages in the order Redis got them.              *)
Enqueue(c) == /\ published < MaxPub
              /\ published' = published + 1
              /\ bus' = Append(bus, [id |-> published', ch |-> c])

(* typing.start and typing.stop *)
Typing(ws) == /\ Handled(ws)
              /\ Enqueue(scope[ws])
              /\ UNCHANGED <<phase, sock, scope, late, wsAlive, maps, timers, inbox>>
-----------------------------------------------------------------------------
(* Redis. *)

(* The backend publishes. *)
ApiPublish(c) == /\ Enqueue(c)
                 /\ UNCHANGED <<phase, sock, scope, late, wsAlive, maps, timers, inbox>>

(* Pub/sub keeps nothing for a subscriber that lost its connection. *)
LoseBus == /\ bus # <<>>
           /\ bus' = <<>>
           /\ UNCHANGED <<phase, sock, scope, late, wsAlive, maps, timers, published, inbox>>

(* Slip: readyState is not looked at. *)
Bug_Deliver == /\ phase # "stopped"
               /\ bus # <<>>
               /\ bus' = Tail(bus)
               /\ inbox' = [ws \in Sockets |->
                              IF ws \in subs[Head(bus).ch]
                              THEN Append(inbox[ws], Head(bus)) ELSE inbox[ws]]
               /\ UNCHANGED <<phase, sock, scope, late, wsAlive, maps, timers, published>>

(* sub.on("message"): publish() to every open socket of the channel's set. *)
Deliver == /\ phase # "stopped"
           /\ bus # <<>>
           /\ bus' = Tail(bus)
           /\ inbox' = [ws \in Sockets |->
                          IF ws \in subs[Head(bus).ch] /\ sock[ws] = "open"
                          THEN Append(inbox[ws], Head(bus)) ELSE inbox[ws]]
           /\ UNCHANGED <<phase, sock, scope, late, wsAlive, maps, timers, published>>
-----------------------------------------------------------------------------
(* Timers and shutdown. *)

(* lingerMs have passed since the last scheduleLinger(c). *)
LingerElapses(c) ==
    /\ armed[c] > 0
    /\ due' = due \union {c}
    /\ UNCHANGED <<phase, sock, scope, late, wsAlive, maps, lingerTimers, armed, traffic>>

(* Slip: the callback cleans the timer maps only. *)
Bug_LingerExpires(c) ==
    /\ armed[c] > 1 \/ (armed[c] = 1 /\ c \in due)
    /\ armed' = [armed EXCEPT ![c] = @ - 1]
    /\ due' = IF armed[c] = 1 THEN due \ {c} ELSE due
    /\ lingerTimers' = lingerTimers \ {c}
    /\ UNCHANGED <<phase, sock, scope, late, wsAlive, maps, traffic>>

(* The callback of a linger timeout of channel c runs. *)
LingerExpires(c) ==
    /\ armed[c] > 1 \/ (armed[c] = 1 /\ c \in due)
    /\ armed' = [armed EXCEPT ![c] = @ - 1]
    /\ due' = IF armed[c] = 1 THEN due \ {c} ELSE due
    /\ lingerTimers' = lingerTimers \ {c}
    /\ entries' = IF subs[c] = {} THEN entries \ {c} ELSE entries
    /\ UNCHANGED <<phase, sock, scope, late, wsAlive, subs, wsChannels, traffic>>

(* Slip: wsAlive is not reset with the ping. *)
Bug_Heartbeat ==
    LET Dead == {ws \in Clients : ~wsAlive[ws]} IN
    /\ phase = "up"
    /\ Clients # {}
    /\ removeAllSubscriptions(Dead)
    /\ sock' = [ws \in Sockets |-> IF ws \in Dead THEN "closing" ELSE sock[ws]]
    /\ UNCHANGED <<phase, scope, late, wsAlive, traffic>>

(* One tick of the heartbeat interval, over all of wss.clients. *)
Heartbeat ==
    LET Dead == {ws \in Clients : ~wsAlive[ws]} IN
    /\ phase = "up"
    /\ Clients # {}
    /\ removeAllSubscriptions(Dead)
    /\ sock' = [ws \in Sockets |-> IF ws \in Dead THEN "closing" ELSE sock[ws]]
    /\ wsAlive' = [ws \in Sockets |-> IF ws \in Clients THEN FALSE ELSE wsAlive[ws]]
    /\ UNCHANGED <<phase, scope, late, traffic>>

(* Slip: the clients are not closed. *)
Bug_Shutdown == /\ phase = "up"
                /\ phase' = "draining"
                /\ armed' = ClearTimeouts(Channels)
                /\ due' = {}
                /\ lingerTimers' = {}
                /\ UNCHANGED <<sock, scope, late, wsAlive, maps, traffic>>

(* shutdown() up to its first await. *)
Shutdown == /\ phase = "up"
            /\ phase' = "draining"
            /\ armed' = ClearTimeouts(Channels)
            /\ due' = {}
            /\ lingerTimers' = {}
            /\ sock' = [ws \in Sockets |-> IF sock[ws] = "open" THEN "closing" ELSE sock[ws]]
            /\ UNCHANGED <<scope, late, wsAlive, maps, traffic>>

(* server.close() calls back when the last connection is gone. *)
Stop == /\ phase = "draining"
        /\ \A ws \in Sockets : sock[ws] = "none"
        /\ phase' = "stopped"
        /\ UNCHANGED <<sock, scope, late, wsAlive, maps, timers, traffic>>

Next == \/ \E ws \in Sockets :
             \/ Accept(ws) \/ Reject(ws) \/ Abandon(ws) \/ PeerClose(ws) \/ Closed(ws)
             \/ Pong(ws) \/ Subscribe(ws) \/ Unsubscribe(ws) \/ Forbidden(ws) \/ Typing(ws)
        \/ \E ws \in Sockets, c \in Channels : Connect(ws, c)
        \/ \E c \in Channels : ApiPublish(c) \/ LingerElapses(c) \/ LingerExpires(c)
        \/ LoseBus \/ Deliver \/ Heartbeat \/ Shutdown \/ Stop

Spec == Init /\ [][Next]_vars

(***************************************************************************)
(* Fairness.  Node runs every due timer and interval tick; `ws' destroys a *)
(* closing socket after its own timeout, so the close event comes; Redis   *)
(* hands over what it queued.  Peers are free to stop at any time.         *)
(***************************************************************************)
Fairness == /\ WF_vars(Heartbeat)
            /\ WF_vars(Deliver)
            /\ WF_vars(Stop)
            /\ \A c \in Channels : WF_vars(LingerElapses(c)) /\ WF_vars(LingerExpires(c))
            /\ \A ws \in Sockets : WF_vars(Closed(ws))

FairSpec == Spec /\ Fairness
-----------------------------------------------------------------------------
(* Safety. *)

(* The two indexes describe one relation: a socket is in a channel's set    *)
(* exactly when the channel is in the socket's set.  removeAllSubscriptions *)
(* walks one index to clean the other.                                      *)
IndexesAgree == \A ws \in Sockets, c \in Channels :
                   ws \in subs[c] <=> c \in wsChannels[ws]

(* Every armed timeout of a channel is the one lingerTimers holds: none was *)
(* replaced or dropped without clearTimeout, so none can run unexpectedly.  *)
TimersHeld == \A c \in Channels :
                 armed[c] = IF c \in lingerTimers THEN 1 ELSE 0

(* A pending linger timer belongs to a channel that exists and is empty.    *)
LingerOnlyEmpty == \A c \in lingerTimers : c \in entries /\ subs[c] = {}

(* No entry leaks: while the service is up, an entry without subscribers    *)
(* has a timeout armed that will delete it.                                 *)
EmptyEntryTimed == phase = "up" =>
                     \A c \in entries : subs[c] = {} => armed[c] > 0

(* A socket that is gone, or not upgraded yet, is in no channel's set, and  *)
(* every set belongs to an entry of the map.                                *)
NoGhosts == \A c \in Channels :
               /\ \A ws \in subs[c] : sock[ws] \in {"open", "closing"} /\ scope[ws] = c
               /\ subs[c] # {} => c \in entries

(* The subscriptions are one relation, of sockets that exist. *)
Subscriptions == IndexesAgree /\ NoGhosts

(* The linger timers are exactly those of the empty channels, none is       *)
(* forgotten and none can fire unexpectedly.                                *)
Lingers == TimersHeld /\ LingerOnlyEmpty /\ EmptyEntryTimed

(* A socket is only ever sent messages of the channel its ticket names, in  *)
(* the order they were published, and none twice.                           *)
InboxInOrder == \A ws \in Sockets :
                   /\ \A i \in DOMAIN inbox[ws] : inbox[ws][i].ch = scope[ws]
                   /\ \A i, j \in DOMAIN inbox[ws] :
                         i < j => inbox[ws][i].id < inbox[ws][j].id

(* The linger callback never takes the entry of a channel some socket is    *)
(* subscribed to.                                                           *)
EntryOutlivesSubscribers ==
    [][\A c \in entries \ entries' : \A ws \in Sockets : c \notin wsChannels[ws]]_vars

(* The service implements Fanout. *)
F == INSTANCE Fanout WITH member <- wsChannels,
                          open <- {ws \in Sockets : sock[ws] = "open"}

ImplementsFanout == F!Spec
-----------------------------------------------------------------------------
(* Liveness. *)

(* A client that stops answering pings does not stay connected: the second  *)
(* heartbeat after its last pong terminates it.                             *)
SilentClientDropped ==
    \A ws \in Sockets :
       <>[][~Pong(ws)]_vars =>
          ((sock[ws] = "open" /\ phase = "up") ~> sock[ws] # "open")

(* An empty channel is forgotten or used again, unless some client keeps    *)
(* sending unsubscribe frames, each of which starts the linger time anew.   *)
Rearm(c) == c \in due /\ c \in lingerTimers /\ \E ws \in Sockets : Unsubscribe(ws) /\ scope[ws] = c

EmptyChannelForgotten ==
    \A c \in Channels :
       <>[][~Rearm(c)]_vars =>
          ((c \in entries /\ subs[c] = {} /\ phase = "up")
             ~> (c \notin entries \/ subs[c] # {} \/ phase # "up"))

(* shutdown() closes every client it finds and ends, unless a request that   *)
(* was waiting at that moment stays, or was upgraded after: nothing closes   *)
(* that socket, and server.close() waits for it.                             *)
ShutdownEnds ==
    phase = "draining" ~> \/ phase = "stopped"
                          \/ late # {}
                          \/ \E ws \in Sockets : sock[ws] = "tcp"
=============================================================================
