---------------------------- MODULE RustRealtime ----------------------------
(***************************************************************************)
(* rust-backend/realtime/src/main.rs: the WebSocket service of the Rust    *)
(* port.  Every client has a task of its own, beside the task that reads   *)
(* Redis, on many threads; each lock is taken for one statement or block,  *)
(* so a step is a block under one lock and tasks interleave between them.  *)
(*                                                                         *)
(* An entry of the map `channels' is never empty: [c] = {} is an absent    *)
(* one.  Deadlines of `linger_until' are left out: socket_info compares    *)
(* them, and nothing takes an entry away when they pass.                   *)
(***************************************************************************)
EXTENDS Integers, Sequences

CONSTANTS Sockets,   \* clients; a name is used again, the service's ids are not
          Channels,
          NoChannel, \* what a task that waits for a frame is at
          MaxPub     \* bound: messages published on Redis

ASSUME PubAssumption == MaxPub \in Nat
ASSUME ChannelAssumption == NoChannel \notin Channels

VARIABLES clients,      \* the ids with a ClientHandle
          handle,       \* handle[ws]: its channels
          channels,     \* the other index
          linger_until,
          task,         \* task[ws]: the block the client's task takes next
          listener,     \* the task of spawn_redis_listener
          redis_ready,
          bus, published,
          sending,      \* the message being published, and the ids still to send to
          inbox,        \* inbox[ws]: the messages put on the queue of its handle
          left          \* history: the channels somebody unsubscribed from

redis == <<listener, redis_ready, bus, published>>
out == <<sending, inbox>>
index == <<clients, handle, channels, linger_until, left>>
vars == <<index, task, redis, out>>

Messages == [id : 1..MaxPub, ch : Channels]
Nothing == [msg |-> [id |-> 0], to |-> {}]

(* The blocks of add_subscription, remove_subscription and cleanup_client; *)
(* `rest' are the channels a cleanup still has to remove.                  *)
Adds == {"add client", "add linger", "subscribed"}
Removes == {"remove client", "remove last", "remove linger", "unsubscribed"}
Tasks == [next : {"none", "read", "cleanup"} \union Adds \union Removes,
          ch : Channels \union {NoChannel}, rest : SUBSET Channels]

On(next, c, rest) == [next |-> next, ch |-> c, rest |-> rest]
At(next) == On(next, NoChannel, {})
Cleaning(rest) == On("cleanup", NoChannel, rest)

Reading(ws) == task[ws] = At("read")

TypeOK == /\ clients \in SUBSET Sockets
          /\ handle \in [Sockets -> SUBSET Channels]
          /\ channels \in [Channels -> SUBSET Sockets]
          /\ linger_until \in SUBSET Channels
          /\ task \in [Sockets -> Tasks]
          /\ listener \in {"connecting", "subscribing", "reading"}
          /\ redis_ready \in BOOLEAN
          /\ bus \in Seq(Messages)
          /\ published \in 0..MaxPub
          /\ sending \in [msg : Messages, to : (SUBSET Sockets) \ {{}}] \union {Nothing}
          /\ inbox \in [Sockets -> Seq(Messages)]
          /\ left \in SUBSET Channels

Init == /\ clients = {}
        /\ handle = [ws \in Sockets |-> {}]
        /\ channels = [c \in Channels |-> {}]
        /\ linger_until = {}
        /\ task = [ws \in Sockets |-> At("none")]
        /\ listener = "connecting"
        /\ redis_ready = FALSE
        /\ bus = <<>>
        /\ published = 0
        /\ sending = Nothing
        /\ inbox = [ws \in Sockets |-> <<>>]
        /\ left = {}
-----------------------------------------------------------------------------
(* A client's task. *)

handle_socket(ws) ==
    /\ task[ws] = At("none")
    /\ clients' = clients \union {ws}
    /\ task' = [task EXCEPT ![ws] = At("read")]
    /\ UNCHANGED <<handle, channels, linger_until, left, redis, out>>

(* Frame "subscribe"; any channel will do, no ticket is asked for. *)
add_subscription(ws, c) ==
    /\ Reading(ws)
    /\ channels' = [channels EXCEPT ![c] = @ \union {ws}]
    /\ task' = [task EXCEPT ![ws] = On("add client", c, {})]
    /\ UNCHANGED <<clients, handle, linger_until, left, redis, out>>

add_client(ws) ==
    /\ task[ws].next = "add client"
    /\ handle' = [handle EXCEPT ![ws] = @ \union {task[ws].ch}]
    /\ task' = [task EXCEPT ![ws].next = "add linger"]
    /\ UNCHANGED <<clients, channels, linger_until, left, redis, out>>

add_linger(ws) ==
    /\ task[ws].next = "add linger"
    /\ linger_until' = linger_until \ {task[ws].ch}
    /\ task' = [task EXCEPT ![ws].next = "subscribed"]
    /\ UNCHANGED <<clients, handle, channels, left, redis, out>>

(* send_to_client of the answer: not a message of a channel. *)
send_answer(ws) ==
    /\ task[ws].next \in {"subscribed", "unsubscribed"}
    /\ task' = [task EXCEPT ![ws] = At("read")]
    /\ UNCHANGED <<index, redis, out>>

(* Where remove_subscription goes when it is through with a channel. *)
AfterRemove(ws) == LET t == task[ws] IN
                   IF ws \in clients THEN On("unsubscribed", t.ch, {})
                   ELSE Cleaning(t.rest)

(* Slip: the channel goes with its first subscriber. *)
Bug_remove_channel(ws, c, rest) ==
    /\ channels' = [channels EXCEPT ![c] = {}]
    /\ task' = [task EXCEPT ![ws] = On("remove last", c, rest)]
    /\ left' = left \union {c}
    /\ UNCHANGED <<clients, handle, linger_until, redis, out>>

(* remove_subscription, its block under the lock of channels: an absent     *)
(* entry leaves should_linger, the mark of the last one, false.             *)
remove_channel(ws, c, rest) ==
    /\ channels' = [channels EXCEPT ![c] = @ \ {ws}]
    /\ task' = [task EXCEPT ![ws] = On(IF channels[c] # {} /\ channels[c] \subseteq {ws}
                                       THEN "remove last" ELSE "remove client", c, rest)]
    /\ left' = IF channels[c] # {} THEN left \union {c} ELSE left
    /\ UNCHANGED <<clients, handle, linger_until, redis, out>>

(* Frame "unsubscribe". *)
remove_subscription(ws, c) == Reading(ws) /\ remove_channel(ws, c, {})

(* Slip: a client without a handle is taken for one that has nothing left to do. *)
Bug_remove_client(ws) ==
    /\ task[ws].next \in {"remove client", "remove last"}
    /\ handle' = IF ws \in clients THEN [handle EXCEPT ![ws] = @ \ {task[ws].ch}] ELSE handle
    /\ task' = [task EXCEPT ![ws] = IF task[ws].next = "remove last" /\ ws \in clients
                                    THEN On("remove linger", task[ws].ch, task[ws].rest)
                                    ELSE AfterRemove(ws)]
    /\ UNCHANGED <<clients, channels, linger_until, left, redis, out>>

remove_client(ws) ==
    /\ task[ws].next \in {"remove client", "remove last"}
    /\ handle' = IF ws \in clients THEN [handle EXCEPT ![ws] = @ \ {task[ws].ch}] ELSE handle
    /\ task' = [task EXCEPT ![ws] = IF task[ws].next = "remove last"
                                    THEN On("remove linger", task[ws].ch, task[ws].rest)
                                    ELSE AfterRemove(ws)]
    /\ UNCHANGED <<clients, channels, linger_until, left, redis, out>>

remove_linger(ws) ==
    /\ task[ws].next = "remove linger"
    /\ linger_until' = linger_until \union {task[ws].ch}
    /\ task' = [task EXCEPT ![ws] = AfterRemove(ws)]
    /\ UNCHANGED <<clients, handle, channels, left, redis, out>>

(* Slip: the channels are not kept. *)
Bug_cleanup_client(ws) ==
    /\ Reading(ws)
    /\ clients' = clients \ {ws}
    /\ handle' = [handle EXCEPT ![ws] = {}]
    /\ inbox' = [inbox EXCEPT ![ws] = <<>>]
    /\ task' = [task EXCEPT ![ws] = Cleaning({})]
    /\ UNCHANGED <<channels, linger_until, left, redis, sending>>

(* The stream of frames ends: the handle goes, and its queue with it ... *)
cleanup_client(ws) ==
    /\ Reading(ws)
    /\ clients' = clients \ {ws}
    /\ handle' = [handle EXCEPT ![ws] = {}]
    /\ inbox' = [inbox EXCEPT ![ws] = <<>>]
    /\ task' = [task EXCEPT ![ws] = Cleaning(handle[ws])]
    /\ UNCHANGED <<channels, linger_until, left, redis, sending>>

(* ... then its channels, one by one. *)
cleanup_channel(ws) ==
    /\ task[ws].next = "cleanup"
    /\ \E c \in task[ws].rest : remove_channel(ws, c, task[ws].rest \ {c})

cleanup_end(ws) ==
    /\ task[ws] = Cleaning({})
    /\ ws \notin sending.to       \* the name, not the id, is used again
    /\ task' = [task EXCEPT ![ws] = At("none")]
    /\ UNCHANGED <<index, redis, out>>
-----------------------------------------------------------------------------
(* Redis. *)

(* PUBLISH: without a subscriber the message is gone. *)
Enqueue(c) ==
    /\ published < MaxPub
    /\ published' = published + 1
    /\ bus' = IF listener = "reading" THEN Append(bus, [id |-> published', ch |-> c]) ELSE bus

(* typing.start and typing.stop, of any channel, or the API's publish. *)
publish_typing(ws, c) == /\ Reading(ws)
                         /\ Enqueue(c)
                         /\ UNCHANGED <<index, task, listener, redis_ready, out>>

ApiPublish(c) == Enqueue(c) /\ UNCHANGED <<index, task, listener, redis_ready, out>>

(* spawn_redis_listener: `ready' is set before the subscription is made. *)
listener_connect ==
    /\ listener = "connecting"
    /\ \/ redis_ready' = TRUE /\ listener' = "subscribing"
       \/ redis_ready' = FALSE /\ UNCHANGED listener
    /\ UNCHANGED <<index, task, bus, published, out>>

listener_subscribe ==
    /\ listener = "subscribing"
    /\ \/ listener' = "reading" /\ UNCHANGED redis_ready
       \/ listener' = "connecting" /\ redis_ready' = FALSE
    /\ UNCHANGED <<index, task, bus, published, out>>

(* The stream of messages ends, with what was on its way. *)
listener_lost ==
    /\ listener = "reading"
    /\ sending = Nothing
    /\ listener' = "connecting"
    /\ bus' = <<>>
    /\ UNCHANGED <<index, task, redis_ready, published, out>>

(* Slip: the ids are looked for in the handles. *)
Bug_publish_to_channel ==
    /\ listener = "reading"
    /\ sending = Nothing
    /\ bus # <<>>
    /\ bus' = Tail(bus)
    /\ sending' = LET to == {ws \in Sockets : Head(bus).ch \in handle[ws]} IN
                  IF to = {} THEN Nothing ELSE [msg |-> Head(bus), to |-> to]
    /\ UNCHANGED <<index, task, listener, redis_ready, published, inbox>>

(* A message, and the ids of its channel at this moment. *)
publish_to_channel ==
    /\ listener = "reading"
    /\ sending = Nothing
    /\ bus # <<>>
    /\ bus' = Tail(bus)
    /\ sending' = LET to == channels[Head(bus).ch] IN
                  IF to = {} THEN Nothing ELSE [msg |-> Head(bus), to |-> to]
    /\ UNCHANGED <<index, task, listener, redis_ready, published, inbox>>

(* One of them: whoever has unsubscribed by now is sent it all the same. *)
send_to_client(ws) ==
    /\ ws \in sending.to
    /\ inbox' = IF ws \in clients THEN [inbox EXCEPT ![ws] = Append(@, sending.msg)] ELSE inbox
    /\ sending' = IF sending.to = {ws} THEN Nothing ELSE [sending EXCEPT !.to = @ \ {ws}]
    /\ UNCHANGED <<index, task, redis>>

Next == \/ \E ws \in Sockets, c \in Channels :
             add_subscription(ws, c) \/ remove_subscription(ws, c) \/ publish_typing(ws, c)
        \/ \E ws \in Sockets :
             \/ handle_socket(ws) \/ add_client(ws) \/ add_linger(ws) \/ send_answer(ws)
             \/ remove_client(ws) \/ remove_linger(ws)
             \/ cleanup_client(ws) \/ cleanup_channel(ws) \/ cleanup_end(ws)
             \/ send_to_client(ws)
        \/ \E c \in Channels : ApiPublish(c)
        \/ listener_connect \/ listener_subscribe \/ listener_lost \/ publish_to_channel

Spec == Init /\ [][Next]_vars
-----------------------------------------------------------------------------
(* The two indexes differ only in the channel the client's own task is at,  *)
(* and no id stays in a channel whose client is gone.                       *)
IndexesSettle ==
    \A ws \in Sockets, c \in Channels :
       /\ Reading(ws) \/ task[ws].next \in {"subscribed", "unsubscribed", "none"}
             => (ws \in channels[c] <=> c \in handle[ws])
       /\ ws \in channels[c] => ws \in clients \/ c \in task[ws].rest

(* A channel its last subscriber left is in linger_until, or about to be:   *)
(* no subscription that is still under way takes the entry away after the   *)
(* last subscriber put it there.                                            *)
LeftRemembered ==
    \A c \in left : \/ c \in linger_until
                    \/ channels[c] # {}
                    \/ \E ws \in Sockets : /\ task[ws].next \in {"remove last", "remove linger"}
                                           /\ task[ws].ch = c

(* Both, for no block of any task undoes what another's relies on. *)
IndexesHold == IndexesSettle /\ LeftRemembered

(* For all interleavings of the blocks, the service implements Fanout: a    *)
(* message goes to the clients that are in its channel when the listener    *)
(* looks, once, and in the order of Redis.  A client is sent the message    *)
(* from then on, although its queue has it only later.                      *)
Member == [ws \in Sockets |-> {c \in Channels : ws \in channels[c]}]
Sent == [ws \in Sockets |-> IF ws \in clients /\ ws \in sending.to
                            THEN Append(inbox[ws], sending.msg) ELSE inbox[ws]]

F == INSTANCE Fanout WITH member <- Member, open <- clients, inbox <- Sent

ImplementsFanout == F!Spec
=============================================================================
