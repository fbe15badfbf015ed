----------------------------- MODULE PartsProofs -----------------------------
(***************************************************************************)
(* Proofs about the parts of the system that share no state: first about   *)
(* the Rust port's WebSocket service, for any clients and channels and any *)
(* number of messages; then about the stored objects, the notifications,   *)
(* channel access, roles, accounts, a tab's session, the API client's      *)
(* requests and the migration; last about all of them side by side.        *)
(***************************************************************************)
EXTENDS Parts, TLAPS

(***************************************************************************)
(* The argument: only a client's own task touches the client's places in   *)
(* the two indexes, so how they differ is read off the task's next block.  *)
(***************************************************************************)

(* Where the task of client ws is, and whether the client is registered.    *)
Place(ws) ==
    LET n == task[ws].next IN
    /\ n \in {"read", "unsubscribed"} \union Adds => ws \in clients
    /\ n \in {"none", "cleanup"} => ws \notin clients
    /\ n = "none" => ws \notin sending.to /\ task[ws].rest = {}
    /\ n \in Adds \union Removes => task[ws].ch \in Channels
    /\ ws \notin clients => handle[ws] = {}

(* How the indexes differ for client ws. *)
Gone(ws) == ws \notin clients => \A c \in Channels : ws \in channels[c] => c \in task[ws].rest

Added(ws) == \A c \in Channels :
                task[ws].next \in {"add client", "add linger"} /\ task[ws].ch = c
                   => ws \in channels[c]

Removed(ws) == \A c \in Channels :
                  task[ws].next \in {"remove client", "remove last"} /\ task[ws].ch = c
                     => ws \notin channels[c]

Agree(ws) == ws \in clients =>
               \A c \in Channels :
                  \/ ws \in channels[c] <=> c \in handle[ws]
                  \/ /\ task[ws].next \in {"add client", "remove client", "remove last"}
                     /\ task[ws].ch = c

Differ(ws) == Gone(ws) /\ Added(ws) /\ Removed(ws) /\ Agree(ws)

IInv == /\ TypeOK
        /\ \A ws \in Sockets : Place(ws) /\ Differ(ws)
        /\ LeftRemembered

(* What a block's record is made of. *)
LEMMA Block ==
    ASSUME NEW n \in {"none", "read", "cleanup"} \union Adds \union Removes,
           NEW c \in Channels \union {NoChannel}, NEW rest \in SUBSET Channels
    PROVE  /\ On(n, c, rest) \in Tasks
           /\ On(n, c, rest).next = n
           /\ On(n, c, rest).ch = c
           /\ On(n, c, rest).rest = rest
  BY DEF On, Tasks

LEMMA Simple ==
    \A n \in {"none", "read"} :
       At(n) \in Tasks /\ At(n).next = n /\ At(n).rest = {} /\ At(n).ch = NoChannel
  BY Block DEF At

LEMMA InitIInv == Init => IInv
<1> SUFFICES ASSUME Init PROVE IInv
  OBVIOUS
<1>1. At("none") \in Tasks /\ At("none").next = "none" /\ At("none").rest = {}
  BY Simple
<1>2. TypeOK
  <2>1. /\ clients \in SUBSET Sockets
        /\ handle \in [Sockets -> SUBSET Channels]
        /\ channels \in [Channels -> SUBSET Sockets]
        /\ linger_until \in SUBSET Channels
        /\ left \in SUBSET Channels
    BY DEF Init
  <2>2. task \in [Sockets -> Tasks]
    BY <1>1 DEF Init
  <2>3. /\ listener \in {"connecting", "subscribing", "reading"}
        /\ published \in 0..MaxPub
    BY PubAssumption DEF Init
  <2>6. redis_ready \in BOOLEAN
    BY Zenon DEF Init
  <2>5. bus \in Seq(Messages) /\ inbox \in [Sockets -> Seq(Messages)]
    BY DEF Init
  <2>4. sending \in [msg : Messages, to : (SUBSET Sockets) \ {{}}] \union {Nothing}
    BY DEF Init
  <2> QED
    BY <2>1, <2>2, <2>3, <2>4, <2>5, <2>6 DEF TypeOK
<1>3. ASSUME NEW ws \in Sockets PROVE Place(ws) /\ Differ(ws)
  <2>1. task[ws] = At("none") /\ clients = {} /\ handle[ws] = {} /\ sending.to = {}
    BY DEF Init, Nothing
  <2>2. \A c \in Channels : channels[c] = {}
    BY DEF Init
  <2> QED
    BY <1>1, <2>1, <2>2 DEF Place, Differ, Gone, Added, Removed, Agree, Adds, Removes
<1>4. LeftRemembered
  BY DEF Init, LeftRemembered
<1> QED
  BY <1>2, <1>3, <1>4 DEF IInv

(* A step of the task of ws leaves the other clients' places alone.         *)
Own(ws) == /\ \A v \in Sockets \ {ws} : /\ task'[v] = task[v]
                                        /\ handle'[v] = handle[v]
                                        /\ v \in clients' <=> v \in clients
                                        /\ \A c \in Channels : v \in channels'[c] <=> v \in channels[c]
           /\ sending' = sending

LEMMA OthersKeep == ASSUME IInv, NEW ws \in Sockets, Own(ws), NEW v \in Sockets, v # ws
                    PROVE  Place(v)' /\ Differ(v)'
<1>1. /\ task'[v] = task[v]
      /\ handle'[v] = handle[v]
      /\ v \in clients' <=> v \in clients
      /\ \A c \in Channels : v \in channels'[c] <=> v \in channels[c]
      /\ sending' = sending
  BY DEF Own
<1>2. Place(v) /\ Differ(v)
  BY DEF IInv
<1>3. Place(v)'
  BY <1>1, <1>2 DEF Place
<1>4. Differ(v)'
  BY <1>1, <1>2 DEF Differ, Gone, Added, Removed, Agree
<1> QED
  BY <1>3, <1>4

(* What assigning a client's next block does. *)
LEMMA Assign ==
    ASSUME TypeOK, NEW ws \in Sockets, NEW t \in Tasks, task' = [task EXCEPT ![ws] = t]
    PROVE  /\ task' \in [Sockets -> Tasks]
           /\ task'[ws] = t
           /\ \A v \in Sockets \ {ws} : task'[v] = task[v]
  BY DEF TypeOK

(* A step after which the channels, the left and the linger entries are as  *)
(* before, and that is not the task of a last client finishing its linger.  *)
LEMMA LeftKeeps ==
    ASSUME IInv, NEW ws \in Sockets, UNCHANGED <<channels, left, linger_until>>,
           \A v \in Sockets \ {ws} : task'[v] = task[v],
           task[ws].next \in {"remove last", "remove linger"} =>
              /\ task'[ws].next \in {"remove last", "remove linger"}
              /\ task'[ws].ch = task[ws].ch
    PROVE  LeftRemembered'
  BY DEF IInv, LeftRemembered

LEMMA SocketKeeps == ASSUME IInv, NEW ws \in Sockets, handle_socket(ws) PROVE IInv'
<1>0. PICK t \in Tasks : t = At("read") /\ t.next = "read"
  BY Simple
<1>1. task[ws].next = "none" /\ task[ws].rest = {}
  BY Simple DEF handle_socket
<1>2. /\ task' = [task EXCEPT ![ws] = t]
      /\ clients' = clients \union {ws}
      /\ UNCHANGED <<handle, channels, linger_until, left, redis, out>>
  BY <1>0 DEF handle_socket
<1>3. TypeOK
  BY DEF IInv
<1>4. /\ task' \in [Sockets -> Tasks]
      /\ task'[ws] = t
      /\ \A v \in Sockets \ {ws} : task'[v] = task[v]
  BY <1>2, <1>3, Assign
<1>5. TypeOK'
  BY <1>2, <1>3, <1>4 DEF TypeOK, redis, out
<1>6. Own(ws)
  BY <1>2, <1>4 DEF Own, out
<1>7. Place(ws)' /\ Differ(ws)'
  <2>1. Place(ws) /\ Differ(ws)
    BY DEF IInv
  <2>2. ws \notin clients /\ handle[ws] = {}
    BY <1>1, <2>1 DEF Place
  <2>3. \A c \in Channels : ws \notin channels[c]
    BY <1>1, <2>1, <2>2 DEF Differ, Gone
  <2> QED
    BY <1>0, <1>2, <1>4, <2>2, <2>3 DEF Place, Differ, Gone, Added, Removed, Agree, Adds, Removes
<1>8. LeftRemembered'
  BY <1>1, <1>2, <1>4, LeftKeeps
<1> QED
  BY <1>5, <1>6, <1>7, <1>8, OthersKeep DEF IInv

LEMMA AddKeeps == ASSUME IInv, NEW ws \in Sockets, NEW c \in Channels, add_subscription(ws, c)
                  PROVE  IInv'
<1>y. "add client" \in {"none", "read", "cleanup"} \union Adds \union Removes
  BY DEF Adds
<1>z. /\ On("add client", c, {}) \in Tasks
      /\ On("add client", c, {}).next = "add client"
      /\ On("add client", c, {}).ch = c
  BY <1>y DEF On, Tasks
<1>0. PICK t \in Tasks : t = On("add client", c, {}) /\ t.next = "add client" /\ t.ch = c
  BY <1>z
<1>1. task[ws].next = "read"
  BY Simple DEF add_subscription, Reading
<1>2. /\ task' = [task EXCEPT ![ws] = t]
      /\ channels' = [channels EXCEPT ![c] = @ \union {ws}]
      /\ UNCHANGED <<clients, handle, linger_until, left, redis, out>>
  BY <1>0 DEF add_subscription
<1>3. TypeOK
  BY DEF IInv
<1>4. /\ task' \in [Sockets -> Tasks]
      /\ task'[ws] = t
      /\ \A v \in Sockets \ {ws} : task'[v] = task[v]
  BY <1>2, <1>3, Assign
<1>5. TypeOK'
  BY <1>2, <1>3, <1>4 DEF TypeOK, redis, out
<1>6. \A d \in Channels : channels'[d] = IF d = c THEN channels[d] \union {ws} ELSE channels[d]
  BY <1>2, <1>3 DEF TypeOK
<1>7. Own(ws)
  BY <1>2, <1>4, <1>6 DEF Own, out
<1>8. Place(ws)' /\ Differ(ws)'
  <2>1. Place(ws) /\ Differ(ws)
    BY DEF IInv
  <2>2. ws \in clients
    BY <1>1, <2>1 DEF Place
  <2>3. /\ ws \in clients' /\ handle' = handle /\ task'[ws].next = "add client"
        /\ task'[ws].ch = c
    BY <1>0, <1>2, <1>4, <2>2
  <2>4. Place(ws)'
    BY <1>0, <2>3 DEF Place
  <2>5. Gone(ws)' /\ Added(ws)' /\ Removed(ws)'
    BY <1>6, <2>3 DEF Gone, Added, Removed
  <2>6. Agree(ws)'
    BY <1>1, <1>6, <2>1, <2>2, <2>3 DEF Differ, Agree
  <2> QED
    BY <2>4, <2>5, <2>6 DEF Differ
<1>9. LeftRemembered'
  <2> SUFFICES ASSUME NEW d \in left, d # c, channels'[d] = {}, d \notin linger_until
               PROVE  \E v \in Sockets : /\ task'[v].next \in {"remove last", "remove linger"}
                                         /\ task'[v].ch = d
    BY <1>2, <1>3, <1>6 DEF LeftRemembered, TypeOK
  <2>1. channels[d] = {}
    BY <1>3, <1>6 DEF TypeOK
  <2>2. PICK v \in Sockets : task[v].next \in {"remove last", "remove linger"} /\ task[v].ch = d
    BY <2>1 DEF IInv, LeftRemembered
  <2> QED
    BY <1>1, <1>4, <2>2
<1> QED
  BY <1>5, <1>7, <1>8, <1>9, OthersKeep DEF IInv

(* The blocks that leave the index `channels' alone. *)
LEMMA AddClientKeeps == ASSUME IInv, NEW ws \in Sockets, add_client(ws) PROVE IInv'
<1>3. TypeOK
  BY DEF IInv
<1>a. Place(ws) /\ Differ(ws)
  BY DEF IInv
<1>0. PICK t \in Tasks : t = [task[ws] EXCEPT !.next = "add linger"]
  BY <1>3 DEF TypeOK, Tasks, Adds
<1>1. task[ws].next = "add client" /\ task[ws].ch \in Channels /\ ws \in clients
  BY <1>a DEF add_client, Place, Adds
<1>b. t.next = "add linger" /\ t.ch = task[ws].ch /\ t.rest = task[ws].rest
  BY <1>0, <1>3 DEF TypeOK, Tasks
<1>2. /\ task' = [task EXCEPT ![ws] = t]
      /\ handle' = [handle EXCEPT ![ws] = @ \union {task[ws].ch}]
      /\ UNCHANGED <<clients, channels, linger_until, left, redis, out>>
  BY <1>0 DEF add_client
<1>4. /\ task' \in [Sockets -> Tasks]
      /\ task'[ws] = t
      /\ \A v \in Sockets \ {ws} : task'[v] = task[v]
  BY <1>2, <1>3, Assign
<1>5. TypeOK'
  BY <1>1, <1>2, <1>3, <1>4 DEF TypeOK, redis, out
<1>6. handle'[ws] = handle[ws] \union {task[ws].ch} /\ \A v \in Sockets \ {ws} : handle'[v] = handle[v]
  BY <1>2, <1>3 DEF TypeOK
<1>7. Own(ws)
  BY <1>2, <1>4, <1>6 DEF Own, out
<1>8. Place(ws)' /\ Differ(ws)'
  BY <1>a, <1>b, <1>1, <1>2, <1>4, <1>6
     DEF Place, Differ, Gone, Added, Removed, Agree, Adds, Removes
<1>9. LeftRemembered'
  BY <1>1, <1>2, <1>4, LeftKeeps
<1> QED
  BY <1>5, <1>7, <1>8, <1>9, OthersKeep DEF IInv

LEMMA AddLingerKeeps == ASSUME IInv, NEW ws \in Sockets, add_linger(ws) PROVE IInv'
<1>3. TypeOK
  BY DEF IInv
<1>a. Place(ws) /\ Differ(ws)
  BY DEF IInv
<1>0. PICK t \in Tasks : t = [task[ws] EXCEPT !.next = "subscribed"]
  BY <1>3 DEF TypeOK, Tasks, Adds
<1>1. task[ws].next = "add linger" /\ task[ws].ch \in Channels /\ ws \in clients
  BY <1>a DEF add_linger, Place, Adds
<1>b. t.next = "subscribed" /\ t.ch = task[ws].ch /\ t.rest = task[ws].rest
  BY <1>0, <1>3 DEF TypeOK, Tasks
<1>2. /\ task' = [task EXCEPT ![ws] = t]
      /\ linger_until' = linger_until \ {task[ws].ch}
      /\ UNCHANGED <<clients, handle, channels, left, redis, out>>
  BY <1>0 DEF add_linger
<1>4. /\ task' \in [Sockets -> Tasks]
      /\ task'[ws] = t
      /\ \A v \in Sockets \ {ws} : task'[v] = task[v]
  BY <1>2, <1>3, Assign
<1>5. TypeOK'
  BY <1>1, <1>2, <1>3, <1>4 DEF TypeOK, redis, out
<1>7. Own(ws)
  BY <1>2, <1>4 DEF Own, out
<1>8. Place(ws)' /\ Differ(ws)'
  BY <1>a, <1>b, <1>1, <1>2, <1>4
     DEF Place, Differ, Gone, Added, Removed, Agree, Adds, Removes
<1>9. LeftRemembered'
  <2>1. ws \in channels[task[ws].ch]
    BY <1>a, <1>1 DEF Differ, Added
  <2> QED
    BY <1>1, <1>2, <1>4, <2>1 DEF IInv, LeftRemembered
<1> QED
  BY <1>5, <1>7, <1>8, <1>9, OthersKeep DEF IInv

LEMMA AnswerKeeps == ASSUME IInv, NEW ws \in Sockets, send_answer(ws) PROVE IInv'
<1>3. TypeOK
  BY DEF IInv
<1>a. Place(ws) /\ Differ(ws)
  BY DEF IInv
<1>0. PICK t \in Tasks : t = At("read") /\ t.next = "read"
  BY Simple
<1>1. task[ws].next \in {"subscribed", "unsubscribed"} /\ ws \in clients
  BY <1>a DEF send_answer, Place, Adds
<1>2. task' = [task EXCEPT ![ws] = t] /\ UNCHANGED <<index, redis, out>>
  BY <1>0 DEF send_answer
<1>4. /\ task' \in [Sockets -> Tasks]
      /\ task'[ws] = t
      /\ \A v \in Sockets \ {ws} : task'[v] = task[v]
  BY <1>2, <1>3, Assign
<1>5. TypeOK'
  BY <1>2, <1>3, <1>4 DEF TypeOK, redis, out, index
<1>7. Own(ws)
  BY <1>2, <1>4 DEF Own, out, index
<1>8. Place(ws)' /\ Differ(ws)'
  BY <1>a, <1>0, <1>1, <1>2, <1>4
     DEF Place, Differ, Gone, Added, Removed, Agree, Adds, Removes, index
<1>9. LeftRemembered'
  BY <1>1, <1>2, <1>4, LeftKeeps DEF index
<1> QED
  BY <1>5, <1>7, <1>8, <1>9, OthersKeep DEF IInv

(* The block under the lock of channels, of a frame or of a cleanup.        *)
LEMMA RemoveKeeps ==
    ASSUME IInv, NEW ws \in Sockets, NEW c \in Channels, NEW rest \in SUBSET Channels,
           task[ws].next \in {"read", "cleanup"},
           task[ws].next = "cleanup" => task[ws].rest \subseteq rest \union {c},
           remove_channel(ws, c, rest)
    PROVE  IInv'
<1>3. TypeOK
  BY DEF IInv
<1>a. Place(ws) /\ Differ(ws)
  BY DEF IInv
<1>y. PICK n \in {"remove last", "remove client"} :
         n = IF channels[c] # {} /\ channels[c] \subseteq {ws}
             THEN "remove last" ELSE "remove client"
  OBVIOUS
<1>z. On(n, c, rest) \in Tasks /\ On(n, c, rest).next = n
      /\ On(n, c, rest).ch = c /\ On(n, c, rest).rest = rest
  BY DEF On, Tasks, Removes
<1>0. PICK t \in Tasks : t = On(n, c, rest) /\ t.next = n /\ t.ch = c /\ t.rest = rest
  BY <1>z
<1>2. /\ task' = [task EXCEPT ![ws] = t]
      /\ channels' = [channels EXCEPT ![c] = @ \ {ws}]
      /\ left' = IF channels[c] # {} THEN left \union {c} ELSE left
      /\ UNCHANGED <<clients, handle, linger_until, redis, out>>
  BY <1>y, <1>0 DEF remove_channel
<1>4. /\ task' \in [Sockets -> Tasks]
      /\ task'[ws] = t
      /\ \A v \in Sockets \ {ws} : task'[v] = task[v]
  BY <1>2, <1>3, Assign
<1>5. TypeOK'
  BY <1>2, <1>3, <1>4 DEF TypeOK, redis, out
<1>6. \A d \in Channels : channels'[d] = IF d = c THEN channels[d] \ {ws} ELSE channels[d]
  BY <1>2, <1>3 DEF TypeOK
<1>7. Own(ws)
  <2>1. sending' = sending /\ UNCHANGED <<clients, handle>>
    BY <1>2 DEF out
  <2> QED
    BY <1>4, <1>6, <2>1 DEF Own
<1>8. Place(ws)' /\ Differ(ws)'
  <2>1. task'[ws].next = n /\ task'[ws].ch = c /\ task'[ws].rest = rest
        /\ clients' = clients /\ handle' = handle
    BY <1>0, <1>2, <1>4
  <2>2. Place(ws)'
    BY <1>a, <2>1 DEF Place, Adds
  <2>3. Gone(ws)'
    BY <1>a, <1>6, <2>1 DEF Place, Differ, Gone, Adds
  <2>4. Added(ws)' /\ Removed(ws)'
    BY <1>6, <2>1 DEF Added, Removed
  <2>5. Agree(ws)'
    BY <1>a, <1>6, <2>1 DEF Differ, Agree
  <2> QED
    BY <2>2, <2>3, <2>4, <2>5 DEF Differ
<1>9. LeftRemembered'
  <2> SUFFICES ASSUME NEW d \in left', channels'[d] = {}, d \notin linger_until
               PROVE  \E v \in Sockets : /\ task'[v].next \in {"remove last", "remove linger"}
                                         /\ task'[v].ch = d
    BY <1>2 DEF LeftRemembered
  <2>1. CASE d = c /\ channels[c] # {}
    <3>1. channels[c] \subseteq {ws}
      BY <1>6, <2>1
    <3> QED
      BY <1>y, <1>0, <1>4, <2>1, <3>1
  <2>2. CASE d # c \/ channels[c] = {}
    <3>1. d \in left /\ channels[d] = {}
      BY <1>2, <1>3, <1>6, <2>2 DEF TypeOK
    <3>2. PICK v \in Sockets : task[v].next \in {"remove last", "remove linger"} /\ task[v].ch = d
      BY <3>1 DEF IInv, LeftRemembered
    <3> QED
      BY <1>4, <3>2
  <2> QED
    BY <2>1, <2>2
<1> QED
  BY <1>5, <1>7, <1>8, <1>9, OthersKeep DEF IInv

(* Where a remove_subscription goes on. *)
LEMMA AfterRemoveIs ==
    ASSUME IInv, NEW ws \in Sockets, task[ws].next \in Removes
    PROVE  /\ AfterRemove(ws) \in Tasks
           /\ AfterRemove(ws).rest \in SUBSET Channels
           /\ ws \in clients => /\ AfterRemove(ws).next = "unsubscribed"
                                /\ AfterRemove(ws).ch = task[ws].ch
           /\ ws \notin clients => /\ AfterRemove(ws).next = "cleanup"
                                   /\ AfterRemove(ws).rest = task[ws].rest
<1>1. task[ws] \in Tasks /\ task[ws].ch \in Channels
  BY DEF IInv, TypeOK, Place
<1>2. CASE ws \in clients
  BY <1>1, <1>2 DEF AfterRemove, On, Tasks, Removes
<1>3. CASE ws \notin clients
  BY <1>1, <1>3 DEF AfterRemove, Cleaning, On, Tasks
<1> QED
  BY <1>2, <1>3

LEMMA RemoveClientKeeps == ASSUME IInv, NEW ws \in Sockets, remove_client(ws) PROVE IInv'
<1>3. TypeOK
  BY DEF IInv
<1>a. Place(ws) /\ Differ(ws)
  BY DEF IInv
<1>b. task[ws].next \in {"remove client", "remove last"} /\ task[ws].next \in Removes
  BY DEF remove_client, Removes
<1>c. task[ws].ch \in Channels /\ ws \notin channels[task[ws].ch]
  BY <1>a, <1>b DEF Place, Differ, Removed
<1>d. PICK o \in Tasks : o = On("remove linger", task[ws].ch, task[ws].rest)
         /\ o.next = "remove linger" /\ o.ch = task[ws].ch /\ o.rest = task[ws].rest
  <2>1. task[ws] \in Tasks
    BY <1>3 DEF TypeOK
  <2>2. /\ On("remove linger", task[ws].ch, task[ws].rest) \in Tasks
        /\ On("remove linger", task[ws].ch, task[ws].rest).next = "remove linger"
        /\ On("remove linger", task[ws].ch, task[ws].rest).ch = task[ws].ch
        /\ On("remove linger", task[ws].ch, task[ws].rest).rest = task[ws].rest
    BY <2>1 DEF On, Tasks, Removes
  <2> QED
    BY <2>2
<1>0. PICK t \in Tasks : t = IF task[ws].next = "remove last" THEN o ELSE AfterRemove(ws)
  BY <1>b, <1>d, AfterRemoveIs
<1>e. /\ task[ws].next = "remove last" => /\ t.next = "remove linger" /\ t.ch = task[ws].ch
                                          /\ t.rest = task[ws].rest
      /\ task[ws].next # "remove last" /\ ws \in clients
            => t.next = "unsubscribed" /\ t.ch = task[ws].ch
      /\ task[ws].next # "remove last" /\ ws \notin clients
            => t.next = "cleanup" /\ t.rest = task[ws].rest
  BY <1>b, <1>d, <1>0, AfterRemoveIs
<1>2. /\ task' = [task EXCEPT ![ws] = t]
      /\ handle' = IF ws \in clients THEN [handle EXCEPT ![ws] = @ \ {task[ws].ch}] ELSE handle
      /\ UNCHANGED <<clients, channels, linger_until, left, redis, out>>
  BY <1>d, <1>0 DEF remove_client
<1>4. /\ task' \in [Sockets -> Tasks]
      /\ task'[ws] = t
      /\ \A v \in Sockets \ {ws} : task'[v] = task[v]
  BY <1>2, <1>3, Assign
<1>6. /\ handle' \in [Sockets -> SUBSET Channels]
      /\ \A v \in Sockets \ {ws} : handle'[v] = handle[v]
      /\ handle'[ws] = IF ws \in clients THEN handle[ws] \ {task[ws].ch} ELSE handle[ws]
  BY <1>2, <1>3 DEF TypeOK
<1>5. TypeOK'
  BY <1>2, <1>3, <1>4, <1>6 DEF TypeOK, redis, out
<1>7. Own(ws)
  BY <1>2, <1>4, <1>6 DEF Own, out
<1>8. Place(ws)' /\ Differ(ws)'
  <2>1. task'[ws] = t /\ clients' = clients /\ channels' = channels
    BY <1>2, <1>4
  <2>2. Place(ws)'
    BY <1>a, <1>b, <1>c, <1>e, <1>6, <2>1 DEF Place, Adds, Removes
  <2>3. Gone(ws)'
    BY <1>a, <1>e, <2>1 DEF Differ, Gone
  <2>4. Added(ws)' /\ Removed(ws)'
    BY <1>e, <2>1 DEF Added, Removed
  <2>5. Agree(ws)'
    BY <1>a, <1>c, <1>6, <2>1 DEF Differ, Agree
  <2> QED
    BY <2>2, <2>3, <2>4, <2>5 DEF Differ
<1>9. LeftRemembered'
  BY <1>b, <1>e, <1>2, <1>4, LeftKeeps
<1> QED
  BY <1>5, <1>7, <1>8, <1>9, OthersKeep DEF IInv

LEMMA RemoveLingerKeeps == ASSUME IInv, NEW ws \in Sockets, remove_linger(ws) PROVE IInv'
<1>3. TypeOK
  BY DEF IInv
<1>a. Place(ws) /\ Differ(ws)
  BY DEF IInv
<1>b. task[ws].next = "remove linger" /\ task[ws].next \in Removes
  BY DEF remove_linger, Removes
<1>c. task[ws].ch \in Channels
  BY <1>a, <1>b DEF Place
<1>0. PICK t \in Tasks : t = AfterRemove(ws)
  BY <1>b, AfterRemoveIs
<1>e. /\ ws \in clients => t.next = "unsubscribed" /\ t.ch = task[ws].ch
      /\ ws \notin clients => t.next = "cleanup" /\ t.rest = task[ws].rest
  BY <1>b, <1>0, AfterRemoveIs
<1>2. /\ task' = [task EXCEPT ![ws] = t]
      /\ linger_until' = linger_until \union {task[ws].ch}
      /\ UNCHANGED <<clients, handle, channels, left, redis, out>>
  BY <1>0 DEF remove_linger
<1>4. /\ task' \in [Sockets -> Tasks]
      /\ task'[ws] = t
      /\ \A v \in Sockets \ {ws} : task'[v] = task[v]
  BY <1>2, <1>3, Assign
<1>5. TypeOK'
  BY <1>c, <1>2, <1>3, <1>4 DEF TypeOK, redis, out
<1>7. Own(ws)
  BY <1>2, <1>4 DEF Own, out
<1>8. Place(ws)' /\ Differ(ws)'
  <2>1. task'[ws] = t /\ clients' = clients /\ channels' = channels /\ handle' = handle
    BY <1>2, <1>4
  <2>2. Place(ws)'
    BY <1>a, <1>c, <1>e, <2>1 DEF Place, Adds, Removes
  <2>3. Gone(ws)' /\ Added(ws)' /\ Removed(ws)'
    BY <1>a, <1>e, <2>1 DEF Differ, Gone, Added, Removed
  <2>5. Agree(ws)'
    BY <1>a, <1>b, <2>1 DEF Differ, Agree
  <2> QED
    BY <2>2, <2>3, <2>5 DEF Differ
<1>9. LeftRemembered'
  <2> SUFFICES ASSUME NEW d \in left, channels[d] = {}, d \notin linger_until, d # task[ws].ch
               PROVE  \E v \in Sockets : /\ task'[v].next \in {"remove last", "remove linger"}
                                         /\ task'[v].ch = d
    BY <1>2 DEF LeftRemembered
  <2>1. PICK v \in Sockets : task[v].next \in {"remove last", "remove linger"} /\ task[v].ch = d
    BY DEF IInv, LeftRemembered
  <2> QED
    BY <1>4, <2>1
<1> QED
  BY <1>5, <1>7, <1>8, <1>9, OthersKeep DEF IInv

LEMMA CleanupKeeps == ASSUME IInv, NEW ws \in Sockets, cleanup_client(ws) PROVE IInv'
<1>3. TypeOK
  BY DEF IInv
<1>a. Place(ws) /\ Differ(ws)
  BY DEF IInv
<1>b. task[ws].next = "read" /\ handle[ws] \in SUBSET Channels
  BY <1>3, Simple DEF cleanup_client, Reading, TypeOK
<1>0. PICK t \in Tasks : t = Cleaning(handle[ws]) /\ t.next = "cleanup" /\ t.rest = handle[ws]
  <2>1. /\ Cleaning(handle[ws]) \in Tasks
        /\ Cleaning(handle[ws]).next = "cleanup"
        /\ Cleaning(handle[ws]).rest = handle[ws]
    BY <1>b DEF Cleaning, On, Tasks
  <2> QED
    BY <2>1
<1>2. /\ task' = [task EXCEPT ![ws] = t]
      /\ clients' = clients \ {ws}
      /\ handle' = [handle EXCEPT ![ws] = {}]
      /\ inbox' = [inbox EXCEPT ![ws] = <<>>]
      /\ UNCHANGED <<channels, linger_until, left, redis, sending>>
  BY <1>0 DEF cleanup_client
<1>4. /\ task' \in [Sockets -> Tasks]
      /\ task'[ws] = t
      /\ \A v \in Sockets \ {ws} : task'[v] = task[v]
  BY <1>2, <1>3, Assign
<1>6. /\ handle' \in [Sockets -> SUBSET Channels] /\ handle'[ws] = {}
      /\ \A v \in Sockets \ {ws} : handle'[v] = handle[v]
      /\ inbox' \in [Sockets -> Seq(Messages)]
  BY <1>2, <1>3 DEF TypeOK
<1>5. TypeOK'
  BY <1>2, <1>3, <1>4, <1>6 DEF TypeOK, redis
<1>7. Own(ws)
  BY <1>2, <1>4, <1>6 DEF Own
<1>8. Place(ws)' /\ Differ(ws)'
  <2>1. ws \in clients /\ \A c \in Channels : ws \in channels[c] <=> c \in handle[ws]
    BY <1>a, <1>b DEF Place, Differ, Agree
  <2>2. ws \notin clients' /\ task'[ws].next = "cleanup" /\ task'[ws].rest = handle[ws]
        /\ channels' = channels
    BY <1>0, <1>2, <1>4
  <2>3. Place(ws)'
    BY <1>6, <2>2 DEF Place, Adds, Removes
  <2>4. Differ(ws)'
    BY <2>1, <2>2 DEF Differ, Gone, Added, Removed, Agree
  <2> QED
    BY <2>3, <2>4
<1>9. LeftRemembered'
  BY <1>b, <1>2, <1>4, LeftKeeps
<1> QED
  BY <1>5, <1>7, <1>8, <1>9, OthersKeep DEF IInv

LEMMA CleanupEndKeeps == ASSUME IInv, NEW ws \in Sockets, cleanup_end(ws) PROVE IInv'
<1>3. TypeOK
  BY DEF IInv
<1>a. Place(ws) /\ Differ(ws)
  BY DEF IInv
<1>b. task[ws].next = "cleanup" /\ task[ws].rest = {} /\ ws \notin sending.to
  BY DEF cleanup_end, Cleaning, On
<1>0. PICK t \in Tasks : t = At("none") /\ t.next = "none" /\ t.rest = {}
  BY Simple
<1>2. task' = [task EXCEPT ![ws] = t] /\ UNCHANGED <<index, redis, out>>
  BY <1>0 DEF cleanup_end
<1>4. /\ task' \in [Sockets -> Tasks]
      /\ task'[ws] = t
      /\ \A v \in Sockets \ {ws} : task'[v] = task[v]
  BY <1>2, <1>3, Assign
<1>5. TypeOK'
  BY <1>2, <1>3, <1>4 DEF TypeOK, redis, out, index
<1>7. Own(ws)
  BY <1>2, <1>4 DEF Own, out, index
<1>8. Place(ws)' /\ Differ(ws)'
  BY <1>a, <1>b, <1>0, <1>2, <1>4
     DEF Place, Differ, Gone, Added, Removed, Agree, Adds, Removes, index, out
<1>9. LeftRemembered'
  BY <1>b, <1>2, <1>4, LeftKeeps DEF index
<1> QED
  BY <1>5, <1>7, <1>8, <1>9, OthersKeep DEF IInv

(* The listener and the publishers change no index and no client's task;    *)
(* what the listener sends to are clients that are there or being cleaned.  *)
LEMMA RedisKeeps ==
    ASSUME IInv, TypeOK', UNCHANGED <<index, task>>,
           \A ws \in sending'.to : ws \in sending.to \/ \E c \in Channels : ws \in channels[c]
    PROVE  IInv'
<1>1. ASSUME NEW ws \in Sockets PROVE Place(ws)' /\ Differ(ws)'
  <2>1. Place(ws) /\ Differ(ws)
    BY DEF IInv
  <2>2. task' = task /\ clients' = clients /\ handle' = handle /\ channels' = channels
    BY DEF index
  <2>3. task[ws].next = "none" => ws \notin sending'.to
    BY <2>1 DEF Place, Differ, Gone
  <2> QED
    BY <2>1, <2>2, <2>3 DEF Place, Differ, Gone, Added, Removed, Agree
<1>2. LeftRemembered'
  BY DEF IInv, LeftRemembered, index
<1> QED
  BY <1>1, <1>2 DEF IInv

(* A message is put on the bus, or lost. *)
LEMMA EnqueueKeeps ==
    ASSUME IInv, NEW c \in Channels, Enqueue(c), UNCHANGED <<index, task, listener, redis_ready, out>>
    PROVE  IInv'
<1>1. TypeOK
  BY DEF IInv
<1>2. published' \in 1..MaxPub /\ published' \in 0..MaxPub
  BY <1>1, PubAssumption DEF Enqueue, TypeOK
<1>3. [id |-> published', ch |-> c] \in Messages
  BY <1>2 DEF Messages
<1>4. bus' \in Seq(Messages)
  BY <1>1, <1>3 DEF Enqueue, TypeOK
<1>5. TypeOK'
  BY <1>1, <1>2, <1>4 DEF TypeOK, index, out
<1> QED
  BY <1>5, RedisKeeps DEF out

LEMMA ListenerKeeps ==
    ASSUME IInv, listener_connect \/ listener_subscribe \/ listener_lost
    PROVE  IInv'
<1>1. TypeOK
  BY DEF IInv
<1>2. redis_ready' \in BOOLEAN
  BY <1>1, Zenon DEF TypeOK, listener_connect, listener_subscribe, listener_lost
<1>3. /\ listener' \in {"connecting", "subscribing", "reading"}
      /\ bus' \in Seq(Messages)
      /\ UNCHANGED <<index, task, published, out>>
  <2>1. CASE listener_connect
    BY <1>1, <2>1 DEF TypeOK, listener_connect
  <2>2. CASE listener_subscribe
    BY <1>1, <2>2 DEF TypeOK, listener_subscribe
  <2>3. CASE listener_lost
    BY <1>1, <2>3 DEF TypeOK, listener_lost
  <2> QED
    BY <2>1, <2>2, <2>3
<1>4. TypeOK'
  BY <1>1, <1>2, <1>3 DEF TypeOK, index, out
<1> QED
  BY <1>3, <1>4, RedisKeeps DEF out

LEMMA PublishKeeps == ASSUME IInv, publish_to_channel PROVE IInv'
<1>1. TypeOK
  BY DEF IInv
<1>2. PICK m \in Messages : m = Head(bus)
  BY <1>1 DEF publish_to_channel, TypeOK
<1>3. m.ch \in Channels /\ channels[m.ch] \in SUBSET Sockets
  BY <1>1 DEF TypeOK, Messages
<1>4. bus' \in Seq(Messages)
  BY <1>1 DEF publish_to_channel, TypeOK
<1>5. sending' = IF channels[m.ch] = {} THEN Nothing ELSE [msg |-> m, to |-> channels[m.ch]]
  BY <1>2 DEF publish_to_channel
<1>6. sending' \in [msg : Messages, to : (SUBSET Sockets) \ {{}}] \union {Nothing}
  BY <1>3, <1>5
<1>7. sending'.to \subseteq channels[m.ch]
  BY <1>5 DEF Nothing
<1>8. TypeOK'
  BY <1>1, <1>4, <1>6 DEF TypeOK, publish_to_channel, index
<1> QED
  BY <1>3, <1>7, <1>8, RedisKeeps DEF publish_to_channel

(* What is being sent is a message and a set of clients to send it to.      *)
LEMMA SendingIs == ASSUME TypeOK, NEW ws \in sending.to
                   PROVE  /\ ws \in Sockets
                          /\ sending.msg \in Messages
                          /\ sending = [msg |-> sending.msg, to |-> sending.to]
                          /\ sending.to \in SUBSET Sockets
<1>1. sending # Nothing
  BY DEF Nothing
<1>2. sending \in [msg : Messages, to : (SUBSET Sockets) \ {{}}]
  BY <1>1 DEF TypeOK
<1> QED
  BY <1>2

LEMMA SendKeeps == ASSUME IInv, NEW ws \in Sockets, send_to_client(ws) PROVE IInv'
<1>1. TypeOK
  BY DEF IInv
<1>2. /\ ws \in sending.to
      /\ sending.msg \in Messages
      /\ sending = [msg |-> sending.msg, to |-> sending.to]
      /\ sending.to \in SUBSET Sockets
  BY <1>1, SendingIs DEF send_to_client
<1>3. inbox' \in [Sockets -> Seq(Messages)]
  BY <1>1, <1>2 DEF send_to_client, TypeOK
<1>4. CASE sending.to = {ws}
  <2>1. sending' = Nothing /\ sending'.to = {}
    BY <1>4 DEF send_to_client, Nothing
  <2>2. TypeOK'
    BY <1>1, <1>3, <2>1 DEF TypeOK, send_to_client, index, redis
  <2> QED
    BY <2>1, <2>2, RedisKeeps DEF send_to_client
<1>5. CASE sending.to # {ws}
  <2>1. sending' = [msg |-> sending.msg, to |-> sending.to \ {ws}]
    BY <1>2, <1>5 DEF send_to_client
  <2>2. sending' \in [msg : Messages, to : (SUBSET Sockets) \ {{}}]
    BY <1>2, <1>5, <2>1
  <2>3. TypeOK'
    BY <1>1, <1>3, <2>2 DEF TypeOK, send_to_client, index, redis
  <2> QED
    BY <2>1, <2>3, RedisKeeps DEF send_to_client
<1> QED
  BY <1>4, <1>5

LEMMA StepKeeps == IInv /\ [Next]_vars => IInv'
<1> SUFFICES ASSUME IInv, [Next]_vars PROVE IInv'
  OBVIOUS
<1>1. ASSUME NEW ws \in Sockets, NEW c \in Channels, remove_subscription(ws, c) PROVE IInv'
  <2>1. task[ws].next = "read" /\ {} \in SUBSET Channels /\ remove_channel(ws, c, {})
    BY <1>1, Simple DEF remove_subscription, Reading
  <2> QED
    BY <2>1, RemoveKeeps
<1>2. ASSUME NEW ws \in Sockets, cleanup_channel(ws) PROVE IInv'
  <2>1. task[ws] \in Tasks /\ task[ws].next = "cleanup"
    BY <1>2 DEF IInv, TypeOK, cleanup_channel
  <2>2. PICK c \in task[ws].rest : remove_channel(ws, c, task[ws].rest \ {c})
    BY <1>2 DEF cleanup_channel
  <2>3. c \in Channels /\ task[ws].rest \ {c} \in SUBSET Channels
    BY <2>1 DEF Tasks
  <2> QED
    BY <2>1, <2>2, <2>3, RemoveKeeps
<1>3. ASSUME NEW ws \in Sockets, NEW c \in Channels, publish_typing(ws, c) PROVE IInv'
  BY <1>3, EnqueueKeeps DEF publish_typing
<1>4. ASSUME NEW c \in Channels, ApiPublish(c) PROVE IInv'
  BY <1>4, EnqueueKeeps DEF ApiPublish
<1>5. CASE UNCHANGED vars
  <2>1. TypeOK'
    BY <1>5 DEF IInv, TypeOK, vars, index, redis, out
  <2> QED
    BY <1>5, <2>1, RedisKeeps DEF vars, out
<1> QED
  BY <1>1, <1>2, <1>3, <1>4, <1>5, SocketKeeps, AddKeeps, AddClientKeeps, AddLingerKeeps,
     AnswerKeeps, RemoveClientKeeps, RemoveLingerKeeps, CleanupKeeps, CleanupEndKeeps,
     ListenerKeeps, PublishKeeps, SendKeeps DEF Next

THEOREM Invariance == Spec => []IInv
  BY InitIInv, StepKeeps, PTL DEF Spec

(* Every reachable state of the Rust port's service is type correct.        *)
THEOREM TypeCorrect == Spec => []TypeOK
<1>1. IInv => TypeOK
  BY DEF IInv
<1> QED
  BY <1>1, Invariance, PTL

(* The two indexes agree for every client whose task is at rest.            *)
THEOREM IndexesSettled == Spec => []IndexesSettle
<1>1. IInv => IndexesSettle
  <2> SUFFICES ASSUME IInv, NEW ws \in Sockets, NEW c \in Channels
               PROVE  /\ Reading(ws) \/ task[ws].next \in {"subscribed", "unsubscribed", "none"}
                            => (ws \in channels[c] <=> c \in handle[ws])
                      /\ ws \in channels[c] => ws \in clients \/ c \in task[ws].rest
    BY DEF IndexesSettle
  <2>1. Place(ws) /\ Differ(ws)
    BY DEF IInv
  <2>2. ASSUME Reading(ws) \/ task[ws].next \in {"subscribed", "unsubscribed", "none"}
        PROVE  task[ws].next \in {"read", "subscribed", "unsubscribed", "none"}
    BY <2>2, Simple DEF Reading
  <2>3. ASSUME task[ws].next \in {"read", "subscribed", "unsubscribed", "none"}
        PROVE  ws \in channels[c] <=> c \in handle[ws]
    <3>1. CASE ws \in clients
      BY <2>1, <2>3, <3>1 DEF Differ, Agree
    <3>2. CASE ws \notin clients
      BY <2>1, <2>3, <3>2 DEF Place, Differ, Gone, Adds
    <3> QED
      BY <3>1, <3>2
  <2>4. ws \in channels[c] => ws \in clients \/ c \in task[ws].rest
    BY <2>1 DEF Differ, Gone
  <2> QED
    BY <2>2, <2>3, <2>4
<1> QED
  BY <1>1, Invariance, PTL

(* A channel whose last subscriber left is remembered.                      *)
THEOREM LastLeftRemembered == Spec => []LeftRemembered
<1>1. IInv => LeftRemembered
  BY DEF IInv
<1> QED
  BY <1>1, Invariance, PTL

(* Both together: the two indexes, each behind a lock of its own, settle.   *)
THEOREM IndexesHeld == Spec => []IndexesHold
<1>1. IndexesSettle /\ LeftRemembered => IndexesHold
  BY DEF IndexesHold
<1> QED
  BY <1>1, IndexesSettled, LastLeftRemembered, PTL
-----------------------------------------------------------------------------
(***************************************************************************)
(* The refinement of Fanout.                                               *)
(***************************************************************************)

(* A step of a client's task that changes neither the index the listener    *)
(* reads nor what clients are sent is none of Fanout's.                     *)
LEMMA Stutter == UNCHANGED <<clients, channels, sending, inbox>> => UNCHANGED F!vars
  BY DEF F!vars, Member, Sent

LEMMA OpenStep == ASSUME IInv, NEW ws \in Sockets, handle_socket(ws) PROVE F!Open(ws)
<1>1. Place(ws) /\ Differ(ws) /\ task[ws].next = "none"
  BY Simple DEF IInv, handle_socket
<1>2. ws \notin clients /\ ws \notin sending.to /\ task[ws].rest = {}
  BY <1>1 DEF Place
<1>3. Member[ws] = {}
  BY <1>1, <1>2 DEF Member, Differ, Gone
<1>4. clients' = clients \union {ws} /\ UNCHANGED <<channels, sending, inbox>>
  BY DEF handle_socket, out
<1>5. Member' = Member
  BY <1>4 DEF Member
<1>6. Sent' = Sent
  BY <1>2, <1>4 DEF Sent
<1> QED
  BY <1>2, <1>3, <1>4, <1>5, <1>6 DEF F!Open

LEMMA JoinStep == ASSUME IInv, NEW ws \in Sockets, NEW c \in Channels, add_subscription(ws, c)
                  PROVE  F!Join(ws, c)
<1>1. /\ \A d \in Channels : channels'[d] = IF d = c THEN channels[d] \union {ws} ELSE channels[d]
      /\ UNCHANGED <<clients, sending, inbox>>
  BY DEF add_subscription, IInv, TypeOK, out
<1>2. Member' = [Member EXCEPT ![ws] = @ \union {c}]
  <2>1. \A v \in Sockets : Member'[v] = IF v = ws THEN Member[v] \union {c} ELSE Member[v]
    BY <1>1 DEF Member
  <2> QED
    BY <2>1 DEF Member
<1>3. Sent' = Sent
  BY <1>1 DEF Sent
<1> QED
  BY <1>1, <1>2, <1>3 DEF F!Join

LEMMA LeaveStep ==
    ASSUME IInv, NEW ws \in Sockets, NEW c \in Channels, NEW rest, remove_channel(ws, c, rest)
    PROVE  F!Leave(ws, c)
<1>1. /\ \A d \in Channels : channels'[d] = IF d = c THEN channels[d] \ {ws} ELSE channels[d]
      /\ UNCHANGED <<clients, sending, inbox>>
  BY DEF remove_channel, IInv, TypeOK, out
<1>2. Member' = [Member EXCEPT ![ws] = @ \ {c}]
  <2>1. \A v \in Sockets : Member'[v] = IF v = ws THEN Member[v] \ {c} ELSE Member[v]
    BY <1>1 DEF Member
  <2> QED
    BY <2>1 DEF Member
<1>3. Sent' = Sent
  BY <1>1 DEF Sent
<1> QED
  BY <1>1, <1>2, <1>3 DEF F!Leave

LEMMA DropStep == ASSUME IInv, NEW ws \in Sockets, cleanup_client(ws) PROVE F!Drop(ws)
<1>1. Place(ws) /\ task[ws].next = "read"
  BY Simple DEF IInv, cleanup_client, Reading
<1>2. ws \in clients
  BY <1>1 DEF Place
<1>3. /\ clients' = clients \ {ws}
      /\ inbox' = [inbox EXCEPT ![ws] = <<>>]
      /\ UNCHANGED <<channels, sending>>
  BY DEF cleanup_client
<1>4. Member' = Member
  BY <1>3 DEF Member
<1>5. Sent' = [Sent EXCEPT ![ws] = <<>>]
  <2>1. \A v \in Sockets : inbox'[v] = IF v = ws THEN <<>> ELSE inbox[v]
    BY <1>3 DEF IInv, TypeOK
  <2>2. \A v \in Sockets : Sent'[v] = IF v = ws THEN <<>> ELSE Sent[v]
    BY <1>3, <2>1 DEF Sent
  <2> QED
    BY <2>2 DEF Sent
<1> QED
  BY <1>2, <1>3, <1>4, <1>5 DEF F!Drop

LEMMA PublishStep == ASSUME IInv, publish_to_channel
                     PROVE  \E m \in Messages : F!Publish(m)
<1>1. PICK m \in Messages : m = Head(bus)
  BY DEF publish_to_channel, IInv, TypeOK
<1>2. /\ sending = Nothing /\ UNCHANGED <<clients, channels, inbox>>
      /\ sending' = IF channels[m.ch] = {} THEN Nothing ELSE [msg |-> m, to |-> channels[m.ch]]
  BY <1>1 DEF publish_to_channel, index
<1>3. Member' = Member
  BY <1>2 DEF Member
<1>4. sending'.to = channels[m.ch] /\ (channels[m.ch] # {} => sending'.msg = m)
  BY <1>2 DEF Nothing
<1>5. m.ch \in Channels
  BY DEF Messages
<1>6. \A ws \in Sockets : Sent[ws] = inbox[ws]
  BY <1>2 DEF Sent, Nothing
<1>7. \A ws \in Sockets : m.ch \in Member[ws] <=> ws \in channels[m.ch]
  BY <1>5 DEF Member
<1>8. \A ws \in Sockets : Sent'[ws] = IF ws \in clients /\ m.ch \in Member[ws]
                                     THEN Append(Sent[ws], m) ELSE Sent[ws]
  BY <1>2, <1>4, <1>6, <1>7 DEF Sent
<1>9. Sent' = [ws \in Sockets |-> IF ws \in clients /\ m.ch \in Member[ws]
                                 THEN Append(Sent[ws], m) ELSE Sent[ws]]
  BY <1>8 DEF Sent
<1> QED
  BY <1>2, <1>3, <1>9 DEF F!Publish

LEMMA SendStep == ASSUME IInv, NEW ws \in Sockets, send_to_client(ws) PROVE UNCHANGED F!vars
<1>1. /\ ws \in sending.to
      /\ sending = [msg |-> sending.msg, to |-> sending.to]
  BY SendingIs DEF send_to_client, IInv
<1>2. /\ UNCHANGED <<clients, channels>>
      /\ \A v \in Sockets : inbox'[v] = IF v = ws /\ ws \in clients
                                       THEN Append(inbox[v], sending.msg) ELSE inbox[v]
  BY DEF send_to_client, IInv, TypeOK, index
<1>3. /\ sending'.to = sending.to \ {ws}
      /\ sending'.to # {} => sending'.msg = sending.msg
  <2>1. CASE sending.to = {ws}
    BY <2>1 DEF send_to_client, Nothing
  <2>2. CASE sending.to # {ws}
    <3>1. sending' = [msg |-> sending.msg, to |-> sending.to \ {ws}]
      BY <1>1, <2>2 DEF send_to_client
    <3> QED
      BY <3>1
  <2> QED
    BY <2>1, <2>2
<1>4. \A v \in Sockets : Sent'[v] = Sent[v]
  BY <1>1, <1>2, <1>3 DEF Sent
<1>5. Sent' = Sent
  BY <1>4 DEF Sent
<1>6. Member' = Member
  BY <1>2 DEF Member
<1> QED
  BY <1>2, <1>5, <1>6 DEF F!vars

LEMMA Simulates == IInv /\ [Next]_vars => [F!Next]_F!vars
<1> SUFFICES ASSUME IInv, [Next]_vars PROVE [F!Next]_F!vars
  OBVIOUS
<1>1. ASSUME NEW ws \in Sockets, handle_socket(ws) PROVE F!Next
  BY <1>1, OpenStep DEF F!Next
<1>2. ASSUME NEW ws \in Sockets, NEW c \in Channels, add_subscription(ws, c) PROVE F!Next
  BY <1>2, JoinStep DEF F!Next
<1>3. ASSUME NEW ws \in Sockets, NEW c \in Channels, remove_subscription(ws, c) PROVE F!Next
  BY <1>3, LeaveStep DEF F!Next, remove_subscription
<1>4. ASSUME NEW ws \in Sockets, cleanup_channel(ws) PROVE F!Next
  <2>1. PICK c \in task[ws].rest : remove_channel(ws, c, task[ws].rest \ {c})
    BY <1>4 DEF cleanup_channel
  <2>2. c \in Channels
    BY <2>1 DEF IInv, TypeOK, Tasks
  <2> QED
    BY <2>1, <2>2, LeaveStep DEF F!Next
<1>5. ASSUME NEW ws \in Sockets, cleanup_client(ws) PROVE F!Next
  BY <1>5, DropStep DEF F!Next
<1>6. ASSUME publish_to_channel PROVE F!Next
  BY <1>6, PublishStep DEF F!Next
<1>7. ASSUME NEW ws \in Sockets, send_to_client(ws) PROVE UNCHANGED F!vars
  BY <1>7, SendStep
<1>8. ASSUME NEW ws \in Sockets,
             \/ add_client(ws) \/ add_linger(ws) \/ send_answer(ws)
             \/ remove_client(ws) \/ remove_linger(ws) \/ cleanup_end(ws)
      PROVE  UNCHANGED F!vars
  BY <1>8, Stutter DEF add_client, add_linger, send_answer, remove_client, remove_linger,
                       cleanup_end, index, out
<1>9. ASSUME NEW ws \in Sockets, NEW c \in Channels, publish_typing(ws, c) \/ ApiPublish(c)
      PROVE  UNCHANGED F!vars
  BY <1>9, Stutter DEF publish_typing, ApiPublish, index, out
<1>10. ASSUME NEW c \in Channels, ApiPublish(c) PROVE UNCHANGED F!vars
  BY <1>10, Stutter DEF ApiPublish, index, out
<1>11. ASSUME listener_connect \/ listener_subscribe \/ listener_lost PROVE UNCHANGED F!vars
  BY <1>11, Stutter DEF listener_connect, listener_subscribe, listener_lost, index, out
<1>12. CASE UNCHANGED vars
  BY <1>12, Stutter DEF vars, index, out
<1> QED
  BY <1>1, <1>2, <1>3, <1>4, <1>5, <1>6, <1>7, <1>8, <1>9, <1>10, <1>11, <1>12 DEF Next

LEMMA InitSimulates == Init => F!Init
  BY DEF Init, F!Init, Member, Sent, Nothing

(* The Rust port's service implements Fanout, as Realtime does.             *)
THEOREM RustRealtimeImplementsFanout == Spec => ImplementsFanout
  BY Simulates, InitSimulates, Invariance, PTL DEF Spec, F!Spec, ImplementsFanout
-----------------------------------------------------------------------------
(***************************************************************************)
(* The stored objects.  What a cleanup has yet to ask about, or to delete, *)
(* it knows of every object it listed and nobody has put to use since.     *)
(***************************************************************************)

(* What cleanup c knows of the object k that it listed. *)
CleanupKnows(c, k) ==
    /\ oCleanup[c].next = "query" =>
          \A i \in oRefs[k] : i < oCleanup[c].column => k \in oCleanup[c].usedKeys
    /\ oCleanup[c].next = "delete" => (oRefs[k] # {} => k \in oCleanup[c].usedKeys)

OInv == /\ Uploads!TypeOK
        /\ Uploads!UsedIsStored
        /\ \A c \in oCleanups : \A k \in oCleanup[c].listed \ oLate : CleanupKnows(c, k)

LEMMA OInit == Uploads!Init => OInv
BY PartsAssumption
   DEF Uploads!UploadsAssumption, Uploads!Init, OInv, Uploads!TypeOK, Uploads!UsedIsStored,
       CleanupKnows, Uploads!Idle

LEMMA OStep == OInv /\ [Uploads!Next]_Uploads!vars => OInv'
<1> SUFFICES ASSUME OInv, [Uploads!Next]_Uploads!vars PROVE OInv'
  OBVIOUS
<1> USE PartsAssumption DEF Uploads!UploadsAssumption, OInv, Uploads!TypeOK
<1>1. ASSUME NEW k \in oKeys, Uploads!Put(k) PROVE OInv'
  BY <1>1 DEF Uploads!Put, Uploads!UsedIsStored, CleanupKnows
<1>2. ASSUME NEW k \in oKeys, NEW i \in 1..oColumns, Uploads!Use(k, i) PROVE OInv'
  <2>1. Uploads!TypeOK'
    BY <1>2 DEF Uploads!Use
  <2>2. \A x \in oKeys : oRefs'[x] = IF x = k THEN oRefs[x] \union {i} ELSE oRefs[x]
    BY <1>2 DEF Uploads!Use
  <2>3. oLate \subseteq oLate' /\ (k \notin oObjects => k \in oLate')
        /\ ((\E c \in oCleanups : k \in oCleanup[c].listed) => k \in oLate')
        /\ UNCHANGED <<oObjects, oCleanup>>
    BY <1>2 DEF Uploads!Use
  <2>4. Uploads!UsedIsStored'
    BY <2>2, <2>3 DEF Uploads!UsedIsStored
  <2>5. ASSUME NEW c \in oCleanups, NEW x \in oCleanup'[c].listed \ oLate'
        PROVE  CleanupKnows(c, x)'
    <3>1. x # k /\ x \in oCleanup[c].listed \ oLate /\ x \in oKeys
      BY <2>3, <2>5
    <3>2. CleanupKnows(c, x) /\ oRefs'[x] = oRefs[x]
      BY <2>2, <3>1
    <3> QED
      BY <2>3, <3>2 DEF CleanupKnows
  <2> QED
    BY <2>1, <2>4, <2>5
<1>3. ASSUME NEW k \in oKeys, NEW i \in 1..oColumns, Uploads!Drop(k, i) PROVE OInv'
  <2>1. Uploads!TypeOK'
    BY <1>3 DEF Uploads!Drop
  <2>2. \A x \in oKeys : oRefs'[x] \subseteq oRefs[x]
    BY <1>3 DEF Uploads!Drop
  <2>3. UNCHANGED <<oObjects, oCleanup, oLate>>
    BY <1>3 DEF Uploads!Drop
  <2>4. Uploads!UsedIsStored'
    BY <2>2, <2>3 DEF Uploads!UsedIsStored
  <2>5. ASSUME NEW c \in oCleanups, NEW x \in oCleanup'[c].listed \ oLate'
        PROVE  CleanupKnows(c, x)'
    <3>1. CleanupKnows(c, x) /\ oRefs'[x] \subseteq oRefs[x]
      BY <2>2, <2>3, <2>5
    <3> QED
      BY <2>3, <3>1 DEF CleanupKnows
  <2> QED
    BY <2>1, <2>4, <2>5
(* The cleanup c moves on, and nothing but it and the objects changes. *)
<1>4. ASSUME NEW c \in oCleanups, UNCHANGED <<oUploaded, oRefs, oLate>>,
             NEW q \in [next : {"idle", "list", "query", "delete"}, column : 1..oColumns,
                        listed : SUBSET oKeys, usedKeys : SUBSET oKeys],
             oCleanup' = [oCleanup EXCEPT ![c] = q],
             \A k \in q.listed \ oLate :
                /\ q.next = "query" => \A i \in oRefs[k] : i < q.column => k \in q.usedKeys
                /\ q.next = "delete" => (oRefs[k] # {} => k \in q.usedKeys),
             oObjects' \in SUBSET oKeys,
             \A k \in oObjects \ oObjects' : oRefs[k] # {} => k \in oLate
      PROVE  OInv'
  <2>1. Uploads!TypeOK'
    BY <1>4
  <2>2. Uploads!UsedIsStored'
    BY <1>4 DEF Uploads!UsedIsStored
  <2>3. ASSUME NEW d \in oCleanups, NEW x \in oCleanup'[d].listed \ oLate'
        PROVE  CleanupKnows(d, x)'
    <3>1. CASE d = c
      <4>1. oCleanup'[d] = q
        BY <1>4, <3>1
      <4> QED
        BY <1>4, <2>3, <4>1 DEF CleanupKnows
    <3>2. CASE d # c
      <4>1. oCleanup'[d] = oCleanup[d]
        BY <1>4, <3>2
      <4> QED
        BY <1>4, <2>3, <4>1 DEF CleanupKnows
    <3> QED
      BY <3>1, <3>2
  <2> QED
    BY <2>1, <2>2, <2>3
<1> DEFINE Cleanup == [next : {"idle", "list", "query", "delete"}, column : 1..oColumns,
                       listed : SUBSET oKeys, usedKeys : SUBSET oKeys]
<1>5. /\ Uploads!Idle \in Cleanup
      /\ Uploads!Idle.next = "idle" /\ Uploads!Idle.listed = {} /\ Uploads!Idle.column = 1
  BY DEF Uploads!Idle
<1>6. ASSUME NEW c \in oCleanups, Uploads!PutFails(c) PROVE OInv'
  <2>1. PICK q : q = [Uploads!Idle EXCEPT !.next = "list"]
    OBVIOUS
  <2>2. q \in Cleanup /\ q.next = "list" /\ oCleanup' = [oCleanup EXCEPT ![c] = q]
    BY <1>6, <2>1 DEF Uploads!PutFails, Uploads!Idle
  <2> QED
    BY <1>4, <1>6, <2>2 DEF Uploads!PutFails
<1>7. ASSUME NEW c \in oCleanups, Uploads!List(c) PROVE OInv'
  <2>1. PICK q : q = [Uploads!Idle EXCEPT !.next = "query", !.listed = oObjects]
    OBVIOUS
  <2>2. q \in Cleanup /\ q.next = "query" /\ q.column = 1
    <3>1. q = [next |-> "query", column |-> 1, listed |-> oObjects, usedKeys |-> {}]
      BY <2>1 DEF Uploads!Idle
    <3>2. oObjects \in SUBSET oKeys /\ {} \in SUBSET oKeys /\ 1 \in 1..oColumns
      OBVIOUS
    <3> QED
      BY <3>1, <3>2
  <2>3. \A k \in q.listed \ oLate : \A i \in oRefs[k] : ~(i < q.column)
    BY <2>2
  <2>4. \/ oCleanup' = [oCleanup EXCEPT ![c] = q]
        \/ oCleanup' = [oCleanup EXCEPT ![c] = Uploads!Idle]
    BY <1>7, <2>1 DEF Uploads!List
  <2>5. UNCHANGED <<oObjects, oUploaded, oRefs, oLate>>
    BY <1>7 DEF Uploads!List
  <2>6. CASE oCleanup' = [oCleanup EXCEPT ![c] = q]
    BY <1>4, <2>2, <2>3, <2>5, <2>6
  <2>7. CASE oCleanup' = [oCleanup EXCEPT ![c] = Uploads!Idle]
    BY <1>4, <1>5, <2>5, <2>7
  <2> QED
    BY <2>4, <2>6, <2>7
<1>8. ASSUME NEW c \in oCleanups, Uploads!Query(c) PROVE OInv'
  <2>1. PICK p : p = oCleanup[c]
    OBVIOUS
  <2>2. p \in Cleanup /\ p.next = "query"
    BY <1>8, <2>1 DEF Uploads!Query
  <2>3. PICK found : found = {k \in oKeys : p.column \in oRefs[k]}
    OBVIOUS
  <2>4. PICK q : q = [p EXCEPT !.usedKeys = @ \union found,
                               !.next = IF p.column = oColumns THEN "delete" ELSE "query",
                               !.column = IF p.column = oColumns THEN p.column ELSE p.column + 1]
    OBVIOUS
  <2>5. /\ q \in Cleanup /\ q.listed = p.listed /\ q.usedKeys = p.usedKeys \union found
        /\ q.next = IF p.column = oColumns THEN "delete" ELSE "query"
        /\ q.column = IF p.column = oColumns THEN p.column ELSE p.column + 1
    <3>1. \A u \in SUBSET oKeys, n \in {"delete", "query"}, i \in 1..oColumns :
             LET z == [p EXCEPT !.usedKeys = u, !.next = n, !.column = i]
             IN  z \in Cleanup /\ z.listed = p.listed /\ z.usedKeys = u /\ z.next = n
                 /\ z.column = i
      BY <2>2
    <3>2. p.usedKeys \union found \in SUBSET oKeys
      BY <2>2, <2>3
    <3>3. (IF p.column = oColumns THEN p.column ELSE p.column + 1) \in 1..oColumns
      BY <2>2
    <3> QED
      BY <2>4, <3>1, <3>2, <3>3
  <2>6. oCleanup' = [oCleanup EXCEPT ![c] = q]
    BY <1>8, <2>1, <2>3, <2>4 DEF Uploads!Query
  <2>7. ASSUME NEW k \in q.listed \ oLate
        PROVE  /\ q.next = "query" => \A i \in oRefs[k] : i < q.column => k \in q.usedKeys
               /\ q.next = "delete" => (oRefs[k] # {} => k \in q.usedKeys)
    <3>1. /\ k \in oKeys
          /\ \A i \in oRefs[k] : i \in 1..oColumns
          /\ \A i \in oRefs[k] : i < p.column => k \in p.usedKeys
      BY <2>1, <2>2, <2>5, <2>7 DEF CleanupKnows
    <3>2. \A i \in oRefs[k] : i <= p.column => k \in q.usedKeys
      BY <2>2, <2>3, <2>5, <3>1
    <3> QED
      BY <2>2, <2>5, <3>1, <3>2
  <2> QED
    BY <1>4, <1>8, <2>5, <2>6, <2>7 DEF Uploads!Query
<1>9. ASSUME NEW c \in oCleanups, Uploads!DeleteOrphans(c) PROVE OInv'
  <2>1. oObjects' \in SUBSET oKeys /\ UNCHANGED <<oUploaded, oRefs, oLate>>
    BY <1>9 DEF Uploads!DeleteOrphans
  <2>2. \A k \in oObjects \ oObjects' : oRefs[k] # {} => k \in oLate
    BY <1>9 DEF Uploads!DeleteOrphans, CleanupKnows
  <2> QED
    BY <1>4, <1>5, <1>9, <2>1, <2>2 DEF Uploads!DeleteOrphans
<1>10. ASSUME NEW c \in oCleanups, Uploads!CleanupFails(c) PROVE OInv'
  BY <1>4, <1>5, <1>10 DEF Uploads!CleanupFails
<1>11. CASE UNCHANGED Uploads!vars
  BY <1>11 DEF Uploads!vars, Uploads!UsedIsStored, CleanupKnows
<1> QED
  BY <1>1, <1>2, <1>3, <1>6, <1>7, <1>8, <1>9, <1>10, <1>11 DEF Uploads!Next

LEMMA OInvariance == Uploads!Spec => []OInv
BY OInit, OStep, PTL DEF Uploads!Spec
-----------------------------------------------------------------------------
(***************************************************************************)
(* The notifications.  Whether or not the user is there, a notification    *)
(* that is not in the list and was not lost is on its way to it: as a      *)
(* message, in an answer, or with a deletion.                              *)
(***************************************************************************)

OnItsWay(n) ==
    \/ n \in nPublishing \union nFrames
    \/ \E c \in nCalls : c.op = "delete" /\ n \in c.ids
    \/ \E f \in nFetches : nFetch[f].at = "answered" /\ nFetch[f].list[n] # "absent"

Missing(n) == /\ nRows[n] \in {"unread", "read"}
              /\ nList[n] = "absent"
              /\ n \notin nLost

NInv == /\ Notifications!TypeOK
        /\ \A n \in nIds : Missing(n) => OnItsWay(n)

LEMMA NInit == Notifications!Init => NInv
<1> SUFFICES ASSUME Notifications!Init PROVE NInv
  OBVIOUS
<1>1. Notifications!Nothing \in Notifications!Answers
  BY DEF Notifications!Nothing, Notifications!Answers
<1>2. Notifications!TypeOK
  BY <1>1 DEF Notifications!Init, Notifications!NoFetch, Notifications!TypeOK
<1> QED
  BY <1>2 DEF Notifications!Init, NInv, Missing

(* The backend's steps. *)
LEMMA NBackend ==
    ASSUME NInv,
           \/ \E n \in nIds : Notifications!create_notification(n)
           \/ \E f \in nFetches : Notifications!get_notifications(f)
           \/ \E c \in nCalls : Notifications!mark_read(c) \/ Notifications!delete_notification(c)
    PROVE  NInv'
<1> USE DEF NInv, Notifications!TypeOK, Notifications!Answers, Notifications!server,
            Notifications!client, Missing, OnItsWay
<1>1. ASSUME NEW n \in nIds, Notifications!Create(n) PROVE NInv'
  BY <1>1 DEF Notifications!Create
<1>2. ASSUME NEW n \in nIds, Notifications!Publish(n) PROVE NInv'
  BY <1>2 DEF Notifications!Publish
<1>3. ASSUME NEW n \in nIds, Notifications!PublishFails(n) PROVE NInv'
  BY <1>3 DEF Notifications!PublishFails
<1>4. ASSUME NEW f \in nFetches, Notifications!get_notifications(f) PROVE NInv'
  <2>1. PICK a \in [nIds -> {"absent", "unread", "read"}] :
           /\ nFetch[f].at = "asked"
           /\ nFetch' = [nFetch EXCEPT ![f] = [at |-> "answered", list |-> a]]
           /\ \A n \in nIds : n \in nLost \ nLost' => a[n] # "absent" \/ ~Notifications!There(n)
           /\ nLost' \in SUBSET nIds
           /\ UNCHANGED <<nRows, nPublishing, nFrames, nSession, nSocket, nCalls, nList>>
    <3>1. CASE Notifications!Read(f)
      <4>1. [n \in nIds |-> IF Notifications!There(n) THEN nRows[n] ELSE "absent"]
               \in [nIds -> {"absent", "unread", "read"}]
        BY DEF Notifications!There
      <4> QED
        BY <3>1, <4>1 DEF Notifications!Read
    <3>2. CASE /\ nFetch[f].at = "asked"
               /\ nFetch' = [nFetch EXCEPT ![f] = [at |-> "answered",
                                                  list |-> Notifications!Nothing]]
               /\ UNCHANGED <<nRows, nPublishing, nFrames, nSession, nSocket, nCalls, nList, nLost>>
      <4>1. Notifications!Nothing \in [nIds -> {"absent", "unread", "read"}]
        BY DEF Notifications!Nothing
      <4> QED
        BY <3>2, <4>1
    <3> QED
      BY <1>4, <3>1, <3>2 DEF Notifications!get_notifications
  <2>2. Notifications!TypeOK'
    BY <2>1
  <2>3. ASSUME NEW n \in nIds, Missing(n)' PROVE OnItsWay(n)'
    <3>1. nFetch'[f] = [at |-> "answered", list |-> a]
      BY <2>1
    <3>2. CASE a[n] # "absent"
      BY <2>1, <3>1, <3>2
    <3>3. CASE Missing(n)
      <4>1. \A g \in nFetches : nFetch[g].at = "answered" => nFetch'[g] = nFetch[g]
        BY <2>1
      <4> QED
        BY <2>1, <3>3, <4>1
    <3> QED
      BY <2>1, <2>3, <3>2, <3>3 DEF Notifications!There
  <2> QED
    BY <2>2, <2>3
<1>5. ASSUME NEW c \in nCalls, Notifications!Handle(c) PROVE NInv'
  BY <1>5 DEF Notifications!Handle, Notifications!There, Notifications!Call
<1>6. ASSUME NEW c \in nCalls, Notifications!CallFails(c) PROVE NInv'
  BY <1>6 DEF Notifications!CallFails, Notifications!Call
<1> QED
  BY <1>1, <1>2, <1>3, <1>4, <1>5, <1>6
     DEF Notifications!create_notification, Notifications!mark_read,
         Notifications!delete_notification

(* The client's steps. *)
LEMMA NClient ==
    ASSUME NInv,
           \/ \E n \in nIds : Notifications!OnMessage(n) \/ Notifications!Delete(n)
           \/ \E f \in nFetches : \/ Notifications!Poll(f) \/ Notifications!Merge(f)
                                  \/ Notifications!FetchFails(f)
           \/ \E ids \in SUBSET nIds \ {{}} : Notifications!MarkRead(ids)
           \/ Notifications!Login \/ Notifications!Logout \/ Notifications!Open
           \/ Notifications!Subscribed \/ Notifications!Close
    PROVE  NInv'
<1> USE DEF NInv, Notifications!TypeOK, Notifications!Answers, Notifications!server,
            Notifications!client, Missing, OnItsWay
<1>1. ASSUME NEW n \in nIds, Notifications!OnMessage(n) PROVE NInv'
  BY <1>1 DEF Notifications!OnMessage
<1>2. ASSUME NEW n \in nIds, Notifications!Delete(n) PROVE NInv'
  <2>1. PICK call : call = [op |-> "delete", ids |-> {n}]
    OBVIOUS
  <2>2. call \in Notifications!Call /\ call.op = "delete" /\ n \in call.ids
    BY <2>1 DEF Notifications!Call
  <2>3. /\ nCalls' = nCalls \union {call}
        /\ nList' = [nList EXCEPT ![n] = "absent"]
        /\ UNCHANGED <<nRows, nPublishing, nFrames, nSession, nSocket, nFetch, nLost>>
    BY <1>2, <2>1 DEF Notifications!Delete
  <2>4. Notifications!TypeOK'
    BY <2>2, <2>3
  <2>5. ASSUME NEW m \in nIds, Missing(m)' PROVE OnItsWay(m)'
    BY <2>2, <2>3, <2>5
  <2> QED
    BY <2>4, <2>5
(* A fetch is started: it has answered nothing yet. *)
<1>3. ASSUME NEW f \in nFetches, nFetch[f].at = "idle",
             nFetch' = [nFetch EXCEPT ![f].at = "asked"], nSession' \in BOOLEAN,
             UNCHANGED <<nRows, nPublishing, nFrames, nSocket, nCalls, nList, nLost>>
      PROVE  NInv'
  BY <1>3
<1>4. ASSUME NEW f \in nFetches, Notifications!Poll(f) PROVE NInv'
  BY <1>3, <1>4 DEF Notifications!Poll
<1>5. ASSUME NEW f \in nFetches, Notifications!Merge(f) PROVE NInv'
  BY <1>5 DEF Notifications!Merge, Notifications!NoFetch, Notifications!Nothing
<1>6. ASSUME NEW f \in nFetches, Notifications!FetchFails(f) PROVE NInv'
  BY <1>6 DEF Notifications!FetchFails, Notifications!NoFetch, Notifications!Nothing
<1>7. ASSUME NEW ids \in SUBSET nIds, Notifications!MarkRead(ids) PROVE NInv'
  BY <1>7 DEF Notifications!MarkRead, Notifications!Call
<1>8. CASE Notifications!Login
  BY <1>3, <1>8 DEF Notifications!Login
<1>9. CASE Notifications!Logout
  BY <1>9 DEF Notifications!Logout, Notifications!Nothing
<1>10. CASE Notifications!Open \/ Notifications!Subscribed
  BY <1>10 DEF Notifications!Open, Notifications!Subscribed
<1>11. CASE Notifications!Close
  BY <1>11 DEF Notifications!Close
<1> QED
  BY <1>1, <1>2, <1>4, <1>5, <1>6, <1>7, <1>8, <1>9, <1>10, <1>11

LEMMA NStep == NInv /\ [Notifications!BothNext]_Notifications!vars => NInv'
<1>1. CASE UNCHANGED Notifications!vars
  BY <1>1 DEF Notifications!vars, Notifications!server, Notifications!client, NInv,
              Notifications!TypeOK, Missing, OnItsWay
<1> QED
  BY <1>1, NBackend, NClient DEF Notifications!BothNext

LEMMA NInvariance == Notifications!BothSpec => []NInv
BY NInit, NStep, PTL DEF Notifications!BothSpec

(* With nothing under way, what is missing was lost. *)
LEMMA NNothingElseMissed == NInv => Notifications!NothingElseMissed
BY DEF NInv, Missing, OnItsWay, Notifications!NothingElseMissed, Notifications!There,
       Notifications!NoFetch

(* Who writes the list keeps what is read. *)
LEMMA NReadStays ==
    ASSUME NInv, Notifications!BothNext, NEW n \in nIds, nList[n] = "read"
    PROVE  nList'[n] # "unread"
<1> USE DEF NInv, Notifications!TypeOK, Notifications!Answers
<1>1. ASSUME NEW m \in nIds, Notifications!OnMessage(m) PROVE nList'[n] # "unread"
  BY <1>1 DEF Notifications!OnMessage
<1>2. ASSUME NEW m \in nIds, Notifications!Delete(m) PROVE nList'[n] # "unread"
  BY <1>2 DEF Notifications!Delete
<1>3. ASSUME NEW f \in nFetches, Notifications!Merge(f) PROVE nList'[n] # "unread"
  BY <1>3 DEF Notifications!Merge
<1>4. ASSUME NEW ids \in SUBSET nIds, Notifications!MarkRead(ids) PROVE nList'[n] # "unread"
  BY <1>4 DEF Notifications!MarkRead
<1>5. CASE Notifications!Logout
  BY <1>5 DEF Notifications!Logout, Notifications!Nothing
<1>6. CASE UNCHANGED nList
  BY <1>6
<1>7. ASSUME NEW m \in nIds, Notifications!create_notification(m) PROVE UNCHANGED nList
  BY <1>7 DEF Notifications!create_notification, Notifications!Create, Notifications!Publish,
              Notifications!PublishFails, Notifications!client
<1>8. ASSUME NEW f \in nFetches, Notifications!get_notifications(f) PROVE UNCHANGED nList
  BY <1>8 DEF Notifications!get_notifications, Notifications!Read
<1>9. ASSUME NEW f \in nFetches, Notifications!Poll(f) \/ Notifications!FetchFails(f)
      PROVE  UNCHANGED nList
  BY <1>9 DEF Notifications!Poll, Notifications!FetchFails
<1>10. ASSUME NEW c \in nCalls, Notifications!mark_read(c) \/ Notifications!delete_notification(c)
       PROVE  UNCHANGED nList
  BY <1>10 DEF Notifications!mark_read, Notifications!delete_notification,
               Notifications!Handle, Notifications!CallFails
<1>11. CASE Notifications!Login \/ Notifications!Open \/ Notifications!Subscribed \/ Notifications!Close
  BY <1>6, <1>11 DEF Notifications!Login, Notifications!Open, Notifications!Subscribed,
                     Notifications!Close
<1> QED
  BY <1>1, <1>2, <1>3, <1>4, <1>5, <1>6, <1>7, <1>8, <1>9, <1>10, <1>11
     DEF Notifications!BothNext
-----------------------------------------------------------------------------
(***************************************************************************)
(* Channel access.  Until two saves overlap, the rows are those of the     *)
(* last save, one transaction at most is between its DELETE and its end,   *)
(* and the rows it is about to replace are the rows there are.             *)
(***************************************************************************)

AInv == /\ Access!TypeOK
        /\ ~aOverlapped =>
              /\ aPerms = aSaved
              /\ \A r \in Access!InTransaction :
                    Access!InTransaction = {r} /\ aReq[r].doomed = aPerms

AReq == [next : {"idle", "delete", "insert"}, named : BOOLEAN,
         list : Access!Lists, doomed : SUBSET Access!Perm]

LEMMA AIdle == /\ Access!Idle \in AReq
               /\ Access!Idle.next = "idle"
BY DEF Access!Idle, AReq, Access!Lists

LEMMA AInit == Access!Init => AInv
<1> SUFFICES ASSUME Access!Init PROVE AInv
  OBVIOUS
<1>1. Access!TypeOK
  BY AIdle, PartsAssumption
     DEF Access!AccessAssumption, Access!Init, Access!TypeOK, AReq
<1>2. Access!InTransaction = {} /\ aPerms = aSaved
  BY AIdle DEF Access!Init, Access!InTransaction
<1> QED
  BY <1>1, <1>2 DEF AInv

(* A save starts, or ends without a trace. *)
LEMMA AOutside ==
    ASSUME NEW r \in aReqs, NEW q \in AReq, q.next # "insert", AInv,
           aReq' = [aReq EXCEPT ![r] = q], aServed' \in Nat,
           UNCHANGED <<aMembers, aMuted, aHeld, aPerms, aSaved, aOverlapped>>
    PROVE  AInv'
<1>1. Access!TypeOK'
  BY DEF AInv, Access!TypeOK, AReq
<1>2. /\ Access!InTransaction' = Access!InTransaction \ {r}
      /\ \A s \in Access!InTransaction \ {r} : aReq'[s] = aReq[s]
  BY DEF AInv, Access!TypeOK, Access!InTransaction
<1> QED
  BY <1>1, <1>2 DEF AInv

LEMMA ASaveStart == ASSUME NEW r \in aReqs, AInv, Access!SaveStart(r) PROVE AInv'
<1>1. PICK list \in Access!Lists, named \in BOOLEAN :
         aReq' = [aReq EXCEPT ![r] = [Access!Idle EXCEPT !.next = "delete", !.named = named,
                                                         !.list = list]]
  BY DEF Access!SaveStart
<1>2. PICK q : q = [Access!Idle EXCEPT !.next = "delete", !.named = named, !.list = list]
  OBVIOUS
<1>3. q = [next |-> "delete", named |-> named, list |-> list, doomed |-> {}]
  BY <1>2 DEF Access!Idle
<1>4. q \in AReq /\ q.next = "delete"
  BY <1>3 DEF AReq
<1>5. aServed' \in Nat
  BY DEF Access!SaveStart, AInv, Access!TypeOK
<1> QED
  BY <1>1, <1>2, <1>4, <1>5, AOutside DEF Access!SaveStart, Access!people

LEMMA AFail == ASSUME NEW r \in aReqs, AInv, Access!Fail(r) PROVE AInv'
<1>1. aServed' \in Nat
  BY DEF Access!Fail, AInv, Access!TypeOK
<1> QED
  BY <1>1, AIdle, AOutside DEF Access!Fail, Access!people

LEMMA ASaveDelete == ASSUME NEW r \in aReqs, AInv, Access!SaveDelete(r) PROVE AInv'
<1>1. PICK q : q = [aReq[r] EXCEPT !.next = "insert", !.doomed = aPerms]
  OBVIOUS
<1>2. aReq[r] \in AReq /\ aPerms \in SUBSET Access!Perm
  BY DEF AInv, Access!TypeOK, AReq, Access!Lists
<1>3. q \in AReq /\ q.next = "insert" /\ q.doomed = aPerms
  BY <1>1, <1>2 DEF AReq
<1>4. aReq' = [aReq EXCEPT ![r] = q]
  BY <1>1 DEF Access!SaveDelete
<1>5. /\ UNCHANGED <<aMembers, aMuted, aHeld, aPerms, aServed, aSaved>>
      /\ aOverlapped' = (aOverlapped \/ Access!InTransaction # {})
  BY DEF Access!SaveDelete, Access!people
<1>6. Access!TypeOK'
  BY <1>3, <1>4, <1>5 DEF AInv, Access!TypeOK, AReq
<1>7. Access!InTransaction' = Access!InTransaction \union {r} /\ aReq'[r] = q
  BY <1>3, <1>4 DEF AInv, Access!TypeOK, Access!InTransaction
<1> QED
  BY <1>3, <1>5, <1>6, <1>7 DEF AInv

(* The rows that stay and the list that comes have a row for a role. *)
LEMMA ASaveInsert == ASSUME NEW r \in aReqs, AInv, Access!SaveInsert(r) PROVE AInv'
<1> DEFINE list == aReq[r].list
           gone == aReq[r].doomed
           kept == aPerms \ gone
           clash == \E p \in list, q \in kept : p.role = q.role
<1>1. /\ aReq[r] \in AReq /\ list \in Access!Lists /\ gone \in SUBSET Access!Perm
      /\ aPerms \in Access!Lists
  BY DEF AInv, Access!TypeOK, AReq
<1>2. CASE clash
  <2>1. aReq' = [aReq EXCEPT ![r] = Access!Idle]
        /\ UNCHANGED <<aMembers, aMuted, aHeld, aPerms, aServed, aSaved, aOverlapped>>
    BY <1>2 DEF Access!SaveInsert, Access!people
  <2> QED
    BY <2>1, AIdle, AOutside DEF AInv, Access!TypeOK
<1>3. CASE ~clash
  <2>1. /\ aReq' = [s \in aReqs |-> IF s = r THEN Access!Idle
                                   ELSE [aReq[s] EXCEPT !.doomed = @ \ gone]]
        /\ aPerms' = kept \union list
        /\ aSaved' = list
        /\ UNCHANGED <<aMembers, aMuted, aHeld, aServed, aOverlapped>>
        /\ r \in Access!InTransaction
    BY <1>3 DEF Access!SaveInsert, Access!people, Access!InTransaction
  <2>2. aPerms' \in Access!Lists
    <3>1. kept \union list \in SUBSET Access!Perm
      BY <1>1 DEF Access!Lists
    <3>2. \A p, q \in kept \union list : p.role = q.role => p = q
      BY <1>1, <1>3 DEF Access!Lists
    <3> QED
      BY <2>1, <3>1, <3>2 DEF Access!Lists
  <2>3. ASSUME NEW s \in aReqs, s # r
        PROVE  aReq'[s] \in AReq /\ aReq'[s].next = aReq[s].next
    <3>1. aReq[s] \in AReq /\ aReq'[s] = [aReq[s] EXCEPT !.doomed = @ \ gone]
      BY <2>1, <2>3 DEF AInv, Access!TypeOK, AReq
    <3> QED
      BY <3>1 DEF AReq
  <2>4. aReq' \in [aReqs -> AReq]
    BY <2>1, <2>3, AIdle
  <2>5. Access!TypeOK'
    BY <1>1, <2>1, <2>2, <2>4 DEF AInv, Access!TypeOK, AReq
  <2>6. Access!InTransaction' = Access!InTransaction \ {r}
    BY <2>1, <2>3, AIdle DEF Access!InTransaction
  <2>7. ~aOverlapped => kept = {} /\ Access!InTransaction' = {}
    BY <2>1, <2>6 DEF AInv
  <2> QED
    BY <2>1, <2>5, <2>7 DEF AInv
<1> QED
  BY <1>2, <1>3

LEMMA AStep == AInv /\ [Access!BothNext]_Access!vars => AInv'
<1> SUFFICES ASSUME AInv, [Access!BothNext]_Access!vars PROVE AInv'
  OBVIOUS
<1>1. CASE Access!Change
  <2>1. /\ aMembers' \in SUBSET aUsers /\ aMuted' \in SUBSET aUsers
        /\ aHeld' \in [aUsers -> SUBSET aRoleIds]
    BY <1>1 DEF Access!Change, AInv, Access!TypeOK
  <2> QED
    BY <1>1, <2>1 DEF Access!Change, AInv, Access!TypeOK, Access!InTransaction
<1>2. CASE UNCHANGED Access!vars
  BY <1>2 DEF Access!vars, Access!people, AInv, Access!TypeOK, Access!InTransaction
<1> QED
  BY <1>1, <1>2, ASaveStart, ASaveDelete, ASaveInsert, AFail
     DEF Access!BothNext, Access!update_channel

LEMMA AInvariance == Access!BothSpec => []AInv
BY AInit, AStep, PTL DEF Access!BothSpec

(* The places in the code compute one answer, in both services. *)
LEMMA AOneAnswer == Access!OneAnswer
BY DEF Access!OneAnswer, Access!allowed, Access!canSend, Access!canView, Access!canSendMessages,
       Access!ShownBeside, Access!Notified, Access!MayRead, Access!MayPost

LEMMA ASameInRust == Access!SameInRust
<1> USE DEF Access!is_owner, Access!is_admin, Access!is_open, Access!canView,
            Access!canSendMessages, Access!ShownBeside, Access!MayPost
<1> SUFFICES ASSUME NEW u \in aUsers
             PROVE  /\ \A known \in BOOLEAN :
                          /\ Access!rust_can_view(u, known, {}) <=> (known => Access!canView(u, known))
                          /\ Access!rust_can_send_messages(u, known, {}) <=>
                                (known => Access!canSendMessages(u, known))
                    /\ Access!rust_shown_beside(u, {}) <=> Access!ShownBeside(u)
                    /\ Access!rust_may_read(u, {}) <=> Access!MayRead(u)
                    /\ Access!rust_may_post(u, {}) <=> Access!MayPost(u)
                    /\ Access!Notified(u) => Access!rust_notified(u)
                    /\ \A X \in Access!Failed :
                          /\ \/ "restricted" \in X
                             \/ /\ Access!rust_can_view(u, TRUE, X) => Access!canView(u, TRUE)
                                /\ Access!rust_can_send_messages(u, TRUE, X) =>
                                      Access!canSendMessages(u, TRUE)
                          /\ Access!rust_shown_beside(u, X) => Access!ShownBeside(u) \/ "rows" \in X
                          /\ Access!rust_may_post(u, X) => Access!MayPost(u)
  BY DEF Access!SameInRust
<1>1. ASSUME NEW known \in BOOLEAN
      PROVE  Access!rust_can_view(u, known, {}) <=> (known => Access!canView(u, known))
  BY DEF Access!rust_can_view
<1>2. ASSUME NEW known \in BOOLEAN
      PROVE  Access!rust_can_send_messages(u, known, {}) <=> (known => Access!canSendMessages(u, known))
  BY <1>1 DEF Access!rust_can_send_messages
<1>3. Access!rust_shown_beside(u, {}) <=> Access!ShownBeside(u)
  BY DEF Access!rust_shown_beside
<1>4. Access!rust_may_read(u, {}) <=> Access!MayRead(u)
  BY DEF Access!rust_may_read
<1>5. Access!rust_may_post(u, {}) <=> Access!MayPost(u)
  BY DEF Access!rust_may_post
<1>6. Access!Notified(u) => Access!rust_notified(u)
  BY DEF Access!Notified, Access!rust_notified
<1>7. ASSUME NEW X \in Access!Failed
      PROVE  /\ \/ "restricted" \in X
                \/ /\ Access!rust_can_view(u, TRUE, X) => Access!canView(u, TRUE)
                   /\ Access!rust_can_send_messages(u, TRUE, X) => Access!canSendMessages(u, TRUE)
             /\ Access!rust_shown_beside(u, X) => Access!ShownBeside(u) \/ "rows" \in X
             /\ Access!rust_may_post(u, X) => Access!MayPost(u)
  BY DEF Access!rust_can_view, Access!rust_can_send_messages, Access!rust_shown_beside,
         Access!rust_may_post
<1> QED
  BY <1>1, <1>2, <1>3, <1>4, <1>5, <1>6, <1>7

LEMMA AAccessInBoth == AInv => Access!AccessInBoth
BY AOneAnswer, ASameInRust
   DEF AInv, Access!AccessInBoth, Access!AccessAsSaved, Access!LastSaveStands
-----------------------------------------------------------------------------
(***************************************************************************)
(* Roles: the routes of servers.ts, for any members, roles and handlers.   *)
(***************************************************************************)
(***************************************************************************)
(* The argument: what a handler has read may be stale, but what the owner  *)
(* released only grows and the highest position they gave only rises, so   *)
(* what bounded a caller when their context was read bounds what they      *)
(* write later (RWithin).  The Owner role's row never changes, and with it *)
(* the look at names keeps it out of what handlers write (RAimed).         *)
(***************************************************************************)
RAimed(q) == /\ q.kind = "patch" /\ q.next = "update" => q.role # rOwnerRole
             /\ q.next \in {"delete", "commit"} => rOwnerRole \notin q.set
             /\ q.kind = "login" => rOwnerRole \notin q.set

RManages(q) == q.kind \in {"create", "patch", "assign"}

RWithin(q) == rCeiling > 0 /\ RManages(q) /\ ~q.owner => /\ q.flags \subseteq rReleased
                                                         /\ q.top >= rCeiling

RFirstRows == /\ rRoles[rOwnerRole].live
              /\ rRoles[rOwnerRole].name = "Owner"
              /\ rRoles[rOwnerRole].pos = 0
              /\ rRoles[rMemberRole].live

RInv == /\ Roles!TypeOK
         /\ RFirstRows
         /\ Roles!NoEscalation
         /\ Roles!RolesOfMembers
         /\ \A r \in rReqs : RAimed(rReq[r]) /\ RWithin(rReq[r])

LEMMA RIdleOk == ASSUME Roles!RolesAssumption PROVE Roles!Idle \in Roles!Handler /\ RAimed(Roles!Idle)
  BY SMT DEF Roles!RolesAssumption, Roles!Idle, Roles!Handler, Roles!NoTop, RAimed

LEMMA RIdleWithin == RWithin(Roles!Idle)
  BY DEF Roles!Idle, RWithin, RManages

LEMMA RInit == ASSUME Roles!RolesAssumption, Roles!Init PROVE RInv
<1>1. \A x \in rRoleIds : Roles!FirstRow(x) \in Roles!Row
  BY DEF Roles!RolesAssumption, Roles!FirstRow, Roles!Row, Roles!Names
<1>2. Roles!TypeOK
  <2>1. rRoles \in [rRoleIds -> Roles!Row]
    BY <1>1 DEF Roles!Init
  <2>2. rReq \in [rReqs -> Roles!Handler]
    BY RIdleOk DEF Roles!Init
  <2>3. rHeld \in [rUsers -> SUBSET rRoleIds]
    BY DEF Roles!Init, Roles!RolesAssumption
  <2> QED
    BY <2>1, <2>2, <2>3 DEF Roles!Init, Roles!TypeOK, Roles!RolesAssumption
<1>3. RFirstRows
  BY DEF Roles!Init, Roles!RolesAssumption, Roles!FirstRow, RFirstRows
<1>4. Roles!NoEscalation
  <2>1. \A x \in rRoleIds \ {rOwnerRole} : rRoles[x].flags = {} /\ rRoles[x].pos = 1
    BY DEF Roles!Init, Roles!FirstRow
  <2>2. \A u \in Roles!Others : rHeld[u] = {}
    BY DEF Roles!Init, Roles!Others
  <2> QED
    BY <2>1, <2>2 DEF Roles!Init, Roles!NoEscalation
<1>5. Roles!RolesOfMembers
  BY DEF Roles!Init, Roles!RolesOfMembers, Roles!Others
<1>6. \A r \in rReqs : RAimed(rReq[r]) /\ RWithin(rReq[r])
  BY RIdleOk, RIdleWithin DEF Roles!Init
<1> QED
  BY <1>2, <1>3, <1>4, <1>5, <1>6 DEF RInv
-----------------------------------------------------------------------------
(* What carries over a step. *)

RGrows == rReleased \subseteq rReleased' /\ rCeiling' <= rCeiling

LEMMA RWithinStays == ASSUME Roles!TypeOK, Roles!TypeOK', RGrows, NEW q \in Roles!Handler, RWithin(q)
                      PROVE  RWithin(q)'
<1> SUFFICES ASSUME rCeiling' > 0, RManages(q), ~q.owner
             PROVE  q.flags \subseteq rReleased' /\ q.top >= rCeiling'
  BY DEF RWithin, RManages
<1>1. rCeiling \in Int /\ rCeiling' \in Int /\ q.top \in Int
  BY DEF Roles!TypeOK, Roles!Handler
<1>2. rCeiling > 0
  BY <1>1 DEF RGrows
<1>3. q.flags \subseteq rReleased /\ q.top >= rCeiling
  BY <1>2 DEF RWithin
<1> QED
  BY <1>1, <1>3 DEF RGrows

(* The same handler, but for the rows its DELETE is about. *)
RSame(p, q) == /\ p.kind = q.kind /\ p.next = q.next /\ p.owner = q.owner /\ p.flags = q.flags
               /\ p.top = q.top /\ p.user = q.user /\ p.role = q.role /\ p.set = q.set

LEMMA RSameOk == ASSUME NEW p, NEW q, RSame(p, q), RAimed(q), RWithin(q)
                 PROVE  RAimed(p) /\ RWithin(p)
  BY DEF RSame, RAimed, RWithin, RManages

(* Handler r goes to x; of the others only the rows to delete change. *)
LEMMA RAnyStep ==
    ASSUME RInv, Roles!TypeOK', RFirstRows', Roles!NoEscalation', Roles!RolesOfMembers', RGrows,
           NEW r \in rReqs, NEW x \in Roles!Handler, RAimed(x), RWithin(x)', rReq'[r] = x,
           \A s \in rReqs \ {r} : RSame(rReq'[s], rReq[s])
    PROVE  RInv'
<1>1. ASSUME NEW s \in rReqs PROVE RAimed(rReq'[s]) /\ RWithin(rReq[s])'
  <2>1. CASE s = r
    BY <2>1
  <2>2. CASE s # r
    <3>1. PICK q \in Roles!Handler : q = rReq[s]
      BY DEF RInv, Roles!TypeOK
    <3>2. RAimed(q) /\ RWithin(q)
      BY <3>1 DEF RInv
    <3>3. RWithin(q)'
      BY <3>1, <3>2, RWithinStays DEF RInv
    <3>4. PICK p : p = rReq'[s]
      OBVIOUS
    <3>5. RSame(p, q)
      BY <2>2, <3>1, <3>4
    <3>6. RAimed(p) /\ RWithin(p)'
      BY <3>2, <3>3, <3>5 DEF RSame, RAimed, RWithin, RManages
    <3> QED
      BY <3>4, <3>6
  <2> QED
    BY <2>1, <2>2
<1>2. \A s \in rReqs : RAimed(rReq[s])' /\ RWithin(rReq[s])'
  BY <1>1 DEF RAimed
<1> QED
  BY <1>2 DEF RInv

(* A kick half way is still half way. *)
RKicksStay == \A s \in rReqs : Roles!At(s, "kick", "roles") => Roles!At(s, "kick", "roles")'
                                                              /\ rReq'[s].user = rReq[s].user

LEMMA RStrayStays ==
    ASSUME Roles!RolesOfMembers, RKicksStay, rStray \subseteq rStray', rMembers \subseteq rMembers',
           NEW u \in Roles!Others, rHeld'[u] = rHeld[u]
    PROVE  u \in rMembers' \/ rHeld'[u] = {} \/ u \in rStray'
           \/ \E r \in rReqs : Roles!At(r, "kick", "roles")' /\ rReq'[r].user = u
<1>1. CASE \E r \in rReqs : Roles!At(r, "kick", "roles") /\ rReq[r].user = u
  BY <1>1 DEF RKicksStay
<1>2. CASE u \in rMembers \/ rHeld[u] = {} \/ u \in rStray
  BY <1>2
<1> QED
  BY <1>1, <1>2 DEF Roles!RolesOfMembers

(* Handler r moves and only it. *)
LEMMA RQuietStep ==
    ASSUME RInv, NEW r \in rReqs, NEW x \in Roles!Handler, RAimed(x), RWithin(x),
           rReq' = [rReq EXCEPT ![r] = x], ~Roles!At(r, "kick", "roles"),
           UNCHANGED <<rMembers, rRoles, rHeld, Roles!history>>, rServed' \in Nat
    PROVE  RInv'
<1>1. Roles!TypeOK'
  BY DEF RInv, Roles!TypeOK, Roles!history
<1>2. RFirstRows' /\ Roles!NoEscalation'
  BY DEF RInv, RFirstRows, Roles!NoEscalation, Roles!history
<1>3. \A s \in rReqs : rReq'[s] = IF s = r THEN x ELSE rReq[s]
  BY DEF RInv, Roles!TypeOK
<1>4. RKicksStay
  BY <1>3 DEF RKicksStay, Roles!At
<1>5. Roles!RolesOfMembers'
  BY <1>4, RStrayStays DEF RInv, Roles!RolesOfMembers, Roles!history
<1>6. RGrows /\ RWithin(x)'
  BY DEF RInv, Roles!TypeOK, RGrows, RWithin, Roles!history
<1>7. \A s \in rReqs \ {r} : RSame(rReq'[s], rReq[s])
  BY <1>3 DEF RSame
<1> QED
  BY <1>1, <1>2, <1>3, <1>5, <1>6, <1>7, RAnyStep
-----------------------------------------------------------------------------
(* Steps that move a handler and nothing else. *)

LEMMA RTopBound ==
    ASSUME Roles!RolesAssumption, Roles!TypeOK, Roles!NoEscalation, NEW u \in Roles!Others, rCeiling > 0,
           NEW t \in 0..Roles!NoTop, Roles!IsTop(u, t)
    PROVE  Roles!FlagsOf(u) \subseteq rReleased /\ t >= rCeiling
<1>1. rHeld[u] \subseteq rRoleIds \ {rOwnerRole}
  BY DEF Roles!TypeOK, Roles!NoEscalation, Roles!Others
<1>2. \A x \in rHeld[u] : rRoles[x].flags \subseteq rReleased /\ rRoles[x].pos >= rCeiling
  BY <1>1 DEF Roles!NoEscalation
<1>3. Roles!FlagsOf(u) \subseteq rReleased
  BY <1>2 DEF Roles!FlagsOf
<1>4. t >= rCeiling
  BY <1>2 DEF Roles!IsTop, Roles!NoTop, Roles!TypeOK, Roles!RolesAssumption
<1> QED
  BY <1>3, <1>4

LEMMA RContextStep ==
    ASSUME Roles!RolesAssumption, RInv, NEW r \in rReqs, NEW u \in rUsers,
           NEW kind \in {"create", "patch", "assign"},
           Roles!getRoleManagementContext(r, u, kind, "row")
    PROVE  RInv'
<1>1. PICK t \in 0..Roles!NoTop :
        /\ Roles!IsTop(u, t)
        /\ rReq' = [rReq EXCEPT ![r] = [Roles!Idle EXCEPT !.kind = kind, !.next = "row",
                                                          !.owner = (u = rOwner),
                                                          !.flags = Roles!FlagsOf(u), !.top = t]]
  BY DEF Roles!getRoleManagementContext
<1> DEFINE x == [Roles!Idle EXCEPT !.kind = kind, !.next = "row", !.owner = (u = rOwner),
                                   !.flags = Roles!FlagsOf(u), !.top = t]
<1>2. Roles!FlagsOf(u) \subseteq rFlags
  BY DEF Roles!FlagsOf, RInv, Roles!TypeOK, Roles!Row
<1>3. (u = rOwner) \in BOOLEAN
  BY Zenon
<1>4. x \in Roles!Handler
  BY <1>2, <1>3, RIdleOk DEF Roles!Handler
<1>5. x.kind = kind /\ x.next = "row" /\ x.owner = (u = rOwner) /\ x.flags = Roles!FlagsOf(u) /\ x.top = t
  BY DEF Roles!Idle
<1>6. RAimed(x)
  BY <1>5 DEF RAimed
<1>7. RWithin(x)
  <2> SUFFICES ASSUME rCeiling > 0, u # rOwner
               PROVE  Roles!FlagsOf(u) \subseteq rReleased /\ t >= rCeiling
    BY <1>5 DEF RWithin
  <2> QED
    BY <1>1, RTopBound DEF RInv, Roles!Others
<1>8. rReq' = [rReq EXCEPT ![r] = x]
  BY <1>1
<1>9. /\ ~Roles!At(r, "kick", "roles")
      /\ UNCHANGED <<rMembers, rRoles, rHeld, Roles!history>>
      /\ rServed' \in Nat
  BY DEF Roles!getRoleManagementContext, Roles!At, Roles!Idle, RInv, Roles!TypeOK
<1> HIDE DEF x
<1> QED
  BY <1>4, <1>6, <1>7, <1>8, <1>9, RQuietStep

LEMMA RRemoveStartStep ==
    ASSUME Roles!RolesAssumption, RInv, NEW r \in rReqs, NEW u \in Roles!Others, Roles!RemoveStart(r, u)
    PROVE  RInv'
<1> DEFINE x == [Roles!Idle EXCEPT !.kind = "kick", !.next = "member", !.user = u]
<1>1. x \in Roles!Handler
  BY RIdleOk DEF Roles!Handler, Roles!Others
<1>2. x.kind = "kick" /\ x.next = "member"
  BY DEF Roles!Idle
<1>3. RAimed(x) /\ RWithin(x)
  BY <1>2 DEF RAimed, RWithin, RManages
<1>4. rReq' = [rReq EXCEPT ![r] = x]
  BY DEF Roles!RemoveStart
<1>5. /\ ~Roles!At(r, "kick", "roles")
      /\ UNCHANGED <<rMembers, rRoles, rHeld, Roles!history>>
      /\ rServed' \in Nat
  BY DEF Roles!RemoveStart, Roles!At, Roles!Idle, RInv, Roles!TypeOK
<1> HIDE DEF x
<1> QED
  BY <1>1, <1>3, <1>4, <1>5, RQuietStep

LEMMA RLoginStartStep ==
    ASSUME Roles!RolesAssumption, RInv, NEW r \in rReqs, NEW u \in rUsers, Roles!LoginStart(r, u)
    PROVE  RInv'
<1>1. PICK set \in SUBSET rRoleIds :
        /\ \A z \in set : rRoles[z].name = "Member"
        /\ rReq' = [rReq EXCEPT ![r] = [Roles!Idle EXCEPT !.kind = "login", !.next = "member",
                                                         !.user = u, !.set = set]]
  <2> DEFINE member == {z \in rRoleIds : rRoles[z].live /\ rRoles[z].name = "Member"}
  <2>1. PICK set \in IF member = {} THEN {{}} ELSE {{z} : z \in member} :
          rReq' = [rReq EXCEPT ![r] = [Roles!Idle EXCEPT !.kind = "login", !.next = "member",
                                                         !.user = u, !.set = set]]
    BY DEF Roles!LoginStart
  <2>2. set \in SUBSET rRoleIds /\ \A z \in set : rRoles[z].name = "Member"
    OBVIOUS
  <2> HIDE DEF Roles!Idle
  <2> QED
    BY <2>1, <2>2
<1> DEFINE x == [Roles!Idle EXCEPT !.kind = "login", !.next = "member", !.user = u, !.set = set]
<1>2. x \in Roles!Handler
  BY RIdleOk DEF Roles!Handler
<1>3. x.kind = "login" /\ x.next = "member" /\ x.set = set
  BY DEF Roles!Idle
<1>4. rOwnerRole \notin set
  BY <1>1 DEF RInv, RFirstRows
<1>5. RAimed(x) /\ RWithin(x)
  BY <1>3, <1>4 DEF RAimed, RWithin, RManages
<1>6. rReq' = [rReq EXCEPT ![r] = x]
  BY <1>1
<1>7. /\ ~Roles!At(r, "kick", "roles")
      /\ UNCHANGED <<rMembers, rRoles, rHeld, Roles!history>>
      /\ rServed' \in Nat
  BY DEF Roles!LoginStart, Roles!At, Roles!Idle, RInv, Roles!TypeOK
<1> HIDE DEF x
<1> QED
  BY <1>2, <1>5, <1>6, <1>7, RQuietStep

LEMMA RPatchRowStep ==
    ASSUME RInv, NEW r \in rReqs, Roles!PatchRow(r)
    PROVE  RInv'
<1>1. PICK q \in Roles!Handler : q = rReq[r]
  BY DEF RInv, Roles!TypeOK
<1>2. PICK z \in rRoleIds : /\ rRoles[z].name # "Owner"
                            /\ rReq' = [rReq EXCEPT ![r].next = "update", ![r].role = z]
  BY DEF Roles!PatchRow
<1> DEFINE x == [q EXCEPT !.next = "update", !.role = z]
<1>3. x \in Roles!Handler
  BY DEF Roles!Handler
<1>4. /\ x.kind = q.kind /\ q.kind # "login"
      /\ x.next = "update" /\ x.role = z /\ x.owner = q.owner
      /\ x.flags = q.flags /\ x.top = q.top
  BY <1>1 DEF Roles!Handler, Roles!PatchRow, Roles!At
<1>5. z # rOwnerRole
  BY <1>2 DEF RInv, RFirstRows
<1>6. RAimed(x) /\ RWithin(x)
  BY <1>1, <1>4, <1>5 DEF RInv, RAimed, RWithin, RManages
<1>7. rReq' = [rReq EXCEPT ![r] = x]
  BY <1>1, <1>2 DEF RInv, Roles!TypeOK
<1>8. /\ ~Roles!At(r, "kick", "roles")
      /\ UNCHANGED <<rMembers, rRoles, rHeld, Roles!history>>
      /\ rServed' \in Nat
  BY DEF Roles!PatchRow, Roles!At, RInv, Roles!TypeOK
<1> HIDE DEF x
<1> QED
  BY <1>3, <1>6, <1>7, <1>8, RQuietStep

LEMMA RAssignTargetStep ==
    ASSUME RInv, NEW r \in rReqs, Roles!AssignTarget(r)
    PROVE  RInv'
<1>1. PICK q \in Roles!Handler : q = rReq[r]
  BY DEF RInv, Roles!TypeOK
<1>2. PICK u \in Roles!Others : rReq' = [rReq EXCEPT ![r].next = "rows", ![r].user = u]
  BY DEF Roles!AssignTarget
<1> DEFINE x == [q EXCEPT !.next = "rows", !.user = u]
<1>3. x \in Roles!Handler
  BY DEF Roles!Handler, Roles!Others
<1>4. /\ x.kind = q.kind /\ q.kind # "login"
      /\ x.next = "rows" /\ x.owner = q.owner
      /\ x.flags = q.flags /\ x.top = q.top
  BY <1>1 DEF Roles!Handler, Roles!AssignTarget, Roles!At
<1>5. RAimed(x) /\ RWithin(x)
  BY <1>1, <1>4 DEF RInv, RAimed, RWithin, RManages
<1>6. rReq' = [rReq EXCEPT ![r] = x]
  BY <1>1, <1>2 DEF RInv, Roles!TypeOK
<1>7. /\ ~Roles!At(r, "kick", "roles")
      /\ UNCHANGED <<rMembers, rRoles, rHeld, Roles!history>>
      /\ rServed' \in Nat
  BY DEF Roles!AssignTarget, Roles!At, RInv, Roles!TypeOK
<1> HIDE DEF x
<1> QED
  BY <1>3, <1>5, <1>6, <1>7, RQuietStep

LEMMA RAssignRowsStep ==
    ASSUME RInv, NEW r \in rReqs, Roles!AssignRows(r)
    PROVE  RInv'
<1>1. PICK q \in Roles!Handler : q = rReq[r]
  BY DEF RInv, Roles!TypeOK
<1>2. PICK set \in SUBSET {z \in rRoleIds : rRoles[z].live} :
        /\ \A z \in set : rRoles[z].name # "Owner"
        /\ rReq' = [rReq EXCEPT ![r].next = "delete", ![r].set = set]
  BY DEF Roles!AssignRows
<1> DEFINE x == [q EXCEPT !.next = "delete", !.set = set]
<1>3. x \in Roles!Handler
  BY DEF Roles!Handler
<1>4. /\ x.kind = q.kind /\ q.kind # "login"
      /\ x.next = "delete" /\ x.set = set /\ x.owner = q.owner
      /\ x.flags = q.flags /\ x.top = q.top
  BY <1>1 DEF Roles!Handler, Roles!AssignRows, Roles!At
<1>5. rOwnerRole \notin set
  BY <1>2 DEF RInv, RFirstRows
<1>6. RAimed(x) /\ RWithin(x)
  BY <1>1, <1>4, <1>5 DEF RInv, RAimed, RWithin, RManages
<1>7. rReq' = [rReq EXCEPT ![r] = x]
  BY <1>1, <1>2 DEF RInv, Roles!TypeOK
<1>8. /\ ~Roles!At(r, "kick", "roles")
      /\ UNCHANGED <<rMembers, rRoles, rHeld, Roles!history>>
      /\ rServed' \in Nat
  BY DEF Roles!AssignRows, Roles!At, RInv, Roles!TypeOK
<1> HIDE DEF x
<1> QED
  BY <1>3, <1>6, <1>7, <1>8, RQuietStep

LEMMA RAssignDeleteStep ==
    ASSUME RInv, NEW r \in rReqs, Roles!AssignDelete(r)
    PROVE  RInv'
<1>1. PICK q \in Roles!Handler : q = rReq[r]
  BY DEF RInv, Roles!TypeOK
<1>2. PICK gone \in SUBSET rRoleIds : gone = rHeld[q.user]
  BY <1>1 DEF RInv, Roles!TypeOK, Roles!Handler
<1> DEFINE x == [q EXCEPT !.next = "commit", !.doomed = gone]
<1>3. x \in Roles!Handler
  BY DEF Roles!Handler
<1>4. /\ x.kind = q.kind /\ q.kind # "login"
      /\ x.next = "commit" /\ x.set = q.set /\ x.owner = q.owner
      /\ x.flags = q.flags /\ x.top = q.top
  BY <1>1 DEF Roles!Handler, Roles!AssignDelete, Roles!At
<1>5. q.next = "delete"
  BY <1>1 DEF Roles!AssignDelete, Roles!At
<1>6. RAimed(x) /\ RWithin(x)
  BY <1>1, <1>4, <1>5 DEF RInv, RAimed, RWithin, RManages
<1>7. rReq' = [rReq EXCEPT ![r] = x]
  BY <1>1, <1>2 DEF Roles!AssignDelete, RInv, Roles!TypeOK
<1>8. /\ ~Roles!At(r, "kick", "roles")
      /\ UNCHANGED <<rMembers, rRoles, rHeld, Roles!history>>
      /\ rServed' \in Nat
  BY DEF Roles!AssignDelete, Roles!At, RInv, Roles!TypeOK
<1> HIDE DEF x
<1> QED
  BY <1>3, <1>6, <1>7, <1>8, RQuietStep
-----------------------------------------------------------------------------
(* Steps that write. *)

(* Handler r ends and writes the row z, with flags its caller may grant and*)
(* a position they may manage, or what was there before.                   *)
LEMMA RRowStep ==
    ASSUME Roles!RolesAssumption, RInv, NEW r \in rReqs, NEW c \in Roles!Handler,
           c = rReq[r], RManages(c),
           NEW z \in rRoleIds \ {rOwnerRole}, NEW row \in Roles!Row, row.live,
           NEW asked \in SUBSET rFlags,
           Roles!Record(c, asked, row.pos), rRoles' = [rRoles EXCEPT ![z] = row],
           rCeiling > 0 => row.flags \subseteq rReleased \union asked,
           c.owner \/ asked \subseteq c.flags,
           c.owner \/ row.pos > c.top \/ (rCeiling > 0 => row.pos >= rCeiling),
           Roles!End(r), UNCHANGED <<rMembers, rHeld, rServed, rStray>>
    PROVE  RInv'
<1>1. /\ rCeiling \in Int /\ row.pos \in Int /\ c.top \in Int
      /\ rCeiling \in 0..rMaxPos /\ row.pos \in 0..rMaxPos
  BY DEF RInv, Roles!TypeOK, Roles!Row, Roles!Handler, Roles!NoTop, Roles!RolesAssumption
<1>2. RGrows /\ rReleased' \subseteq rFlags /\ rCeiling' \in 0..rMaxPos
  BY <1>1 DEF Roles!Record, RGrows, RInv, Roles!TypeOK
<1>3. Roles!TypeOK'
  <2>1. rReq' \in [rReqs -> Roles!Handler]
    BY RIdleOk DEF Roles!End, RInv, Roles!TypeOK
  <2>2. rRoles' \in [rRoleIds -> Roles!Row]
    BY DEF RInv, Roles!TypeOK
  <2> QED
    BY <1>2, <2>1, <2>2 DEF RInv, Roles!TypeOK
<1>4. \A y \in rRoleIds : rRoles'[y] = IF y = z THEN row ELSE rRoles[y]
  BY DEF RInv, Roles!TypeOK
<1>5. RFirstRows'
  BY <1>4 DEF RInv, RFirstRows, Roles!RolesAssumption
<1>6. Roles!NoEscalation'
  <2> SUFFICES ASSUME rCeiling' > 0
               PROVE  /\ \A y \in rRoleIds \ {rOwnerRole} : /\ rRoles'[y].flags \subseteq rReleased'
                                                            /\ rRoles'[y].pos >= rCeiling'
                      /\ \A u \in Roles!Others : rOwnerRole \notin rHeld'[u]
    BY DEF Roles!NoEscalation
  <2>1. rCeiling > 0 /\ rCeiling' \in Int
    BY <1>1, <1>2 DEF RGrows
  <2>2. \A y \in rRoleIds \ {rOwnerRole} : rRoles[y].flags \subseteq rReleased /\ rRoles[y].pos >= rCeiling
    BY <2>1 DEF RInv, Roles!NoEscalation
  <2>3. \A y \in rRoleIds : rRoles[y].pos \in Int
    BY DEF RInv, Roles!TypeOK, Roles!Row, Roles!RolesAssumption
  <2>4. \A u \in Roles!Others : rOwnerRole \notin rHeld[u]
    BY <2>1 DEF RInv, Roles!NoEscalation
  <2>5. RWithin(c)
    BY DEF RInv
  <2>6. row.flags \subseteq rReleased'
    <3>1. CASE c.owner
      BY <2>1, <3>1 DEF Roles!Record
    <3>2. CASE ~c.owner
      <4>1. asked \subseteq rReleased
        BY <2>1, <2>5, <3>2 DEF RWithin
      <4> QED
        BY <2>1, <3>2, <4>1 DEF Roles!Record
    <3> QED
      BY <3>1, <3>2
  <2>7. row.pos >= rCeiling'
    <3>1. CASE c.owner
      BY <1>1, <3>1 DEF Roles!Record
    <3>2. CASE ~c.owner
      <4>1. c.top >= rCeiling
        BY <2>1, <2>5, <3>2 DEF RWithin
      <4>2. row.pos >= rCeiling
        BY <1>1, <2>1, <3>2, <4>1
      <4> QED
        BY <3>2, <4>2 DEF Roles!Record
    <3> QED
      BY <3>1, <3>2
  <2>8. \A y \in rRoleIds \ {rOwnerRole} : rRoles'[y].flags \subseteq rReleased'
    BY <1>2, <1>4, <2>2, <2>6 DEF RGrows
  <2>9. \A y \in rRoleIds \ {rOwnerRole} : rRoles'[y].pos >= rCeiling'
    BY <1>1, <1>2, <1>4, <2>1, <2>2, <2>3, <2>7 DEF RGrows
  <2> QED
    BY <2>4, <2>8, <2>9
<1>7. \A s \in rReqs : rReq'[s] = IF s = r THEN Roles!Idle ELSE rReq[s]
  BY DEF Roles!End, RInv, Roles!TypeOK
<1>8. RKicksStay
  BY <1>7 DEF RKicksStay, Roles!At, RManages
<1>9. Roles!RolesOfMembers'
  BY <1>8, RStrayStays DEF RInv, Roles!RolesOfMembers
<1>10. \A s \in rReqs \ {r} : RSame(rReq'[s], rReq[s])
  BY <1>7 DEF RSame
<1>11. Roles!Idle \in Roles!Handler /\ RAimed(Roles!Idle) /\ RWithin(Roles!Idle)'
  BY RIdleOk, RIdleWithin DEF RWithin, Roles!Idle, RManages
<1>12. rReq'[r] = Roles!Idle
  BY <1>7
<1> HIDE DEF Roles!Idle
<1> QED
  BY <1>2, <1>3, <1>5, <1>6, <1>9, <1>10, <1>11, <1>12, RAnyStep

LEMMA RCreateRoleStep ==
    ASSUME Roles!RolesAssumption, RInv, NEW r \in rReqs, Roles!CreateRole(r)
    PROVE  RInv'
<1>1. PICK c \in Roles!Handler : c = rReq[r]
  BY DEF RInv, Roles!TypeOK
<1>2. PICK x \in rRoleIds, name \in {"Member", "other"}, pos \in 0..rMaxPos, asked \in SUBSET rFlags :
        /\ ~rRoles[x].live
        /\ Roles!canManageRolePosition(c, pos)
        /\ Roles!canGrantRequestedPermissions(c, asked)
        /\ rRoles' = [rRoles EXCEPT ![x] =
                        [live |-> TRUE, name |-> name, pos |-> pos, flags |-> asked]]
        /\ Roles!Record(c, asked, pos)
  BY <1>1 DEF Roles!CreateRole
<1> DEFINE row == [live |-> TRUE, name |-> name, pos |-> pos, flags |-> asked]
<1>3. row \in Roles!Row /\ row.live /\ row.pos = pos /\ row.flags = asked
  BY DEF Roles!Row, Roles!Names
<1>4. x # rOwnerRole
  BY <1>2 DEF RInv, RFirstRows
<1>5. RManages(c) /\ Roles!End(r) /\ UNCHANGED <<rMembers, rHeld, rServed, rStray>>
  BY <1>1 DEF Roles!CreateRole, Roles!At, RManages
<1>6. c.owner \/ asked \subseteq c.flags
  BY <1>2 DEF Roles!canGrantRequestedPermissions
<1>7. c.owner \/ row.pos > c.top
  BY <1>2, <1>3 DEF Roles!canManageRolePosition
<1>8. Roles!Record(c, asked, row.pos) /\ rRoles' = [rRoles EXCEPT ![x] = row]
  BY <1>2, <1>3
<1> HIDE DEF row
<1> QED
  BY <1>1, <1>3, <1>4, <1>5, <1>6, <1>7, <1>8, RRowStep

LEMMA RPatchUpdateStep ==
    ASSUME Roles!RolesAssumption, RInv, NEW r \in rReqs, Roles!PatchUpdate(r)
    PROVE  RInv'
<1>1. PICK c \in Roles!Handler : c = rReq[r]
  BY DEF RInv, Roles!TypeOK
<1>2. PICK x : x = c.role
  OBVIOUS
<1>3. PICK on \in SUBSET rFlags, off \in SUBSET rRoles[x].flags, name \in {rRoles[x].name, "Member", "other"},
           pos \in {p \in 0..rMaxPos : Roles!canManageRolePosition(c, p)} \union {rRoles[x].pos} :
        /\ Roles!canGrantRequestedPermissions(c, on)
        /\ rRoles' = [rRoles EXCEPT ![x] =
                        [live |-> TRUE, name |-> name, pos |-> pos,
                         flags |-> (@.flags \ off) \union on]]
        /\ Roles!Record(c, on, pos)
  BY <1>1, <1>2 DEF Roles!PatchUpdate
<1>4. /\ c.kind = "patch" /\ c.next = "update"
      /\ Roles!End(r) /\ UNCHANGED <<rMembers, rHeld, rServed, rStray>>
  BY <1>1 DEF Roles!PatchUpdate, Roles!At
<1>5. x \in rRoleIds \ {rOwnerRole}
  BY <1>1, <1>2, <1>4 DEF RInv, RAimed, Roles!Handler
<1>6. rRoles[x] \in Roles!Row
  BY <1>5 DEF RInv, Roles!TypeOK
<1> DEFINE flags == (rRoles[x].flags \ off) \union on
<1> DEFINE row == [live |-> TRUE, name |-> name, pos |-> pos, flags |-> flags]
<1>7. row \in Roles!Row /\ row.live /\ row.pos = pos /\ row.flags = flags
  BY <1>6 DEF Roles!Row, Roles!Names
<1>8. RManages(c)
  BY <1>4 DEF RManages
<1>9. rCeiling > 0 => rRoles[x].flags \subseteq rReleased /\ rRoles[x].pos >= rCeiling
  BY <1>5 DEF RInv, Roles!NoEscalation
<1>10. rCeiling > 0 => row.flags \subseteq rReleased \union on
  BY <1>7, <1>9
<1>11. c.owner \/ on \subseteq c.flags
  BY <1>3 DEF Roles!canGrantRequestedPermissions
<1>12. c.owner \/ row.pos > c.top \/ (rCeiling > 0 => row.pos >= rCeiling)
  BY <1>3, <1>7, <1>9 DEF Roles!canManageRolePosition
<1>13. Roles!Record(c, on, row.pos) /\ rRoles' = [rRoles EXCEPT ![x] = row]
  BY <1>3, <1>5, <1>7 DEF RInv, Roles!TypeOK
<1> HIDE DEF row
<1> QED
  BY <1>1, <1>4, <1>5, <1>7, <1>8, <1>10, <1>11, <1>12, <1>13, RRowStep

(* Handlers end or move on, and roles are written as they were released:   *)
(* what is left to show of a step that changes members or what they hold.  *)
LEMMA RMembersStep ==
    ASSUME Roles!RolesAssumption, RInv, NEW r \in rReqs, NEW x \in Roles!Handler,
           RAimed(x), ~RManages(x), rReq'[r] = x,
           rReq' \in [rReqs -> Roles!Handler], \A s \in rReqs \ {r} : RSame(rReq'[s], rReq[s]),
           rMembers' \subseteq rUsers, rHeld' \in [rUsers -> SUBSET rRoleIds], rStray' \subseteq rUsers,
           \A u \in Roles!Others : rOwnerRole \in rHeld'[u] => rOwnerRole \in rHeld[u],
           UNCHANGED <<rRoles, rServed, rReleased, rCeiling>>, Roles!RolesOfMembers'
    PROVE  RInv'
<1>1. Roles!TypeOK'
  BY DEF RInv, Roles!TypeOK
<1>2. RFirstRows' /\ Roles!NoEscalation'
  BY DEF RInv, RFirstRows, Roles!NoEscalation
<1>3. RGrows
  BY DEF RGrows, RInv, Roles!TypeOK, Roles!RolesAssumption
<1>4. RWithin(x)'
  BY DEF RWithin, RManages
<1> QED
  BY <1>1, <1>2, <1>3, <1>4, RAnyStep

LEMMA RFailStep ==
    ASSUME Roles!RolesAssumption, RInv, NEW r \in rReqs, Roles!Fail(r)
    PROVE  RInv'
<1>1. \A s \in rReqs : rReq'[s] = IF s = r THEN Roles!Idle ELSE rReq[s]
  BY DEF Roles!Fail, Roles!End, RInv, Roles!TypeOK
<1>2. rReq' \in [rReqs -> Roles!Handler] /\ rReq'[r] = Roles!Idle
  BY <1>1, RIdleOk DEF Roles!Fail, Roles!End, RInv, Roles!TypeOK
<1>3. rStray' \subseteq rUsers
  BY DEF Roles!Fail, RInv, Roles!TypeOK, Roles!Handler
<1>4. Roles!RolesOfMembers'
  <2> SUFFICES ASSUME NEW u \in Roles!Others
               PROVE  u \in rMembers \/ rHeld[u] = {} \/ u \in rStray'
                      \/ \E s \in rReqs : Roles!At(s, "kick", "roles")' /\ rReq'[s].user = u
    BY DEF Roles!RolesOfMembers, Roles!Fail
  <2>1. CASE u \in rMembers \/ rHeld[u] = {} \/ u \in rStray
    BY <2>1 DEF Roles!Fail
  <2>2. CASE \E s \in rReqs : Roles!At(s, "kick", "roles") /\ rReq[s].user = u
    <3>1. PICK s \in rReqs : Roles!At(s, "kick", "roles") /\ rReq[s].user = u
      BY <2>2
    <3>2. CASE s = r
      BY <3>1, <3>2 DEF Roles!Fail
    <3>3. CASE s # r
      BY <1>1, <3>1, <3>3 DEF Roles!At
    <3> QED
      BY <3>2, <3>3
  <2> QED
    BY <2>1, <2>2 DEF RInv, Roles!RolesOfMembers
<1>5. \A s \in rReqs \ {r} : RSame(rReq'[s], rReq[s])
  BY <1>1 DEF RSame
<1>6. Roles!Idle \in Roles!Handler /\ RAimed(Roles!Idle) /\ ~RManages(Roles!Idle)
  BY RIdleOk DEF Roles!Idle, RManages
<1>7. UNCHANGED <<rMembers, rRoles, rHeld, rServed, rReleased, rCeiling>>
  BY DEF Roles!Fail
<1>8. rMembers' \subseteq rUsers /\ rHeld' \in [rUsers -> SUBSET rRoleIds]
  BY <1>7 DEF RInv, Roles!TypeOK
<1> HIDE DEF Roles!Idle
<1> QED
  BY <1>2, <1>3, <1>4, <1>5, <1>6, <1>7, <1>8, RMembersStep

LEMMA RRemoveMemberStep ==
    ASSUME Roles!RolesAssumption, RInv, NEW r \in rReqs, Roles!RemoveMember(r)
    PROVE  RInv'
<1>1. PICK q \in Roles!Handler : q = rReq[r]
  BY DEF RInv, Roles!TypeOK
<1> DEFINE x == [q EXCEPT !.next = "roles"]
<1>2. q.kind = "kick" /\ q.next = "member"
  BY <1>1 DEF Roles!RemoveMember, Roles!At
<1>3. x \in Roles!Handler /\ x.kind = "kick" /\ x.next = "roles" /\ x.user = q.user
  BY <1>2 DEF Roles!Handler
<1>4. RAimed(x) /\ ~RManages(x)
  BY <1>3 DEF RAimed, RManages
<1>5. rReq' = [rReq EXCEPT ![r] = x]
  BY <1>1 DEF Roles!RemoveMember, Roles!Goto, RInv, Roles!TypeOK
<1> HIDE DEF x
<1>6. \A s \in rReqs : rReq'[s] = IF s = r THEN x ELSE rReq[s]
  BY <1>5 DEF RInv, Roles!TypeOK
<1>7. /\ rReq' \in [rReqs -> Roles!Handler] /\ rReq'[r] = x
      /\ \A s \in rReqs \ {r} : RSame(rReq'[s], rReq[s])
  BY <1>3, <1>5, <1>6 DEF RInv, Roles!TypeOK, RSame
<1>8. RKicksStay
  BY <1>1, <1>2, <1>6 DEF RKicksStay, Roles!At
<1>9. Roles!RolesOfMembers'
  <2> SUFFICES ASSUME NEW u \in Roles!Others
               PROVE  u \in rMembers' \/ rHeld[u] = {} \/ u \in rStray
                      \/ \E s \in rReqs : Roles!At(s, "kick", "roles")' /\ rReq'[s].user = u
    BY DEF Roles!RolesOfMembers, Roles!RemoveMember, Roles!history
  <2>1. CASE u = q.user
    <3>1. rReq'[r] = x /\ x.user = u
      BY <1>3, <1>7, <2>1
    <3>2. Roles!At(r, "kick", "roles")'
      BY <1>3, <3>1 DEF Roles!At
    <3> QED
      BY <3>1, <3>2
  <2>2. CASE \E s \in rReqs : Roles!At(s, "kick", "roles") /\ rReq[s].user = u
    BY <1>8, <2>2 DEF RKicksStay
  <2>3. CASE u # q.user /\ u \in rMembers
    BY <1>1, <2>3 DEF Roles!RemoveMember
  <2> QED
    BY <2>1, <2>2, <2>3 DEF RInv, Roles!RolesOfMembers
<1>10. /\ UNCHANGED <<rRoles, rHeld, rServed, rReleased, rCeiling, rStray>>
       /\ rMembers' \subseteq rUsers /\ rHeld' \in [rUsers -> SUBSET rRoleIds] /\ rStray' \subseteq rUsers
  BY DEF Roles!RemoveMember, Roles!history, RInv, Roles!TypeOK
<1> QED
  BY <1>3, <1>4, <1>7, <1>9, <1>10, RMembersStep

(* Handler r is done, and the rows gone of u are no other's to delete. *)
LEMMA RDeletedOk ==
    ASSUME Roles!RolesAssumption, RInv, NEW r \in rReqs, NEW u, NEW gone, Roles!Deleted(r, u, gone)
    PROVE  /\ rReq' \in [rReqs -> Roles!Handler]
           /\ rReq'[r] = Roles!Idle
           /\ \A s \in rReqs \ {r} : RSame(rReq'[s], rReq[s])
<1>1. rReq' = [s \in rReqs |-> IF s = r THEN Roles!Idle
                               ELSE IF rReq[s].user = u THEN [rReq[s] EXCEPT !.doomed = @ \ gone]
                               ELSE rReq[s]]
  BY DEF Roles!Deleted
<1>2. rReq'[r] = Roles!Idle
  BY <1>1
<1>3. ASSUME NEW s \in rReqs \ {r}
      PROVE  rReq'[s] \in Roles!Handler /\ RSame(rReq'[s], rReq[s])
  <2>1. PICK q \in Roles!Handler : q = rReq[s]
    BY DEF RInv, Roles!TypeOK
  <2>2. rReq'[s] = IF q.user = u THEN [q EXCEPT !.doomed = @ \ gone] ELSE q
    BY <1>1, <2>1
  <2>3. [q EXCEPT !.doomed = @ \ gone] \in Roles!Handler
    BY DEF Roles!Handler
  <2>4. RSame([q EXCEPT !.doomed = @ \ gone], q) /\ RSame(q, q)
    BY DEF RSame, Roles!Handler
  <2> QED
    BY <2>1, <2>2, <2>3, <2>4
<1> QED
  BY <1>1, <1>2, <1>3, RIdleOk

LEMMA RRemoveRolesStep ==
    ASSUME Roles!RolesAssumption, RInv, NEW r \in rReqs, Roles!RemoveRoles(r)
    PROVE  RInv'
<1>1. PICK v \in rUsers : v = rReq[r].user
  BY DEF RInv, Roles!TypeOK, Roles!Handler
<1>2. rHeld' = [rHeld EXCEPT ![v] = {}] /\ Roles!Deleted(r, v, rHeld[v])
  BY <1>1 DEF Roles!RemoveRoles
<1>3. /\ rReq' \in [rReqs -> Roles!Handler] /\ rReq'[r] = Roles!Idle
      /\ \A s \in rReqs \ {r} : RSame(rReq'[s], rReq[s])
  BY <1>2, RDeletedOk
<1>4. \A u \in rUsers : rHeld'[u] = IF u = v THEN {} ELSE rHeld[u]
  BY <1>2 DEF RInv, Roles!TypeOK
<1>5. /\ UNCHANGED <<rMembers, rRoles, rServed, rReleased, rCeiling, rStray>>
      /\ rMembers' \subseteq rUsers /\ rHeld' \in [rUsers -> SUBSET rRoleIds] /\ rStray' \subseteq rUsers
  BY <1>2 DEF Roles!RemoveRoles, Roles!history, RInv, Roles!TypeOK
<1>6. Roles!RolesOfMembers'
  <2> SUFFICES ASSUME NEW u \in Roles!Others, u # v
               PROVE  u \in rMembers \/ rHeld[u] = {} \/ u \in rStray
                      \/ \E s \in rReqs : Roles!At(s, "kick", "roles")' /\ rReq'[s].user = u
    BY <1>4, <1>5 DEF Roles!RolesOfMembers, Roles!Others
  <2>1. CASE \E s \in rReqs : Roles!At(s, "kick", "roles") /\ rReq[s].user = u
    <3>1. PICK s \in rReqs : Roles!At(s, "kick", "roles") /\ rReq[s].user = u
      BY <2>1
    <3>2. RSame(rReq'[s], rReq[s])
      BY <1>1, <1>3, <3>1
    <3> QED
      BY <3>1, <3>2 DEF RSame, Roles!At
  <2> QED
    BY <2>1 DEF RInv, Roles!RolesOfMembers
<1>7. \A u \in Roles!Others : rOwnerRole \in rHeld'[u] => rOwnerRole \in rHeld[u]
  BY <1>4 DEF Roles!Others
<1>8. Roles!Idle \in Roles!Handler /\ RAimed(Roles!Idle) /\ ~RManages(Roles!Idle)
  BY RIdleOk DEF Roles!Idle, RManages
<1> HIDE DEF Roles!Idle
<1> QED
  BY <1>3, <1>5, <1>6, <1>7, <1>8, RMembersStep

LEMMA RAssignCommitStep ==
    ASSUME Roles!RolesAssumption, RInv, NEW r \in rReqs, Roles!AssignCommit(r)
    PROVE  RInv'
<1>1. PICK c \in Roles!Handler : c = rReq[r]
  BY DEF RInv, Roles!TypeOK
<1>2. c.kind = "assign" /\ c.next = "commit" /\ c.user \in rUsers
  BY <1>1 DEF Roles!AssignCommit, Roles!At, Roles!Handler
<1>3. /\ rHeld' = [rHeld EXCEPT ![c.user] = (@ \ c.doomed) \union c.set]
      /\ rStray' = IF c.user \in rMembers THEN rStray ELSE rStray \union {c.user}
      /\ Roles!Deleted(r, c.user, c.doomed)
      /\ UNCHANGED <<rMembers, rRoles, rServed, rReleased, rCeiling>>
  BY <1>1 DEF Roles!AssignCommit
<1>4. /\ rReq' \in [rReqs -> Roles!Handler] /\ rReq'[r] = Roles!Idle
      /\ \A s \in rReqs \ {r} : RSame(rReq'[s], rReq[s])
  BY <1>3, RDeletedOk
<1>5. c.set \in SUBSET rRoleIds /\ rOwnerRole \notin c.set
  BY <1>1, <1>2 DEF RInv, RAimed, Roles!Handler
<1>6. \A u \in rUsers : rHeld'[u] = IF u = c.user THEN (rHeld[u] \ c.doomed) \union c.set ELSE rHeld[u]
  BY <1>3 DEF RInv, Roles!TypeOK
<1>7. rMembers' \subseteq rUsers /\ rHeld' \in [rUsers -> SUBSET rRoleIds] /\ rStray' \subseteq rUsers
  BY <1>2, <1>3, <1>5 DEF RInv, Roles!TypeOK
<1>8. \A u \in Roles!Others : rOwnerRole \in rHeld'[u] => rOwnerRole \in rHeld[u]
  BY <1>5, <1>6 DEF Roles!Others
<1>9. Roles!RolesOfMembers'
  <2> SUFFICES ASSUME NEW u \in Roles!Others
               PROVE  u \in rMembers \/ rHeld'[u] = {} \/ u \in rStray'
                      \/ \E s \in rReqs : Roles!At(s, "kick", "roles")' /\ rReq'[s].user = u
    BY <1>3 DEF Roles!RolesOfMembers
  <2>1. CASE u = c.user
    BY <1>3, <2>1
  <2>2. CASE u # c.user
    <3>1. rHeld'[u] = rHeld[u] /\ rStray \subseteq rStray'
      BY <1>3, <1>6, <2>2 DEF Roles!Others
    <3>2. CASE \E s \in rReqs : Roles!At(s, "kick", "roles") /\ rReq[s].user = u
      <4>1. PICK s \in rReqs : Roles!At(s, "kick", "roles") /\ rReq[s].user = u
        BY <3>2
      <4>2. s # r
        BY <1>1, <1>2, <4>1 DEF Roles!At
      <4>3. RSame(rReq'[s], rReq[s])
        BY <1>4, <4>2
      <4> QED
        BY <4>1, <4>3 DEF RSame, Roles!At
    <3> QED
      BY <3>1, <3>2 DEF RInv, Roles!RolesOfMembers
  <2> QED
    BY <2>1, <2>2
<1>10. Roles!Idle \in Roles!Handler /\ RAimed(Roles!Idle) /\ ~RManages(Roles!Idle)
  BY RIdleOk DEF Roles!Idle, RManages
<1> HIDE DEF Roles!Idle
<1> QED
  BY <1>3, <1>4, <1>7, <1>8, <1>9, <1>10, RMembersStep

LEMMA RLoginMemberStep ==
    ASSUME Roles!RolesAssumption, RInv, NEW r \in rReqs, Roles!LoginMember(r)
    PROVE  RInv'
<1>1. PICK q \in Roles!Handler : q = rReq[r]
  BY DEF RInv, Roles!TypeOK
<1>2. q.kind = "login" /\ q.next = "member" /\ RAimed(q)
  BY <1>1 DEF Roles!LoginMember, Roles!At, RInv
<1>3. PICK x \in Roles!Handler : /\ RAimed(x) /\ ~RManages(x)
                                /\ rReq' = [rReq EXCEPT ![r] = x]
  <2>1. CASE Roles!End(r)
    <3>1. RAimed(Roles!Idle) /\ ~RManages(Roles!Idle) /\ Roles!Idle \in Roles!Handler
      BY RIdleOk DEF Roles!Idle, RManages
    <3> QED
      BY <2>1, <3>1 DEF Roles!End
  <2>2. CASE Roles!Goto(r, "roles")
    <3> DEFINE y == [q EXCEPT !.next = "roles"]
    <3>1. y \in Roles!Handler /\ y.kind = "login" /\ y.next = "roles" /\ y.set = q.set
      BY <1>2 DEF Roles!Handler
    <3>2. RAimed(y) /\ ~RManages(y)
      BY <1>2, <3>1 DEF RAimed, RManages
    <3>3. rReq' = [rReq EXCEPT ![r] = y]
      BY <1>1, <2>2 DEF Roles!Goto, RInv, Roles!TypeOK
    <3> HIDE DEF y
    <3> QED
      BY <3>1, <3>2, <3>3
  <2> QED
    BY <2>1, <2>2 DEF Roles!LoginMember
<1>4. \A s \in rReqs : rReq'[s] = IF s = r THEN x ELSE rReq[s]
  BY <1>3 DEF RInv, Roles!TypeOK
<1>5. /\ rReq' \in [rReqs -> Roles!Handler] /\ rReq'[r] = x
      /\ \A s \in rReqs \ {r} : RSame(rReq'[s], rReq[s])
  BY <1>3, <1>4 DEF RInv, Roles!TypeOK, RSame
<1>6. RKicksStay
  BY <1>1, <1>2, <1>4 DEF RKicksStay, Roles!At
<1>7. /\ UNCHANGED <<rRoles, rHeld, rServed, rReleased, rCeiling, rStray>>
      /\ rMembers' = rMembers \union {q.user}
  BY <1>1 DEF Roles!LoginMember, Roles!history
<1>8. rMembers' \subseteq rUsers /\ rHeld' \in [rUsers -> SUBSET rRoleIds] /\ rStray' \subseteq rUsers
  BY <1>7 DEF RInv, Roles!TypeOK, Roles!Handler
<1>9. Roles!RolesOfMembers'
  BY <1>6, <1>7, RStrayStays DEF RInv, Roles!RolesOfMembers
<1> QED
  BY <1>3, <1>5, <1>7, <1>8, <1>9, RMembersStep

(* The role is given to a member, or to one the history knows of. *)
LEMMA RLoginRolesStep ==
    ASSUME Roles!RolesAssumption, RInv, NEW r \in rReqs, Roles!LoginRoles(r)
    PROVE  RInv'
<1>1. PICK c \in Roles!Handler : c = rReq[r]
  BY DEF RInv, Roles!TypeOK
<1>2. c.kind = "login" /\ c.user \in rUsers
  BY <1>1 DEF Roles!LoginRoles, Roles!At, Roles!Handler
<1>3. /\ rHeld' = [rHeld EXCEPT ![c.user] = @ \union c.set]
      /\ rStray' = IF c.user \in rMembers THEN rStray ELSE rStray \union {c.user}
      /\ Roles!End(r)
      /\ UNCHANGED <<rMembers, rRoles, rServed, rReleased, rCeiling>>
  BY <1>1 DEF Roles!LoginRoles
<1>4. \A s \in rReqs : rReq'[s] = IF s = r THEN Roles!Idle ELSE rReq[s]
  BY <1>3 DEF Roles!End, RInv, Roles!TypeOK
<1>5. /\ rReq' \in [rReqs -> Roles!Handler] /\ rReq'[r] = Roles!Idle
      /\ \A s \in rReqs \ {r} : RSame(rReq'[s], rReq[s])
  BY <1>3, <1>4, RIdleOk DEF Roles!End, RInv, Roles!TypeOK, RSame
<1>6. c.set \in SUBSET rRoleIds /\ rOwnerRole \notin c.set
  BY <1>1, <1>2 DEF RInv, RAimed, Roles!Handler
<1>7. \A u \in rUsers : rHeld'[u] = IF u = c.user THEN rHeld[u] \union c.set ELSE rHeld[u]
  BY <1>3 DEF RInv, Roles!TypeOK
<1>8. rMembers' \subseteq rUsers /\ rHeld' \in [rUsers -> SUBSET rRoleIds] /\ rStray' \subseteq rUsers
  BY <1>2, <1>3, <1>6 DEF RInv, Roles!TypeOK
<1>9. \A u \in Roles!Others : rOwnerRole \in rHeld'[u] => rOwnerRole \in rHeld[u]
  BY <1>6, <1>7 DEF Roles!Others
<1>10. RKicksStay
  BY <1>1, <1>2, <1>4 DEF RKicksStay, Roles!At
<1>11. Roles!RolesOfMembers'
  <2> SUFFICES ASSUME NEW u \in Roles!Others
               PROVE  u \in rMembers' \/ rHeld'[u] = {} \/ u \in rStray'
                      \/ \E s \in rReqs : Roles!At(s, "kick", "roles")' /\ rReq'[s].user = u
    BY DEF Roles!RolesOfMembers
  <2>1. CASE u = c.user
    BY <1>3, <2>1
  <2>2. CASE u # c.user
    <3>1. rHeld'[u] = rHeld[u] /\ rStray \subseteq rStray'
      BY <1>3, <1>7, <2>2 DEF Roles!Others
    <3> QED
      BY <1>3, <1>10, <3>1, RStrayStays DEF RInv
  <2> QED
    BY <2>1, <2>2
<1>12. Roles!Idle \in Roles!Handler /\ RAimed(Roles!Idle) /\ ~RManages(Roles!Idle)
  BY RIdleOk DEF Roles!Idle, RManages
<1> HIDE DEF Roles!Idle
<1> QED
  BY <1>3, <1>5, <1>8, <1>9, <1>11, <1>12, RMembersStep

(* A newcomer's role is the Owner's only where the Member role is as high. *)
LEMMA RJoinStep ==
    ASSUME Roles!RolesAssumption, RInv, NEW u \in Roles!Others, Roles!Join(u)
    PROVE  RInv'
<1>1. PICK x \in rRoleIds : Roles!Default(x) /\ rHeld' = [rHeld EXCEPT ![u] = @ \union {x}]
  BY DEF Roles!Join
<1>2. /\ rMembers' = rMembers \union {u}
      /\ UNCHANGED <<rRoles, rReq, rServed, rReleased, rCeiling, rStray>>
  BY DEF Roles!Join, Roles!history
<1>3. \A v \in rUsers : rHeld'[v] = IF v = u THEN rHeld[v] \union {x} ELSE rHeld[v]
  BY <1>1 DEF RInv, Roles!TypeOK
<1>4. Roles!TypeOK'
  BY <1>1, <1>2 DEF RInv, Roles!TypeOK, Roles!Others
<1>5. RFirstRows'
  BY <1>2 DEF RInv, RFirstRows
<1>6. rCeiling > 0 => x # rOwnerRole
  <2> SUFFICES ASSUME rCeiling > 0, x = rOwnerRole PROVE FALSE
    OBVIOUS
  <2>1. \A y \in rRoleIds : rRoles[y].live => rRoles[y].pos <= rRoles[rOwnerRole].pos
    BY <1>1 DEF Roles!Default, RInv, RFirstRows
  <2>2. rRoles[rMemberRole].pos <= 0
    BY <2>1 DEF RInv, RFirstRows, Roles!RolesAssumption
  <2>3. rRoles[rMemberRole].pos >= rCeiling
    BY DEF RInv, Roles!NoEscalation, Roles!RolesAssumption
  <2>4. rRoles[rMemberRole].pos \in Int /\ rCeiling \in Int
    BY DEF RInv, Roles!TypeOK, Roles!Row, Roles!RolesAssumption
  <2> QED
    BY <2>2, <2>3, <2>4
<1>7. Roles!NoEscalation'
  BY <1>2, <1>3, <1>6 DEF RInv, Roles!NoEscalation, Roles!Others
<1>8. Roles!RolesOfMembers'
  BY <1>2, <1>3 DEF RInv, Roles!RolesOfMembers, Roles!At, Roles!Others
<1>9. \A r \in rReqs : RAimed(rReq[r])' /\ RWithin(rReq[r])'
  BY <1>2 DEF RInv, RAimed, RWithin, RManages
<1> QED
  BY <1>4, <1>5, <1>7, <1>8, <1>9 DEF RInv

LEMMA RStutter == ASSUME RInv, UNCHANGED Roles!vars PROVE RInv'
<1>1. Roles!TypeOK' /\ RFirstRows' /\ Roles!NoEscalation' /\ Roles!RolesOfMembers'
  BY DEF Roles!vars, Roles!history, RInv, Roles!TypeOK, RFirstRows, Roles!NoEscalation,
     Roles!RolesOfMembers, Roles!At
<1>2. \A r \in rReqs : RAimed(rReq[r])' /\ RWithin(rReq[r])'
  BY DEF Roles!vars, Roles!history, RInv, RAimed, RWithin, RManages
<1> QED
  BY <1>1, <1>2 DEF RInv
-----------------------------------------------------------------------------
LEMMA RStep == ASSUME Roles!RolesAssumption, RInv, Roles!Next PROVE RInv'
<1>1. ASSUME NEW r \in rReqs, NEW u \in rUsers, Roles!Manage(r, u) PROVE RInv'
  BY <1>1, RContextStep DEF Roles!Manage
<1>2. ASSUME NEW r \in rReqs, Roles!Step(r) PROVE RInv'
  <2>1. Roles!AssignAllCommit(r) => Roles!AssignCommit(r)
    BY DEF Roles!AssignAllCommit
  <2> QED
    BY <1>2, <2>1, RCreateRoleStep, RPatchRowStep, RPatchUpdateStep, RAssignTargetStep,
       RAssignRowsStep, RAssignDeleteStep,
       RAssignCommitStep, RRemoveMemberStep, RRemoveRolesStep,
       RLoginMemberStep, RLoginRolesStep, RFailStep DEF Roles!Step
<1>3. ASSUME NEW u \in rUsers, Roles!ListRoles(u) PROVE RInv'
  BY <1>3, RStutter DEF Roles!ListRoles
<1> QED
  BY <1>1, <1>2, <1>3, RRemoveStartStep, RLoginStartStep, RJoinStep DEF Roles!Next

LEMMA RInvariance == ASSUME Roles!RolesAssumption PROVE Roles!Spec => []RInv
<1>1. Roles!Init => RInv
  BY RInit
<1>2. RInv /\ [Roles!Next]_Roles!vars => RInv'
  BY RStep, RStutter
<1> QED
  BY <1>1, <1>2, PTL DEF Roles!Spec

LEMMA RolesInvariance ==
    Roles!Spec => [](Roles!TypeOK /\ Roles!NoEscalation /\ Roles!RolesOfMembers)
<1>1. Roles!Spec => []RInv
  BY RInvariance, PartsAssumption
<1>2. RInv => Roles!TypeOK /\ Roles!NoEscalation /\ Roles!RolesOfMembers
  BY DEF RInv
<1> QED
  BY <1>1, <1>2, PTL
-----------------------------------------------------------------------------
(***************************************************************************)
(* Accounts: sign-in, of the backend and of the Rust port side by side.    *)
(***************************************************************************)
(***************************************************************************)
(* The argument: a row that a subject's sign-in made is linked to that     *)
(* subject until it is handed to another one (ULinked), and the unique     *)
(* index keeps subjects apart (UOwnSubs); a handler that is about to insert*)
(* an email has found it free, and nobody else has, or the email is named  *)
(* in raced (UFree, UAlone).                                               *)
(***************************************************************************)
UHandler == [kind : Accounts!Kinds, next : Accounts!Steps, name : uNames,
             email : Accounts!AnyEmail, sub : Accounts!AnySub, row : uRows]

ULate(q) == q.email # uNoEmail /\ q.next \in {"name", "insert"}

UAsked(q) == q.next \in {"email", "exists"} => q.email \in uEmails

UFree(q) == ULate(q) => Accounts!WithEmail(q.email) = {} \/ q.email \in uRaced

UAlone == \A r, s \in uReqs : /\ ULate(uReq[r]) /\ ULate(uReq[s])
                              /\ uReq[r].email = uReq[s].email
                              => r = s \/ uReq[r].email \in uRaced

ULinked == \A x \in uRows : uCreator[x] \in uSubs /\ x \notin uTaken
                            => uUsers[x].live /\ uUsers[x].sub = uCreator[x]

UOwnSubs == \A x, y \in Accounts!Live :
               uUsers[x].sub = uUsers[y].sub /\ uUsers[x].sub \in uSubs => x = y

UInv == /\ Accounts!TypeOK
         /\ ULinked /\ UOwnSubs
         /\ Accounts!SharedEmailsRaced
         /\ \A r \in uReqs : UAsked(uReq[r]) /\ UFree(uReq[r])
         /\ UAlone

LEMMA UIdleOk == ASSUME Accounts!AccountsAssumption
                 PROVE  /\ Accounts!Idle \in UHandler /\ ~ULate(Accounts!Idle)
                        /\ UAsked(Accounts!Idle) /\ Accounts!SomeName \in uNames
<1>1. Accounts!SomeName \in uNames /\ Accounts!SomeRow \in uRows
  BY DEF Accounts!AccountsAssumption, Accounts!SomeName, Accounts!SomeRow
<1> QED
  BY <1>1 DEF Accounts!Idle, UHandler, Accounts!Kinds, Accounts!Steps, Accounts!AnyEmail,
     Accounts!AnySub, ULate, UAsked

LEMMA UInit == ASSUME Accounts!AccountsAssumption, Accounts!Init PROVE UInv
<1>1. Accounts!NoUser \in Accounts!User /\ ~Accounts!NoUser.live
  BY UIdleOk DEF Accounts!NoUser, Accounts!User, Accounts!AnyEmail, Accounts!AnySub
<1>2. \A x \in uRows : uUsers[x] = Accounts!NoUser /\ uCreator[x] = uNoSub
  BY DEF Accounts!Init
<1>3. \A r \in uReqs : uReq[r] = Accounts!Idle
  BY DEF Accounts!Init
<1>4. Accounts!TypeOK
  <2>1. uUsers \in [uRows -> Accounts!User]
    BY <1>1 DEF Accounts!Init
  <2>2. uReq \in [uReqs -> UHandler]
    BY UIdleOk DEF Accounts!Init
  <2>3. uCreator \in [uRows -> Accounts!AnySub]
    BY DEF Accounts!Init, Accounts!AnySub
  <2> QED
    BY <2>1, <2>2, <2>3 DEF Accounts!Init, Accounts!TypeOK, UHandler
<1>5. Accounts!Live = {}
  BY <1>1, <1>2 DEF Accounts!Live
<1>6. ULinked /\ UOwnSubs /\ Accounts!SharedEmailsRaced
  BY <1>2, <1>5 DEF Accounts!AccountsAssumption, ULinked, UOwnSubs, Accounts!SharedEmailsRaced
<1>7. \A r \in uReqs : UAsked(uReq[r]) /\ ~ULate(uReq[r])
  BY <1>3, UIdleOk
<1> QED
  BY <1>4, <1>6, <1>7 DEF UInv, UFree, UAlone

(* What the properties follow from. *)
LEMMA UOneAccount == ASSUME UInv PROVE Accounts!SignIns
<1>1. Accounts!OneAccountPerSub
  <2> SUFFICES ASSUME NEW s \in uSubs, NEW x \in uRows \ uTaken, NEW y \in uRows \ uTaken,
                      uCreator[x] = s, uCreator[y] = s
               PROVE  x = y
    BY DEF Accounts!OneAccountPerSub
  <2>1. x \in Accounts!Live /\ y \in Accounts!Live /\ uUsers[x].sub = s /\ uUsers[y].sub = s
    BY DEF UInv, ULinked, Accounts!Live
  <2> QED
    BY <2>1 DEF UInv, UOwnSubs
<1> QED
  BY <1>1 DEF UInv, Accounts!SignIns
-----------------------------------------------------------------------------
(* Users keep their emails. *)
UEmailsKept == \A x \in uRows : uUsers'[x].live = uUsers[x].live /\ uUsers'[x].email = uUsers[x].email

LEMMA USameEmails == ASSUME UEmailsKept, NEW e
                     PROVE  /\ Accounts!WithEmail(e)' = Accounts!WithEmail(e)
                            /\ Accounts!Live' = Accounts!Live
<1>1. Accounts!Live' = Accounts!Live
  BY DEF UEmailsKept, Accounts!Live
<1> QED
  BY <1>1 DEF UEmailsKept, Accounts!WithEmail, Accounts!Live

(* Handler r goes to x, with the email it was about to insert, or with one *)
(* that it found free, if nobody else has.                                 *)
UFresh(r, x) == /\ Accounts!WithEmail(x.email) = {} \/ x.email \in uRaced'
                /\ \A s \in uReqs \ {r} : ULate(uReq[s]) /\ uReq[s].email = x.email
                                          => x.email \in uRaced'

LEMMA UAnyStep ==
    ASSUME UInv, Accounts!TypeOK', ULinked', UOwnSubs', UEmailsKept, uRaced \subseteq uRaced',
           NEW r \in uReqs, NEW x \in UHandler, uReq' = [uReq EXCEPT ![r] = x], UAsked(x),
           ULate(x) => (ULate(uReq[r]) /\ x.email = uReq[r].email) \/ UFresh(r, x)
    PROVE  UInv'
<1>1. \A s \in uReqs : uReq'[s] = IF s = r THEN x ELSE uReq[s]
  BY DEF UInv, Accounts!TypeOK
<1>2. Accounts!SharedEmailsRaced'
  BY USameEmails DEF UInv, Accounts!SharedEmailsRaced, UEmailsKept, Accounts!Live
<1>3. \A s \in uReqs : UFree(uReq[s]) /\ UAsked(uReq[s])
  BY DEF UInv
<1>4. ASSUME NEW q \in UHandler, ULate(q), Accounts!WithEmail(q.email) = {} \/ q.email \in uRaced'
      PROVE  UFree(q)'
  BY <1>4, USameEmails DEF UFree
<1>5. ASSUME NEW s \in uReqs PROVE (UAsked(uReq[s]) /\ UFree(uReq[s]))'
  <2>1. CASE s = r
    <3>1. UFree(x)'
      <4>1. CASE ULate(x)
        BY <1>3, <1>4, <4>1 DEF UFresh, UFree
      <4>2. CASE ~ULate(x)
        BY <4>2 DEF UFree, ULate
      <4> QED
        BY <4>1, <4>2
    <3> QED
      BY <1>1, <2>1, <3>1 DEF UAsked, UFree, ULate
  <2>2. CASE s # r
    <3>1. PICK q \in UHandler : q = uReq[s]
      BY DEF UInv, Accounts!TypeOK, UHandler
    <3>2. UFree(q)'
      <4>1. CASE ULate(q)
        BY <1>3, <1>4, <3>1, <4>1 DEF UFree
      <4>2. CASE ~ULate(q)
        BY <4>2 DEF UFree, ULate
      <4> QED
        BY <4>1, <4>2
    <3>3. q = uReq'[s]
      BY <1>1, <2>2, <3>1
    <3> QED
      BY <1>3, <3>1, <3>2, <3>3 DEF UAsked, UFree, ULate
  <2> QED
    BY <2>1, <2>2
<1>6. UAlone'
  <2> SUFFICES ASSUME NEW s \in uReqs, NEW t \in uReqs, ULate(uReq'[s]), ULate(uReq'[t]),
                      uReq'[s].email = uReq'[t].email, s # t
               PROVE  uReq'[s].email \in uRaced'
    BY DEF UAlone, ULate
  <2>1. CASE s # r /\ t # r
    BY <1>1, <2>1 DEF UInv, UAlone
  <2>2. CASE s = r
    <3>1. uReq'[s] = x /\ uReq'[t] = uReq[t] /\ ULate(x) /\ ULate(uReq[t]) /\ x.email = uReq[t].email
      BY <1>1, <2>2
    <3> QED
      BY <2>2, <3>1 DEF UFresh, UInv, UAlone
  <2>3. CASE t = r
    <3>1. uReq'[t] = x /\ uReq'[s] = uReq[s] /\ ULate(x) /\ ULate(uReq[s]) /\ x.email = uReq[s].email
      BY <1>1, <2>3
    <3> QED
      BY <2>3, <3>1 DEF UFresh, UInv, UAlone
  <2> QED
    BY <2>1, <2>2, <2>3
<1> QED
  BY <1>2, <1>5, <1>6 DEF UInv

(* Handler r moves, and nobody's account. *)
LEMMA UQuietStep ==
    ASSUME UInv, NEW r \in uReqs, NEW x \in UHandler, uReq' = [uReq EXCEPT ![r] = x], UAsked(x),
           ULate(x) => ULate(uReq[r]) /\ x.email = uReq[r].email,
           UNCHANGED <<uUsers, Accounts!history>>, uMembers' \subseteq uRows
    PROVE  UInv'
<1>1. Accounts!TypeOK'
  BY DEF UInv, Accounts!TypeOK, Accounts!history, UHandler
<1>2. ULinked' /\ UOwnSubs' /\ UEmailsKept /\ uRaced \subseteq uRaced'
  BY DEF UInv, ULinked, UOwnSubs, UEmailsKept, Accounts!Live, Accounts!history
<1> QED
  BY <1>1, <1>2, UAnyStep

LEMMA UEndStep ==
    ASSUME Accounts!AccountsAssumption, UInv, NEW r \in uReqs, Accounts!End(r),
           UNCHANGED <<uUsers, Accounts!history>>, uMembers' \subseteq uRows
    PROVE  UInv'
<1> HIDE DEF Accounts!Idle
<1> QED
  BY UIdleOk, UQuietStep DEF Accounts!End
-----------------------------------------------------------------------------
(* Steps that start a handler or move it on. *)

LEMMA UStartsStep ==
    ASSUME Accounts!AccountsAssumption, UInv, NEW r \in uReqs, NEW h \in UHandler,
           h.next \in {"sub", "exists", "default", "update"},
           h.next = "exists" => h.email \in uEmails,
           uReq' = [uReq EXCEPT ![r] = h],
           UNCHANGED <<uUsers, uMembers, Accounts!history>>
    PROVE  UInv'
<1>1. UAsked(h) /\ ~ULate(h)
  BY DEF UAsked, ULate
<1>2. uMembers' \subseteq uRows
  BY DEF UInv, Accounts!TypeOK
<1> QED
  BY <1>1, <1>2, UQuietStep

LEMMA UAnyStart ==
    ASSUME Accounts!AccountsAssumption, UInv, NEW r \in uReqs,
           \/ \E s \in uSubs, e \in Accounts!AnyEmail : Accounts!ShooStart(r, s, e)
           \/ \E n \in uNames, e \in uEmails : Accounts!RegisterStart(r, n, e)
           \/ \E n \in uNames, e \in uEmails :
                /\ Accounts!Start(r, [Accounts!Idle EXCEPT !.kind = "rust register", !.next = "exists",
                                                           !.name = n, !.email = e])
                /\ UNCHANGED <<uUsers, uMembers, Accounts!history>>
           \/ \E x \in uRows : Accounts!Login(r, x)
           \/ \E x \in uRows, n \in uNames : Accounts!RenameStart(r, x, n)
    PROVE  UInv'
<1>1. /\ Accounts!SomeName \in uNames /\ Accounts!SomeRow \in uRows
      /\ uNoEmail \in Accounts!AnyEmail /\ uNoSub \in Accounts!AnySub
      /\ uSubs \subseteq Accounts!AnySub /\ uEmails \subseteq Accounts!AnyEmail
  BY DEF Accounts!AccountsAssumption, Accounts!SomeName, Accounts!SomeRow, Accounts!AnyEmail,
     Accounts!AnySub
<1>2. Accounts!Kinds = {"idle", "shoo", "register", "login", "rename", "rust register"}
      /\ {"sub", "exists", "default", "update"} \subseteq Accounts!Steps
  BY DEF Accounts!Kinds, Accounts!Steps
<1>3. CASE \E s \in uSubs, e \in Accounts!AnyEmail : Accounts!ShooStart(r, s, e)
  <2>1. PICK s \in uSubs, e \in Accounts!AnyEmail : Accounts!ShooStart(r, s, e)
    BY <1>3
  <2> DEFINE h == [Accounts!Idle EXCEPT !.kind = "shoo", !.next = "sub", !.sub = s, !.email = e]
  <2>2. h \in UHandler /\ h.next = "sub"
    BY <1>1, <1>2, UIdleOk DEF UHandler, Accounts!Idle
  <2>3. uReq' = [uReq EXCEPT ![r] = h] /\ UNCHANGED <<uUsers, uMembers, Accounts!history>>
    BY <2>1 DEF Accounts!ShooStart, Accounts!Start
  <2> HIDE DEF h
  <2> QED
    BY <2>2, <2>3, UStartsStep
<1>4. CASE \E n \in uNames, e \in uEmails : Accounts!RegisterStart(r, n, e)
  <2>1. PICK n \in uNames, e \in uEmails : Accounts!RegisterStart(r, n, e)
    BY <1>4
  <2> DEFINE h == [Accounts!Idle EXCEPT !.kind = "register", !.next = "exists", !.name = n,
  !.email = e]
  <2>2. h \in UHandler /\ h.next = "exists" /\ h.email = e
    BY <1>1, <1>2, UIdleOk DEF UHandler, Accounts!Idle
  <2>3. uReq' = [uReq EXCEPT ![r] = h] /\ UNCHANGED <<uUsers, uMembers, Accounts!history>>
    BY <2>1 DEF Accounts!RegisterStart, Accounts!Start
  <2> HIDE DEF h
  <2> QED
    BY <2>2, <2>3, UStartsStep
<1>5. CASE \E n \in uNames, e \in uEmails :
             /\ Accounts!Start(r, [Accounts!Idle EXCEPT !.kind = "rust register", !.next = "exists",
                                                        !.name = n, !.email = e])
             /\ UNCHANGED <<uUsers, uMembers, Accounts!history>>
  <2>1. PICK n \in uNames, e \in uEmails :
             /\ Accounts!Start(r, [Accounts!Idle EXCEPT !.kind = "rust register", !.next = "exists",
                                                        !.name = n, !.email = e])
             /\ UNCHANGED <<uUsers, uMembers, Accounts!history>>
    BY <1>5
  <2> DEFINE h == [Accounts!Idle EXCEPT !.kind = "rust register", !.next = "exists",
                                     !.name = n, !.email = e]
  <2>2. h \in UHandler /\ h.next = "exists" /\ h.email = e
    BY <1>1, <1>2, UIdleOk DEF UHandler, Accounts!Idle
  <2>3. uReq' = [uReq EXCEPT ![r] = h] /\ UNCHANGED <<uUsers, uMembers, Accounts!history>>
    BY <2>1 DEF Accounts!Start
  <2> HIDE DEF h
  <2> QED
    BY <2>2, <2>3, UStartsStep
<1>6. CASE \E x \in uRows : Accounts!Login(r, x)
  <2>1. PICK x \in uRows : Accounts!Login(r, x)
    BY <1>6
  <2> DEFINE h == [Accounts!Idle EXCEPT !.kind = "login", !.next = "default", !.row = x]
  <2>2. h \in UHandler /\ h.next = "default"
    BY <1>1, <1>2, UIdleOk DEF UHandler, Accounts!Idle
  <2>3. uReq' = [uReq EXCEPT ![r] = h] /\ UNCHANGED <<uUsers, uMembers, Accounts!history>>
    BY <2>1 DEF Accounts!Login, Accounts!Start
  <2> HIDE DEF h
  <2> QED
    BY <2>2, <2>3, UStartsStep
<1>7. CASE \E x \in uRows, n \in uNames : Accounts!RenameStart(r, x, n)
  <2>1. PICK x \in uRows, n \in uNames : Accounts!RenameStart(r, x, n)
    BY <1>7
  <2> DEFINE h == [Accounts!Idle EXCEPT !.kind = "rename", !.next = "update", !.row = x, !.name = n]
  <2>2. h \in UHandler /\ h.next = "update"
    BY <1>1, <1>2, UIdleOk DEF UHandler, Accounts!Idle
  <2>3. uReq' = [uReq EXCEPT ![r] = h] /\ UNCHANGED <<uUsers, uMembers, Accounts!history>>
    BY <2>1 DEF Accounts!RenameStart, Accounts!Start
  <2> HIDE DEF h
  <2> QED
    BY <2>2, <2>3, UStartsStep
<1> QED
  BY <1>3, <1>4, <1>5, <1>6, <1>7

LEMMA ULookupSubStep ==
    ASSUME Accounts!AccountsAssumption, UInv, NEW r \in uReqs, Accounts!LookupSub(r)
    PROVE  UInv'
<1>1. PICK q \in UHandler : q = uReq[r]
  BY DEF UInv, Accounts!TypeOK, UHandler
<1>2. q.next = "sub" /\ UNCHANGED <<uUsers, Accounts!history>> /\ uMembers' \subseteq uRows
  BY <1>1 DEF Accounts!LookupSub, Accounts!At, UInv, Accounts!TypeOK
<1>3. CASE Accounts!End(r)
  BY <1>2, <1>3, UEndStep
<1>4. ASSUME NEW next \in {"name", "email"}, Accounts!Goto(r, next), next = "email" <=> q.email # uNoEmail
      PROVE  UInv'
  <2> DEFINE x == [q EXCEPT !.next = next]
  <2>1. x \in UHandler /\ x.next = next /\ x.email = q.email
    BY DEF UHandler, Accounts!Steps
  <2>2. UAsked(x) /\ ~ULate(x)
    BY <1>4, <2>1 DEF UAsked, ULate, UHandler, Accounts!AnyEmail
  <2>3. uReq' = [uReq EXCEPT ![r] = x]
    BY <1>1, <1>4 DEF Accounts!Goto, UInv, Accounts!TypeOK
  <2> HIDE DEF x
  <2> QED
    BY <1>2, <2>1, <2>2, <2>3, UQuietStep
<1>5. Accounts!End(r) \/ Accounts!Goto(r, IF q.email = uNoEmail THEN "name" ELSE "email")
  BY <1>1 DEF Accounts!LookupSub
<1> QED
  BY <1>3, <1>4, <1>5

(* The handler has found its email free, or has not been told.             *)
LEMMA UFoundStep ==
    ASSUME UInv, NEW r \in uReqs, NEW next \in Accounts!Steps, next \notin {"email", "exists"},
           Accounts!Goto(r, next), uReq[r].email \in uEmails, UFresh(r, uReq[r]),
           uRaced \subseteq uRaced', uRaced' \subseteq uEmails,
           UNCHANGED <<uUsers, uMembers, uCreator, uTaken>>
    PROVE  UInv'
<1>1. PICK q \in UHandler : q = uReq[r]
  BY DEF UInv, Accounts!TypeOK, UHandler
<1> DEFINE x == [q EXCEPT !.next = next]
<1>2. x \in UHandler /\ x.next = next /\ x.email = q.email
  BY DEF UHandler
<1>3. uReq' = [uReq EXCEPT ![r] = x]
  BY <1>1 DEF Accounts!Goto, UInv, Accounts!TypeOK
<1> HIDE DEF x
<1>4. UAsked(x)
  BY <1>2 DEF UAsked
<1>5. UFresh(r, x)
  BY <1>1, <1>2 DEF UFresh
<1>6. Accounts!TypeOK'
  BY <1>2, <1>3 DEF UInv, Accounts!TypeOK, UHandler
<1>7. ULinked' /\ UOwnSubs' /\ UEmailsKept
  BY DEF UInv, ULinked, UOwnSubs, UEmailsKept, Accounts!Live
<1> QED
  BY <1>2, <1>3, <1>4, <1>5, <1>6, <1>7, UAnyStep

LEMMA URaceFresh == ASSUME Accounts!TypeOK, NEW r \in uReqs, uReq[r].email \in uEmails,
                           Accounts!WithEmail(uReq[r].email) = {}, Accounts!Race(r, uReq[r].email)
                    PROVE  UFresh(r, uReq[r]) /\ uRaced \subseteq uRaced' /\ uRaced' \subseteq uEmails
<1>1. UFresh(r, uReq[r])
  BY DEF UFresh, Accounts!Race, ULate
<1> QED
  BY <1>1 DEF Accounts!Race, Accounts!TypeOK

LEMMA ULookupEmailStep ==
    ASSUME Accounts!AccountsAssumption, UInv, NEW r \in uReqs, Accounts!LookupEmail(r)
    PROVE  UInv'
<1>1. PICK q \in UHandler : q = uReq[r]
  BY DEF UInv, Accounts!TypeOK, UHandler
<1>2. q.next = "email" /\ UNCHANGED <<uUsers, uMembers, uCreator, uTaken>> /\ q.email \in uEmails
  BY <1>1 DEF Accounts!LookupEmail, Accounts!At, UInv, UAsked
<1>3. CASE Accounts!WithEmail(q.email) = {}
  <2>1. Accounts!Goto(r, "name") /\ Accounts!Race(r, q.email) /\ "name" \in Accounts!Steps
    BY <1>1, <1>3 DEF Accounts!LookupEmail, Accounts!Steps
  <2> QED
    BY <1>1, <1>2, <1>3, <2>1, URaceFresh, UFoundStep DEF UInv
<1>4. CASE Accounts!WithEmail(q.email) # {}
  <2>1. PICK y \in Accounts!WithEmail(q.email) :
          uReq' = [uReq EXCEPT ![r].next = "link", ![r].row = y]
    BY <1>1, <1>4 DEF Accounts!LookupEmail
  <2> DEFINE x == [q EXCEPT !.next = "link", !.row = y]
  <2>2. x \in UHandler /\ x.next = "link"
    BY DEF UHandler, Accounts!Steps, Accounts!WithEmail, Accounts!Live
  <2>3. UAsked(x) /\ ~ULate(x)
    BY <2>2 DEF UAsked, ULate
  <2>4. uReq' = [uReq EXCEPT ![r] = x] /\ UNCHANGED Accounts!history /\ uMembers' \subseteq uRows
    BY <1>1, <1>2, <1>4, <2>1 DEF Accounts!LookupEmail, Accounts!history, UInv, Accounts!TypeOK
  <2> HIDE DEF x
  <2> QED
    BY <1>2, <2>2, <2>3, <2>4, UQuietStep
<1> QED
  BY <1>3, <1>4

LEMMA UExistsStep ==
    ASSUME Accounts!AccountsAssumption, UInv, NEW r \in uReqs, Accounts!Exists(r) \/ Accounts!ExistsFails(r)
    PROVE  UInv'
<1>1. PICK q \in UHandler : q = uReq[r]
  BY DEF UInv, Accounts!TypeOK, UHandler
<1>2. /\ q.next = "exists" /\ UNCHANGED <<uUsers, uMembers, uCreator, uTaken>> /\ q.email \in uEmails
      /\ "insert" \in Accounts!Steps
  BY <1>1 DEF Accounts!Exists, Accounts!ExistsFails, Accounts!At, UInv, UAsked, Accounts!Steps
<1>3. CASE Accounts!Exists(r) /\ Accounts!WithEmail(q.email) # {}
  BY <1>1, <1>2, <1>3, UEndStep DEF Accounts!Exists, Accounts!history, UInv, Accounts!TypeOK
<1>4. CASE Accounts!Exists(r) /\ Accounts!WithEmail(q.email) = {}
  <2>1. Accounts!Goto(r, "insert") /\ Accounts!Race(r, q.email)
    BY <1>1, <1>4 DEF Accounts!Exists
  <2> QED
    BY <1>1, <1>2, <1>4, <2>1, URaceFresh, UFoundStep DEF UInv
<1>5. CASE Accounts!ExistsFails(r)
  <2>1. Accounts!Goto(r, "insert") /\ uRaced' = uRaced \union {q.email}
    BY <1>1, <1>5 DEF Accounts!ExistsFails
  <2>2. UFresh(r, q)
    BY <2>1 DEF UFresh
  <2> QED
    BY <1>1, <1>2, <2>1, <2>2, UFoundStep DEF UInv, Accounts!TypeOK
<1> QED
  BY <1>3, <1>4, <1>5

LEMMA UPickNameStep ==
    ASSUME Accounts!AccountsAssumption, UInv, NEW r \in uReqs, Accounts!PickName(r)
    PROVE  UInv'
<1>1. PICK q \in UHandler : q = uReq[r]
  BY DEF UInv, Accounts!TypeOK, UHandler
<1>2. PICK n \in uNames : uReq' = [uReq EXCEPT ![r].next = "insert", ![r].name = n]
  BY DEF Accounts!PickName
<1> DEFINE x == [q EXCEPT !.next = "insert", !.name = n]
<1>3. x \in UHandler /\ x.next = "insert" /\ x.email = q.email
  BY DEF UHandler, Accounts!Steps
<1>4. q.next = "name" /\ UNCHANGED <<uUsers, Accounts!history>> /\ uMembers' \subseteq uRows
  BY <1>1 DEF Accounts!PickName, Accounts!At, UInv, Accounts!TypeOK
<1>5. UAsked(x) /\ (ULate(x) => ULate(q) /\ x.email = q.email)
  BY <1>3, <1>4 DEF UAsked, ULate
<1>6. uReq' = [uReq EXCEPT ![r] = x]
  BY <1>1, <1>2 DEF UInv, Accounts!TypeOK
<1> HIDE DEF x
<1> QED
  BY <1>1, <1>3, <1>4, <1>5, <1>6, UQuietStep

(* An account is inserted: nobody has its name or subject, and its email   *)
(* is new, or in raced.                                                    *)
LEMMA UInsertStep ==
    ASSUME Accounts!AccountsAssumption, UInv, NEW r \in uReqs, Accounts!Insert(r)
    PROVE  UInv'
<1>1. PICK q \in UHandler : q = uReq[r]
  BY DEF UInv, Accounts!TypeOK, UHandler
<1>2. q.next = "insert" /\ UNCHANGED <<uMembers, uTaken, uRaced>> /\ uMembers' \subseteq uRows
  BY <1>1 DEF Accounts!Insert, Accounts!At, UInv, Accounts!TypeOK
<1>3. CASE ~(Accounts!WithName(q.name) = {} /\ (q.sub = uNoSub \/ Accounts!WithSub(q.sub) = {}))
  BY <1>1, <1>2, <1>3, UEndStep DEF Accounts!Insert, Accounts!history
<1>4. CASE Accounts!WithName(q.name) = {} /\ (q.sub = uNoSub \/ Accounts!WithSub(q.sub) = {})
  <2> DEFINE u == [live |-> TRUE, name |-> q.name, email |-> q.email, sub |-> q.sub]
  <2>1. PICK x \in uRows \ Accounts!Live : /\ uUsers' = [uUsers EXCEPT ![x] = u]
                                           /\ uCreator' = [uCreator EXCEPT ![x] = q.sub]
                                           /\ uReq' = [uReq EXCEPT ![r].next = "default", ![r].row = x]
    BY <1>1, <1>4 DEF Accounts!Insert
  <2>2. u \in Accounts!User /\ u.live /\ u.email = q.email /\ u.sub = q.sub
    BY DEF Accounts!User, UHandler
  <2> HIDE DEF u
  <2> DEFINE h == [q EXCEPT !.next = "default", !.row = x]
  <2>3. h \in UHandler /\ h.next = "default"
    BY DEF UHandler, Accounts!Steps
  <2>4. uReq' = [uReq EXCEPT ![r] = h]
    BY <1>1, <2>1 DEF UInv, Accounts!TypeOK
  <2> HIDE DEF h
  <2>5. \A s \in uReqs : uReq'[s] = IF s = r THEN h ELSE uReq[s]
    BY <2>4 DEF UInv, Accounts!TypeOK
  <2>6. \A y \in uRows : /\ uUsers'[y] = IF y = x THEN u ELSE uUsers[y]
                         /\ uCreator'[y] = IF y = x THEN q.sub ELSE uCreator[y]
    BY <2>1 DEF UInv, Accounts!TypeOK
  <2>7. Accounts!Live' = Accounts!Live \union {x} /\ x \in uRows /\ x \notin Accounts!Live
    BY <2>2, <2>6 DEF Accounts!Live
  <2>8. Accounts!TypeOK'
    <3>1. uUsers' \in [uRows -> Accounts!User] /\ uCreator' \in [uRows -> Accounts!AnySub]
      BY <2>1, <2>2 DEF UInv, Accounts!TypeOK, UHandler
    <3>2. uReq' \in [uReqs -> UHandler]
      BY <2>3, <2>4 DEF UInv, Accounts!TypeOK, UHandler
    <3> QED
      BY <1>2, <3>1, <3>2 DEF UInv, Accounts!TypeOK, UHandler
  <2>9. ULinked'
    BY <1>2, <2>2, <2>6 DEF UInv, ULinked
  <2>10. UOwnSubs'
    <3>1. q.sub \in uSubs => \A y \in Accounts!Live : uUsers[y].sub # q.sub
      BY <1>4 DEF Accounts!AccountsAssumption, Accounts!WithSub
    <3> QED
      BY <2>2, <2>6, <2>7, <3>1 DEF UInv, UOwnSubs, Accounts!Live
  <2>11. q.email # uNoEmail => (\A y \in Accounts!Live : uUsers[y].email # q.email) \/ q.email \in uRaced
    BY <1>1, <1>2 DEF UInv, UFree, ULate, Accounts!WithEmail
  <2>12. Accounts!SharedEmailsRaced'
    BY <1>2, <2>2, <2>6, <2>7, <2>11 DEF UInv, Accounts!SharedEmailsRaced, Accounts!Live
  <2>13. ASSUME NEW s \in uReqs PROVE UAsked(uReq[s])' /\ UFree(uReq[s])'
    <3>1. CASE s = r
      BY <2>3, <2>5, <3>1 DEF UAsked, UFree, ULate
    <3>2. CASE s # r
      <4>1. PICK p \in UHandler : p = uReq[s] /\ p = uReq'[s]
        BY <2>5, <3>2 DEF UInv, Accounts!TypeOK, UHandler
      <4>2. UAsked(p) /\ UFree(p)
        BY <4>1 DEF UInv
      <4>3. ULate(p) => Accounts!WithEmail(p.email)' = {} \/ p.email \in uRaced'
        <5>1. CASE p.email = q.email
          BY <1>1, <1>2, <3>2, <4>1, <5>1 DEF UInv, UAlone, ULate
        <5>2. CASE p.email # q.email
          <6>1. Accounts!WithEmail(p.email)' = Accounts!WithEmail(p.email)
            BY <2>2, <2>6, <2>7, <5>2 DEF Accounts!WithEmail, Accounts!Live
          <6> QED
            BY <1>2, <4>2, <6>1 DEF UFree
        <5> QED
          BY <5>1, <5>2
      <4> QED
        BY <4>1, <4>2, <4>3 DEF UAsked, UFree, ULate
    <3> QED
      BY <3>1, <3>2
  <2>14. UAlone'
    BY <1>2, <2>3, <2>5 DEF UInv, UAlone, ULate
  <2> QED
    BY <2>8, <2>9, <2>10, <2>12, <2>13, <2>14 DEF UInv
<1> QED
  BY <1>3, <1>4

(* An account is handed to another subject, and named in taken.            *)
LEMMA ULinkStep ==
    ASSUME Accounts!AccountsAssumption, UInv, NEW r \in uReqs, Accounts!Link(r)
    PROVE  UInv'
<1>1. PICK q \in UHandler : q = uReq[r]
  BY DEF UInv, Accounts!TypeOK, UHandler
<1>2. UNCHANGED <<uMembers, uCreator, uRaced>> /\ uMembers' \subseteq uRows /\ Accounts!End(r)
  BY DEF Accounts!Link, UInv, Accounts!TypeOK
<1>3. CASE ~(Accounts!WithSub(q.sub) \subseteq {q.row})
  BY <1>1, <1>2, <1>3, UEndStep DEF Accounts!Link, Accounts!history
<1>4. CASE Accounts!WithSub(q.sub) \subseteq {q.row}
  <2>1. PICK x \in uRows, v \in Accounts!AnySub : x = q.row /\ v = q.sub
    BY DEF UHandler
  <2>2. /\ uUsers' = [uUsers EXCEPT ![x].sub = v]
        /\ uTaken' = IF uUsers[x].sub = v THEN uTaken ELSE uTaken \union {x}
    BY <1>1, <1>4, <2>1 DEF Accounts!Link
  <2>3. \A y \in uRows : /\ uUsers[y] \in Accounts!User /\ uUsers'[y] \in Accounts!User
                         /\ uUsers'[y].live = uUsers[y].live /\ uUsers'[y].email = uUsers[y].email
                         /\ uUsers'[y].sub = IF y = x THEN v ELSE uUsers[y].sub
    BY <2>2 DEF UInv, Accounts!TypeOK, Accounts!User
  <2>4. UEmailsKept /\ Accounts!Live' = Accounts!Live
    BY <2>3 DEF UEmailsKept, Accounts!Live
  <2>5. Accounts!TypeOK'
    <3>1. uUsers' \in [uRows -> Accounts!User]
      BY <2>2, <2>3 DEF UInv, Accounts!TypeOK
    <3>2. uTaken' \subseteq uRows
      BY <2>2 DEF UInv, Accounts!TypeOK
    <3>3. uReq' \in [uReqs -> UHandler]
      BY <1>2, UIdleOk DEF Accounts!End, UInv, Accounts!TypeOK, UHandler
    <3> QED
      BY <1>2, <3>1, <3>2, <3>3 DEF UInv, Accounts!TypeOK, UHandler
  <2>6. ULinked'
    BY <1>2, <2>2, <2>3 DEF UInv, ULinked
  <2>7. UOwnSubs'
    <3>1. \A y \in Accounts!Live : uUsers[y].sub = v => y = x
      BY <1>4, <2>1 DEF Accounts!WithSub
    <3> QED
      BY <2>3, <2>4, <3>1 DEF UInv, UOwnSubs, Accounts!Live
  <2> HIDE DEF Accounts!Idle
  <2>8. uReq' = [uReq EXCEPT ![r] = Accounts!Idle]
    BY <1>2 DEF Accounts!End
  <2> QED
    BY <1>2, <2>4, <2>5, <2>6, <2>7, <2>8, UIdleOk, UAnyStep
<1> QED
  BY <1>3, <1>4

(* Only a name changes. *)
LEMMA UNameKeeps ==
    ASSUME UInv, NEW x \in uRows, NEW n \in uNames, uUsers' = [uUsers EXCEPT ![x].name = n],
           UNCHANGED <<uMembers, Accounts!history>>
    PROVE  /\ uUsers' \in [uRows -> Accounts!User]
           /\ UEmailsKept /\ ULinked' /\ UOwnSubs' /\ uRaced' = uRaced
<1>1. \A y \in uRows : /\ uUsers[y] \in Accounts!User /\ uUsers'[y] \in Accounts!User
                       /\ uUsers'[y].live = uUsers[y].live /\ uUsers'[y].email = uUsers[y].email
                       /\ uUsers'[y].sub = uUsers[y].sub
  BY DEF UInv, Accounts!TypeOK, Accounts!User
<1>2. uUsers' \in [uRows -> Accounts!User]
  BY <1>1 DEF UInv, Accounts!TypeOK
<1>3. UEmailsKept /\ Accounts!Live' = Accounts!Live /\ uRaced' = uRaced
  BY <1>1 DEF UEmailsKept, Accounts!Live, Accounts!history
<1> QED
  BY <1>1, <1>2, <1>3 DEF UInv, ULinked, UOwnSubs, Accounts!Live, Accounts!history

LEMMA URenameStep ==
    ASSUME Accounts!AccountsAssumption, UInv, NEW r \in uReqs, Accounts!Rename(r)
    PROVE  UInv'
<1>1. PICK q \in UHandler : q = uReq[r]
  BY DEF UInv, Accounts!TypeOK, UHandler
<1>2. UNCHANGED <<uMembers, Accounts!history>> /\ uMembers' \subseteq uRows /\ Accounts!End(r)
  BY DEF Accounts!Rename, UInv, Accounts!TypeOK
<1>3. CASE uUsers' = uUsers
  BY <1>2, <1>3, UEndStep
<1>4. CASE uUsers' = [uUsers EXCEPT ![q.row].name = q.name]
  <2>1. uUsers' \in [uRows -> Accounts!User] /\ UEmailsKept /\ ULinked' /\ UOwnSubs' /\ uRaced' = uRaced
    BY <1>2, <1>4, UNameKeeps DEF UHandler
  <2> HIDE DEF Accounts!Idle
  <2>2. uReq' = [uReq EXCEPT ![r] = Accounts!Idle]
    BY <1>2 DEF Accounts!End
  <2>3. Accounts!TypeOK'
    BY <1>2, <2>1, <2>2, UIdleOk DEF UInv, Accounts!TypeOK, UHandler, Accounts!history
  <2> QED
    BY <2>1, <2>2, <2>3, UIdleOk, UAnyStep
<1> QED
  BY <1>1, <1>3, <1>4 DEF Accounts!Rename

LEMMA UProfileStep ==
    ASSUME Accounts!AccountsAssumption, UInv, NEW x \in uRows, NEW n \in uNames,
           Accounts!update_profile(x, n)
    PROVE  UInv'
<1>1. /\ uUsers' \in [uRows -> Accounts!User] /\ UEmailsKept /\ ULinked' /\ UOwnSubs' /\ uRaced' = uRaced
      /\ uReq' = uReq /\ UNCHANGED <<uMembers, Accounts!history>>
  BY UNameKeeps DEF Accounts!update_profile
<1>2. Accounts!TypeOK'
  BY <1>1 DEF UInv, Accounts!TypeOK, Accounts!history
<1>3. \A e : Accounts!WithEmail(e)' = Accounts!WithEmail(e) /\ Accounts!Live' = Accounts!Live
  BY <1>1, USameEmails
<1>4. Accounts!SharedEmailsRaced'
  BY <1>1, <1>3 DEF UInv, Accounts!SharedEmailsRaced, UEmailsKept, Accounts!Live
<1>5. UAlone'
  BY <1>1 DEF UInv, UAlone
<1>6. ASSUME NEW s \in uReqs PROVE UAsked(uReq[s])' /\ UFree(uReq[s])'
  <2>1. PICK q \in UHandler : q = uReq[s] /\ q = uReq'[s]
    BY <1>1 DEF UInv, Accounts!TypeOK, UHandler
  <2>2. UAsked(q) /\ UFree(q)
    BY <2>1 DEF UInv
  <2>3. ULate(q) => Accounts!WithEmail(q.email)' = {} \/ q.email \in uRaced'
    BY <1>1, <1>3, <2>2 DEF UFree
  <2> QED
    BY <2>1, <2>2, <2>3 DEF UAsked, UFree, ULate
<1> QED
  BY <1>1, <1>2, <1>4, <1>5, <1>6 DEF UInv

LEMMA UEndsStep ==
    ASSUME Accounts!AccountsAssumption, UInv, NEW r \in uReqs,
           Accounts!Fail(r) \/ Accounts!DefaultMembership(r)
    PROVE  UInv'
<1>1. PICK q \in UHandler : q = uReq[r]
  BY DEF UInv, Accounts!TypeOK, UHandler
<1>2. uMembers' \subseteq uRows
  BY <1>1 DEF Accounts!Fail, Accounts!DefaultMembership, UInv, Accounts!TypeOK, UHandler
<1> QED
  BY <1>2, UEndStep DEF Accounts!Fail, Accounts!DefaultMembership
-----------------------------------------------------------------------------
LEMMA UStep == ASSUME Accounts!AccountsAssumption, UInv, [Accounts!BothNext]_Accounts!vars PROVE UInv'
<1>1. CASE UNCHANGED Accounts!vars
  <2>1. Accounts!TypeOK'
    BY <1>1 DEF Accounts!vars, UInv, Accounts!TypeOK
  <2>2. ULinked' /\ UOwnSubs' /\ Accounts!SharedEmailsRaced' /\ UAlone'
    BY <1>1 DEF Accounts!vars, UInv, ULinked, UOwnSubs, Accounts!SharedEmailsRaced, UAlone,
       Accounts!Live
  <2>3. \A s \in uReqs : UAsked(uReq[s])' /\ UFree(uReq[s])'
    BY <1>1 DEF Accounts!vars, UInv, UAsked, UFree, Accounts!WithEmail, Accounts!Live, ULate
  <2> QED
    BY <2>1, <2>2, <2>3 DEF UInv
<1>2. CASE \E x \in uRows, n \in uNames : Accounts!update_profile(x, n)
  BY <1>2, UProfileStep
<1>3. ASSUME NEW r \in uReqs,
             \/ Accounts!auth_shoo(r) \/ Accounts!find_or_create_shoo_user(r) \/ Accounts!auth_login(r)
             \/ Accounts!ensure_default_server_membership(r) \/ Accounts!auth_register(r) \/ Accounts!Fail(r)
             \/ \E n \in uNames, e \in uEmails : Accounts!RegisterStart(r, n, e)
             \/ uReq[r].kind = "register" /\ (Accounts!Exists(r) \/ Accounts!Insert(r))
             \/ \E x \in uRows, n \in uNames : Accounts!RenameStart(r, x, n)
             \/ Accounts!Rename(r)
      PROVE  UInv'
  <2>1. CASE Accounts!auth_shoo(r)
    BY <2>1, UAnyStart DEF Accounts!auth_shoo
  <2>2. CASE Accounts!find_or_create_shoo_user(r)
    BY <2>2, ULookupSubStep, ULookupEmailStep, ULinkStep, UPickNameStep, UInsertStep
    DEF Accounts!find_or_create_shoo_user, Accounts!ensure_unique_username
  <2>3. CASE Accounts!auth_login(r)
    BY <2>3, UAnyStart DEF Accounts!auth_login
  <2>4. CASE Accounts!ensure_default_server_membership(r) \/ Accounts!Fail(r)
    BY <2>4, UEndsStep DEF Accounts!ensure_default_server_membership
  <2>5. CASE Accounts!auth_register(r)
    BY <2>5, UAnyStart, UExistsStep, UInsertStep DEF Accounts!auth_register
  <2>6. CASE \E n \in uNames, e \in uEmails : Accounts!RegisterStart(r, n, e)
    BY <2>6, UAnyStart
  <2>7. CASE uReq[r].kind = "register" /\ (Accounts!Exists(r) \/ Accounts!Insert(r))
    BY <2>7, UExistsStep, UInsertStep
  <2>8. CASE \E x \in uRows, n \in uNames : Accounts!RenameStart(r, x, n)
    BY <2>8, UAnyStart
  <2>9. CASE Accounts!Rename(r)
    BY <2>9, URenameStep
  <2> QED
    BY <1>3, <2>1, <2>2, <2>3, <2>4, <2>5, <2>6, <2>7, <2>8, <2>9
<1> QED
  BY <1>1, <1>2, <1>3 DEF Accounts!BothNext

LEMMA UInvariance == ASSUME Accounts!AccountsAssumption PROVE Accounts!BothSpec => []UInv
<1>1. Accounts!Init => UInv
  BY UInit
<1>2. UInv /\ [Accounts!BothNext]_Accounts!vars => UInv'
  BY UStep
<1> QED
  BY <1>1, <1>2, PTL DEF Accounts!BothSpec

LEMMA AccountsInvariance == Accounts!BothSpec => [](Accounts!TypeOK /\ Accounts!SignIns)
<1>1. Accounts!BothSpec => []UInv
  BY UInvariance, PartsAssumption
<1>2. UInv => Accounts!TypeOK /\ Accounts!SignIns
  BY UOneAccount DEF UInv
<1> QED
  BY <1>1, <1>2, PTL
-----------------------------------------------------------------------------
(***************************************************************************)
(* The session of a tab: what is shown, and what was last rendered, follow *)
(* the token unless another session has come between.                      *)
(***************************************************************************)

(* With a token, its user is shown; or the page has just been opened, and   *)
(* nothing has been asked yet.                                             *)
SFollows == ~sCrossed => /\ sToken \in {sNobody, sStored}
                         /\ sStored # sNobody => \/ sUser = sStored
                                                 \/ ~sAuthed /\ \A c \in sChecks : sCheck[c] = sNobody

(* A fetch is live while the token is the one it was asked with. *)
SFetching == /\ ~sAuthed => sToken = sNobody
             /\ \A f \in sFetches : sFetch[f].live => sAuthed /\ (~sCrossed => sFetch[f].of = sStored)

SInv == Session!SessionAssumption /\ Session!TypeOK /\ Session!SessionHolds /\ SFollows /\ SFetching

LEMMA SInitInv == Session!SessionAssumption /\ Session!Init => SInv
<1> SUFFICES ASSUME Session!SessionAssumption, Session!Init PROVE SInv
  OBVIOUS
<1>1. Session!TypeOK
  BY DEF Session!Init, Session!TypeOK, Session!SomeUser, Session!NoList, Session!NoFetch,
     Session!Kinds
<1>2. Session!SessionHolds /\ SFollows /\ SFetching
  BY DEF Session!Init, Session!SessionHolds, Session!ShowsTokensUser, Session!CachesOwnLists,
     SFollows, SFetching, Session!NoList, Session!NoFetch
<1> QED
  BY <1>1, <1>2 DEF SInv

(* What a render leaves. *)
LEMMA SRenderIs ==
    ASSUME Session!TypeOK, sAuthed' \in BOOLEAN, sStored' \in Session!SomeUser, Session!Render
    PROVE  /\ sToken' = IF sAuthed' THEN sStored' ELSE sNobody
           /\ sLists' = IF sUser' = sUser THEN sLists ELSE [k \in Session!Kinds |-> Session!NoList]
           /\ sToken' \in Session!SomeUser
           /\ sLists' \in [Session!Kinds -> [of : Session!SomeUser, odd : BOOLEAN]]
           /\ sFetch' \in [sFetches -> [of : Session!SomeUser, kind : Session!Kinds,
              live : BOOLEAN]]
           /\ \A f \in sFetches : sFetch'[f].live =>
                 /\ sAuthed' /\ sFetch'[f].of = sStored'
                 /\ sFetch[f].live
<1>1. /\ sToken' = IF sAuthed' THEN sStored' ELSE sNobody
      /\ sLists' = IF sUser' = sUser THEN sLists ELSE [k \in Session!Kinds |-> Session!NoList]
      /\ sFetch' = [f \in sFetches |->
                       [sFetch[f] EXCEPT !.live = @ /\ sAuthed' /\ Session!AuthToken' = sFetch[f].of]]
  BY DEF Session!Render
<1>2. sToken' \in Session!SomeUser
  BY <1>1 DEF Session!SomeUser
<1>3. sLists' \in [Session!Kinds -> [of : Session!SomeUser, odd : BOOLEAN]]
  BY <1>1 DEF Session!TypeOK, Session!NoList, Session!SomeUser
<1>4. sAuthed' => Session!AuthToken' = sStored'
  BY <1>1 DEF Session!AuthToken
<1>5. ASSUME NEW f \in sFetches
      PROVE  /\ sFetch'[f] \in [of : Session!SomeUser, kind : Session!Kinds, live : BOOLEAN]
             /\ sFetch'[f].live => sAuthed' /\ sFetch'[f].of = sStored' /\ sFetch[f].live
  <2> DEFINE on == sFetch[f].live /\ sAuthed' /\ Session!AuthToken' = sFetch[f].of
  <2>1. sFetch'[f] = [sFetch[f] EXCEPT !.live = on]
    BY <1>1
  <2>2. on \in BOOLEAN
    BY DEF Session!TypeOK
  <2>3. sFetch[f] \in [of : Session!SomeUser, kind : Session!Kinds, live : BOOLEAN]
    BY DEF Session!TypeOK
  <2> HIDE DEF on
  <2>4. /\ sFetch'[f] \in [of : Session!SomeUser, kind : Session!Kinds, live : BOOLEAN]
        /\ sFetch'[f].live = on /\ sFetch'[f].of = sFetch[f].of
    BY <2>1, <2>2, <2>3
  <2> QED
    BY <1>4, <2>4 DEF on
<1>6. sFetch' \in [sFetches -> [of : Session!SomeUser, kind : Session!Kinds, live : BOOLEAN]]
  BY <1>1, <1>5
<1> QED
  BY <1>1, <1>2, <1>3, <1>5, <1>6

(* A step that shows the token's user, or nobody, or keeps what is shown,   *)
(* and renders, or has nothing to.                                         *)
SShows == \/ sCrossed'
          \/ /\ sStored' # sNobody /\ sUser' = sStored' /\ sSaved' = sStored'
          \/ /\ sStored' = sNobody /\ sUser' = sNobody /\ ~sAuthed'

LEMMA SShowsStep ==
    ASSUME SInv, SShows,
           sUser' \in Session!SomeUser, sAuthed' \in BOOLEAN, sStored' \in Session!SomeUser,
              sSaved' \in Session!SomeUser,
           sLoading' \in BOOLEAN, sCrossed' \in BOOLEAN,
           sCheck' \in [sChecks -> Session!SomeUser], sUpdate' \in [sUpdates -> Session!SomeUser],
           \/ Session!Render
           \/ /\ UNCHANGED <<sUser, sAuthed, sToken, sFetch, sLists>>
              /\ ~sCrossed' => sStored' = sNobody \/ (~sCrossed /\ sStored' = sStored)
    PROVE  SInv'
<1>1. CASE Session!Render
  <2>1. /\ sToken' = IF sAuthed' THEN sStored' ELSE sNobody
        /\ sLists' = IF sUser' = sUser THEN sLists ELSE [k \in Session!Kinds |-> Session!NoList]
        /\ sToken' \in Session!SomeUser
        /\ sLists' \in [Session!Kinds -> [of : Session!SomeUser, odd : BOOLEAN]]
        /\ sFetch' \in [sFetches -> [of : Session!SomeUser, kind : Session!Kinds, live : BOOLEAN]]
        /\ \A f \in sFetches : sFetch'[f].live =>
              sAuthed' /\ sFetch'[f].of = sStored' /\ sFetch[f].live
    BY <1>1, SRenderIs DEF SInv
  <2>2. Session!TypeOK'
    BY <2>1 DEF Session!TypeOK
  <2>3. Session!CachesOwnLists'
    BY <2>1 DEF SInv, Session!SessionHolds, Session!CachesOwnLists, Session!NoList
  <2>4. Session!ShowsTokensUser' /\ SFollows' /\ SFetching'
    BY <2>1 DEF SShows, Session!ShowsTokensUser, SFollows, SFetching
  <2> QED
    BY <2>2, <2>3, <2>4 DEF SInv, Session!SessionHolds, Session!SessionAssumption
<1>2. CASE /\ UNCHANGED <<sUser, sAuthed, sToken, sFetch, sLists>>
           /\ ~sCrossed' => sStored' = sNobody \/ (~sCrossed /\ sStored' = sStored)
  <2>1. Session!TypeOK'
    BY <1>2 DEF SInv, Session!TypeOK
  <2>2. Session!CachesOwnLists'
    BY <1>2 DEF SInv, Session!SessionHolds, Session!CachesOwnLists
  <2>3. Session!ShowsTokensUser' /\ SFollows' /\ SFetching'
    BY <1>2 DEF SInv, SShows, Session!ShowsTokensUser, SFollows, SFetching
  <2> QED
    BY <2>1, <2>2, <2>3 DEF SInv, Session!SessionHolds, Session!SessionAssumption
<1> QED
  BY <1>1, <1>2

(* RenderIfChanged, in the two cases of ShowsStep. *)
LEMMA SRenders == ASSUME Session!RenderIfChanged
                  PROVE  Session!Render \/ UNCHANGED <<sUser, sAuthed, sToken, sFetch, sLists>>
  BY DEF Session!RenderIfChanged

LEMMA SReloadStep == ASSUME SInv, Session!Reload PROVE SInv'
<1>1. Session!TypeOK'
  BY DEF SInv, Session!TypeOK, Session!Reload, Session!local, Session!SomeUser, Session!NoList,
     Session!NoFetch, Session!Kinds
<1>2. Session!SessionHolds' /\ SFollows' /\ SFetching'
  BY DEF SInv, Session!SessionHolds, Session!ShowsTokensUser, Session!CachesOwnLists, SFollows,
     SFetching, Session!Reload, Session!local,
         Session!NoList, Session!NoFetch
<1> QED
  BY <1>1, <1>2 DEF SInv, Session!SessionAssumption

LEMMA SLoginStep == ASSUME SInv, NEW u \in sUsers, Session!Login(u) PROVE SInv'
<1>1. /\ sStored' = u /\ sSaved' = u /\ sUser' = u /\ sAuthed' = TRUE /\ sCrossed' = FALSE
      /\ UNCHANGED <<sLoading, sCheck, sUpdate>>
      /\ Session!Render
  BY DEF Session!Login
<1>2. u # sNobody /\ u \in Session!SomeUser
  BY DEF SInv, Session!SessionAssumption, Session!SomeUser
<1> QED
  BY <1>1, <1>2, SShowsStep DEF SShows, SInv, Session!TypeOK

LEMMA SLogoutStep ==
    ASSUME SInv,
           \/ Session!Logout \/ Session!CheckWithout
           \/ \E c \in sChecks : Session!CheckRefused(c)
    PROVE  SInv'
<1>1. /\ sStored' = sNobody /\ sUser' = sNobody /\ sAuthed' = FALSE /\ sCrossed' = FALSE
      /\ sSaved' \in Session!SomeUser /\ sLoading' \in BOOLEAN
      /\ sCheck' \in [sChecks -> Session!SomeUser] /\ sUpdate' \in [sUpdates -> Session!SomeUser]
      /\ Session!RenderIfChanged
  BY DEF Session!Logout, Session!SignOut, Session!CheckWithout, Session!CheckRefused,
     Session!CheckEnds, Session!local, SInv, Session!TypeOK, Session!SomeUser
<1>2. /\ sStored' \in Session!SomeUser /\ sUser' \in Session!SomeUser
      /\ sAuthed' \in BOOLEAN /\ sCrossed' \in BOOLEAN
  BY <1>1 DEF Session!SomeUser
<1>3. SShows
  BY <1>1 DEF SShows
<1>4. ~sCrossed' => sStored' = sNobody
  BY <1>1
<1>5. \/ Session!Render
      \/ /\ UNCHANGED <<sUser, sAuthed, sToken, sFetch, sLists>>
         /\ ~sCrossed' => sStored' = sNobody \/ (~sCrossed /\ sStored' = sStored)
  BY <1>1, <1>4, SRenders
<1>6. /\ sSaved' \in Session!SomeUser /\ sLoading' \in BOOLEAN
      /\ sCheck' \in [sChecks -> Session!SomeUser] /\ sUpdate' \in [sUpdates -> Session!SomeUser]
  BY <1>1
<1> QED
  BY <1>2, <1>3, <1>5, <1>6, SShowsStep

LEMMA SOtherTabStep == ASSUME SInv, Session!OtherTab PROVE SInv'
<1>1. Session!TypeOK'
  BY DEF SInv, Session!TypeOK, Session!OtherTab, Session!shown
<1>2. Session!SessionHolds' /\ SFollows' /\ SFetching'
  BY DEF SInv, Session!SessionHolds, Session!ShowsTokensUser, Session!CachesOwnLists, SFollows,
     SFetching, Session!OtherTab, Session!shown
<1> QED
  BY <1>1, <1>2 DEF SInv, Session!SessionAssumption

(* Who is shown without the token's being, is nobody. *)
LEMMA SNobodyYet == ASSUME SInv, ~sCrossed, sStored # sNobody
                    PROVE  sSaved = sStored /\ sUser \in {sNobody, sStored}
  BY DEF SInv, Session!SessionHolds, Session!ShowsTokensUser

LEMMA SCheckStep == ASSUME SInv, NEW c \in sChecks, Session!Check(c) PROVE SInv'
<1>1. /\ sStored # sNobody
      /\ UNCHANGED <<sLoading, sStored, sSaved, sUpdate, sCrossed>>
      /\ sCheck' = [sCheck EXCEPT ![c] = sStored]
      /\ Session!RenderIfChanged
  BY DEF Session!Check, Session!local
<1>2. /\ sSaved = sNobody => UNCHANGED <<sUser, sAuthed>>
      /\ sSaved # sNobody => /\ sUser' = IF sUser = sNobody THEN sSaved ELSE sUser
                             /\ sAuthed' = TRUE
  BY DEF Session!Check
<1>3. sUser' \in Session!SomeUser /\ sAuthed' \in BOOLEAN
  BY <1>2 DEF SInv, Session!TypeOK
<1>4. sCheck' \in [sChecks -> Session!SomeUser]
  BY <1>1 DEF SInv, Session!TypeOK
<1>5. SShows
  BY <1>1, <1>2, SNobodyYet DEF SShows
<1>6. /\ sCrossed' \in BOOLEAN /\ sLoading' \in BOOLEAN
      /\ sStored' \in Session!SomeUser /\ sSaved' \in Session!SomeUser
      /\ sUpdate' \in [sUpdates -> Session!SomeUser]
  BY <1>1 DEF SInv, Session!TypeOK
<1>7. ~sCrossed' => ~sCrossed /\ sStored' = sStored
  BY <1>1
<1> QED
  BY <1>1, <1>3, <1>4, <1>5, <1>6, <1>7, SRenders, SShowsStep

LEMMA SCheckEndsIs == ASSUME SInv, NEW c \in sChecks, Session!CheckEnds(c)
                      PROVE  /\ sCheck[c] \in sUsers /\ sLoading' \in BOOLEAN
                             /\ sCheck' \in [sChecks -> Session!SomeUser] /\ sUpdate' \in [sUpdates -> Session!SomeUser]
  BY DEF Session!CheckEnds, SInv, Session!TypeOK, Session!SomeUser

LEMMA SCheckAnswersStep == ASSUME SInv, NEW c \in sChecks, Session!CheckAnswers(c) PROVE SInv'
<1>1. /\ sAuthed' = TRUE /\ sUser' = sCheck[c] /\ sSaved' = sCheck[c] /\ sStored' = sStored
      /\ Session!Render
      /\ sCrossed' = (sStored # sCheck[c])
      /\ Session!CheckEnds(c)
  BY DEF Session!CheckAnswers, Session!Believe
<1>2. sCheck[c] # sNobody
  BY <1>1 DEF Session!CheckEnds
<1> QED
  BY <1>1, <1>2, SCheckEndsIs, SShowsStep DEF SShows, SInv, Session!TypeOK, Session!SomeUser

LEMMA SCheckFailsStep == ASSUME SInv, NEW c \in sChecks, Session!CheckFails(c) PROVE SInv'
<1>1. /\ sAuthed' = (sAuthed \/ sStored # sNobody)
      /\ UNCHANGED <<sStored, sSaved, sUser, sCrossed>>
      /\ Session!RenderIfChanged /\ Session!CheckEnds(c) /\ sCheck[c] # sNobody
  BY DEF Session!CheckFails, Session!CheckEnds, Session!local
<1>2. SShows
  BY <1>1 DEF SShows, SInv, Session!SessionHolds, Session!ShowsTokensUser, SFollows
<1>3. sAuthed' \in BOOLEAN
  BY <1>1
<1> QED
  BY <1>1, <1>2, <1>3, SCheckEndsIs, SRenders, SShowsStep DEF SInv, Session!TypeOK

LEMMA SSaveStep == ASSUME SInv, NEW p \in sUpdates, Session!Save(p) PROVE SInv'
<1>1. /\ UNCHANGED <<sStored, sSaved, sUser, sAuthed, sLoading, sToken, sLists, sCheck, sFetch,
                     sCrossed>>
      /\ sUpdate' = [sUpdate EXCEPT ![p] = Session!AuthToken]
  BY DEF Session!Save, Session!local, Session!shown
<1>2. sUpdate' \in [sUpdates -> Session!SomeUser]
  BY <1>1 DEF SInv, Session!TypeOK, Session!AuthToken
<1>3. Session!TypeOK'
  BY <1>1, <1>2 DEF SInv, Session!TypeOK
<1>4. Session!SessionHolds' /\ SFollows' /\ SFetching'
  BY <1>1 DEF SInv, Session!SessionHolds, Session!ShowsTokensUser, Session!CachesOwnLists,
     SFollows, SFetching
<1> QED
  BY <1>3, <1>4 DEF SInv, Session!SessionAssumption

LEMMA SSavedStep == ASSUME SInv, NEW p \in sUpdates, Session!Saved(p) PROVE SInv'
<1>1. /\ sUpdate[p] # sNobody /\ sUpdate[p] \in Session!SomeUser
      /\ sUpdate' \in [sUpdates -> Session!SomeUser]
  BY DEF Session!Saved, SInv, Session!TypeOK, Session!SomeUser
<1>2. CASE /\ UNCHANGED <<sAuthed, sLoading, sCheck>>
           /\ Session!Believe(sUpdate[p])
           /\ sCrossed' = (sCrossed \/ sStored # sUpdate[p])
  <2>1. /\ sUser' = sUpdate[p] /\ sSaved' = sUpdate[p] /\ sStored' = sStored /\ Session!Render
    BY <1>2 DEF Session!Believe
  <2> QED
    BY <1>1, <1>2, <2>1, SShowsStep DEF SShows, SInv, Session!TypeOK
<1>3. CASE UNCHANGED <<Session!local, Session!shown, sLists, sCheck, sFetch, sCrossed>>
  <2>1. Session!TypeOK'
    BY <1>1, <1>3 DEF SInv, Session!TypeOK, Session!local, Session!shown
  <2>2. Session!SessionHolds' /\ SFollows' /\ SFetching'
    BY <1>3 DEF SInv, Session!SessionHolds, Session!ShowsTokensUser, Session!CachesOwnLists,
       SFollows, SFetching, Session!local, Session!shown
  <2> QED
    BY <2>1, <2>2 DEF SInv, Session!SessionAssumption
<1> QED
  BY <1>2, <1>3 DEF Session!Saved

LEMMA SFetchStep == ASSUME SInv, NEW f \in sFetches, NEW k \in Session!Kinds, Session!Fetch(f,
                           k) PROVE SInv'
<1> DEFINE new == [of |-> Session!AuthToken, kind |-> k, live |-> TRUE]
<1>1. /\ sAuthed
      /\ sFetch' = [sFetch EXCEPT ![f] = new]
      /\ UNCHANGED <<sStored, sSaved, sUser, sAuthed, sLoading, sToken, sLists, sCheck, sUpdate,
                     sCrossed>>
  BY DEF Session!Fetch, Session!local, Session!shown
<1>2. Session!AuthToken \in Session!SomeUser
  BY DEF SInv, Session!TypeOK, Session!AuthToken
<1>3. sFetch' \in [sFetches -> [of : Session!SomeUser, kind : Session!Kinds, live : BOOLEAN]]
  BY <1>1, <1>2 DEF SInv, Session!TypeOK
<1>4. Session!TypeOK'
  BY <1>1, <1>3 DEF SInv, Session!TypeOK
<1>5. Session!SessionHolds' /\ SFollows'
  BY <1>1 DEF SInv, Session!SessionHolds, Session!ShowsTokensUser, Session!CachesOwnLists, SFollows
<1>6. ~sCrossed => Session!AuthToken = sStored
  BY DEF SInv, SFollows, Session!AuthToken
<1>7. SFetching'
  <2>1. \A g \in sFetches : sFetch'[g] = IF g = f THEN new ELSE sFetch[g]
    BY <1>1 DEF SInv, Session!TypeOK
  <2> QED
    BY <1>1, <1>6, <2>1 DEF SInv, SFetching
<1> QED
  BY <1>4, <1>5, <1>7 DEF SInv, Session!SessionAssumption

LEMMA SFetchedStep == ASSUME SInv, NEW f \in sFetches, Session!Fetched(f) PROVE SInv'
<1> DEFINE new == [of |-> sFetch[f].of, odd |-> sCrossed \/ ~sFetch[f].live]
<1>1. /\ sFetch' = [sFetch EXCEPT ![f] = Session!NoFetch]
      /\ UNCHANGED <<sStored, sSaved, sUser, sAuthed, sLoading, sToken, sCheck, sUpdate, sCrossed>>
      /\ sLists' = sLists \/ sLists' = [sLists EXCEPT ![sFetch[f].kind] = new]
  BY DEF Session!Fetched, Session!local, Session!shown
<1>2. /\ sFetch[f].of \in Session!SomeUser /\ sFetch[f].kind \in Session!Kinds
      /\ sFetch[f].live \in BOOLEAN /\ sCrossed \in BOOLEAN
  BY DEF SInv, Session!TypeOK
<1>3. new \in [of : Session!SomeUser, odd : BOOLEAN]
  BY <1>2
<1>4. sFetch' \in [sFetches -> [of : Session!SomeUser, kind : Session!Kinds, live : BOOLEAN]]
  BY <1>1 DEF SInv, Session!TypeOK, Session!NoFetch, Session!SomeUser, Session!Kinds
<1>5. Session!TypeOK'
  <2> HIDE DEF new
  <2>1. sLists' \in [Session!Kinds -> [of : Session!SomeUser, odd : BOOLEAN]]
    BY <1>1, <1>2, <1>3 DEF SInv, Session!TypeOK
  <2> QED
    BY <1>1, <1>4, <2>1 DEF SInv, Session!TypeOK
<1>6. new.of \in {sNobody, sUser} \/ new.odd
  <2> SUFFICES ASSUME ~sCrossed, sFetch[f].live PROVE sFetch[f].of = sUser
    BY <1>2
  <2> QED
    BY DEF SInv, SFetching, SFollows, Session!SessionHolds, Session!ShowsTokensUser
<1>7. Session!CachesOwnLists'
  <2>1. \A k \in Session!Kinds : sLists'[k] = sLists[k] \/ sLists'[k] = new
    BY <1>1 DEF SInv, Session!TypeOK
  <2> QED
    BY <1>1, <1>6, <2>1 DEF SInv, Session!SessionHolds, Session!CachesOwnLists
<1>8. Session!ShowsTokensUser' /\ SFollows'
  BY <1>1 DEF SInv, Session!SessionHolds, Session!ShowsTokensUser, SFollows
<1>9. SFetching'
  <2>1. \A g \in sFetches : sFetch'[g] = IF g = f THEN Session!NoFetch ELSE sFetch[g]
    BY <1>1 DEF SInv, Session!TypeOK
  <2> QED
    BY <1>1, <2>1 DEF SInv, SFetching, Session!NoFetch
<1> QED
  BY <1>5, <1>7, <1>8, <1>9 DEF SInv, Session!SessionHolds, Session!SessionAssumption

LEMMA SStep == SInv /\ [Session!Next]_Session!vars => SInv'
<1>1. ASSUME SInv, UNCHANGED Session!vars PROVE SInv'
  BY <1>1 DEF Session!vars, Session!local, Session!shown, SInv, Session!TypeOK,
     Session!SessionHolds, Session!ShowsTokensUser, Session!CachesOwnLists,
              SFollows, SFetching, Session!SessionAssumption
<1>2. ASSUME SInv, Session!Next PROVE SInv'
  BY <1>2, SReloadStep, SLoginStep, SLogoutStep, SOtherTabStep, SCheckStep, SCheckAnswersStep,
     SCheckFailsStep, SSaveStep, SSavedStep, SFetchStep, SFetchedStep DEF Session!Next,
        Session!exchangeToken
<1> QED
  BY <1>1, <1>2

LEMMA SInvariance == ASSUME Session!SessionAssumption PROVE Session!Spec => []SInv
  BY SInitInv, SStep, PTL DEF Session!Spec
-----------------------------------------------------------------------------
(***************************************************************************)
(* The requests of the API client: nobody has read, or written, what is yet *)
(* to be performed, and whatever begins to be cached knows what was         *)
(* answered when it was read.                                              *)
(***************************************************************************)

GRead1 == [stage : {"sent", "read"}, key : Api!Keys, version : Nat, overlapped : BOOLEAN]

GWritesKnown == \A w \in gWriters : gWrites[w].version <= gVersion

GInv == /\ Api!ApiAssumption
        /\ Api!TypeOK
        /\ gRequests = [r \in gRequestIds |-> gRequests[r]]
        /\ gCached = [k \in Api!Keys |-> gCached[k]]
        /\ GWritesKnown
        /\ Api!AnswersHold

(* No call goes both through `get' and past it. *)
LEMMA GOneWay == Api!Through("get") \intersect Api!Through("request") = {}
<1>1. \A c \in Api!Through("request") : c \in {"socketInfo", "getChannelPermissions", "inviteInfo"}
  BY DEF Api!Through, Api!ListCalls, Api!MessageCalls, Api!SessionCalls, Api!ServerCalls,
     Api!MemberCalls, Api!ChannelCalls,
         Api!ProfileCalls, Api!NoticeCalls
<1>2. \A c \in {"socketInfo", "getChannelPermissions", "inviteInfo"} : c \notin Api!Through("get")
  BY DEF Api!Through, Api!ListCalls, Api!MessageCalls, Api!SessionCalls, Api!ServerCalls,
     Api!MemberCalls, Api!ChannelCalls,
         Api!ProfileCalls, Api!NoticeCalls
<1> QED
  BY <1>1, <1>2

(* What a request is. *)
LEMMA GKinds == ASSUME Api!TypeOK, NEW r \in gRequestIds, gRequests[r] # Api!NoRequest
                PROVE  /\ gRequests[r] \in GRead1
                       /\ gRequests[r].stage \in {"sent", "read"}
                       /\ gRequests[r].key \in Api!Keys
                       /\ gRequests[r].version \in Nat
  BY DEF Api!TypeOK, GRead1

LEMMA GInitInv == Api!ApiAssumption /\ Api!Init => GInv
  BY DEF Api!ApiAssumption, Api!Init, GInv, Api!TypeOK, GWritesKnown, Api!AnswersHold,
     Api!OwnWritesSeen,
         Api!JoinsLiveRequest, Api!NoRequest

(* A request that is sent is one of its key that is under way.              *)
LEMMA GSendStep ==
    ASSUME GInv, NEW r \in gRequestIds, NEW k \in Api!Keys, Api!Get(r, k) \/ Api!Request(r, k)
    PROVE  GInv'
<1> DEFINE new == [stage |-> "sent", key |-> k, version |-> 0, overlapped |-> FALSE]
<1>1. /\ gRequests[r] = Api!NoRequest
      /\ gRequests' = [gRequests EXCEPT ![r] = new]
      /\ UNCHANGED <<gVersion, gAcked, gWrites, gCached>>
  BY DEF Api!Get, Api!Request, Api!Send
<1>2. new \in GRead1 /\ new # Api!NoRequest /\ new.stage = "sent"
  BY DEF GRead1, Api!NoRequest
<1>3. /\ gRequests' = [q \in gRequestIds |-> gRequests'[q]]
      /\ gRequests'[r] = new
      /\ \A q \in gRequestIds \ {r} : gRequests'[q] = gRequests[q]
  BY <1>1 DEF GInv
<1>4. Api!TypeOK'
  <2>1. gInflight' \in [Api!Keys -> gRequestIds \union {gNobody}]
    BY DEF GInv, Api!TypeOK, Api!Get, Api!Request
  <2> QED
    BY <1>1, <1>2, <1>3, <2>1 DEF GInv, Api!TypeOK, GRead1
<1>5. Api!OwnWritesSeen'
  BY <1>1, <1>2, <1>3 DEF GInv, Api!AnswersHold, Api!OwnWritesSeen
<1>6. Api!JoinsLiveRequest'
  <2> SUFFICES ASSUME NEW j \in Api!Keys, NEW q \in gRequestIds
               PROVE  gInflight'[j] = q <=> /\ gRequests'[q] # Api!NoRequest
                                            /\ gRequests'[q].key = j
                                            /\ j.call \in Api!Through("get")
    BY DEF Api!JoinsLiveRequest
  <2>1. gInflight[j] = q <=> /\ gRequests[q] # Api!NoRequest
                             /\ gRequests[q].key = j
                             /\ j.call \in Api!Through("get")
    BY DEF GInv, Api!AnswersHold, Api!JoinsLiveRequest
  <2>2. gInflight[j] # r
    BY <1>1 DEF GInv, Api!AnswersHold, Api!JoinsLiveRequest
  <2>3. CASE Api!Get(r, k)
    <3>1. /\ gInflight' = [gInflight EXCEPT ![k] = r]
          /\ gInflight[k] = gNobody
          /\ k.call \in Api!Through("get")
      BY <2>3 DEF Api!Get
    <3>2. gInflight'[j] = IF j = k THEN r ELSE gInflight[j]
      BY <3>1 DEF GInv, Api!TypeOK
    <3>3. q # gNobody
      BY DEF GInv, Api!ApiAssumption
    <3> QED
      BY <1>2, <1>3, <2>1, <2>2, <3>1, <3>2, <3>3
  <2>4. CASE Api!Request(r, k)
    <3>1. gInflight' = gInflight /\ k.call \notin Api!Through("get")
      BY <2>4, GOneWay DEF Api!Request
    <3> QED
      BY <1>2, <1>3, <2>1, <2>2, <3>1
  <2> QED
    BY <2>3, <2>4
<1> QED
  BY <1>1, <1>3, <1>4, <1>5, <1>6 DEF GInv, GWritesKnown, Api!AnswersHold, Api!ApiAssumption

LEMMA GReadStep == ASSUME GInv, NEW r \in gRequestIds, Api!Read(r) PROVE GInv'
<1> DEFINE new == [gRequests[r] EXCEPT !.stage = "read", !.version = gVersion]
<1>1. /\ gRequests[r].stage = "sent"
      /\ gRequests' = [gRequests EXCEPT ![r] = new]
      /\ UNCHANGED <<gVersion, gAcked, gWrites, gInflight, gCached>>
  BY DEF Api!Read
<1>2. gRequests[r] # Api!NoRequest
  BY <1>1 DEF Api!NoRequest
<1>3. gRequests[r] \in GRead1
  BY <1>2, GKinds DEF GInv
<1>4. /\ new \in GRead1 /\ new # Api!NoRequest
      /\ new.key = gRequests[r].key /\ new.version = gVersion
  BY <1>3 DEF GRead1, Api!NoRequest, GInv, Api!TypeOK
<1>5. /\ gRequests' = [q \in gRequestIds |-> gRequests'[q]]
      /\ gRequests'[r] = new
      /\ \A q \in gRequestIds \ {r} : gRequests'[q] = gRequests[q]
  BY <1>1 DEF GInv
<1>6. Api!TypeOK'
  BY <1>1, <1>4, <1>5 DEF GInv, Api!TypeOK, GRead1
<1>7. Api!OwnWritesSeen'
  <2>1. gVersion >= gAcked
    BY DEF GInv, Api!TypeOK
  <2> QED
    BY <1>1, <1>4, <1>5, <2>1 DEF GInv, Api!AnswersHold, Api!OwnWritesSeen
<1>8. Api!JoinsLiveRequest'
  BY <1>1, <1>2, <1>4, <1>5 DEF GInv, Api!AnswersHold, Api!JoinsLiveRequest
<1> QED
  BY <1>1, <1>5, <1>6, <1>7, <1>8 DEF GInv, GWritesKnown, Api!AnswersHold, Api!ApiAssumption

(* What ends leaves `inflightGetRequests', and what is cached is what it    *)
(* was answered.                                                           *)
LEMMA GEndedStep == ASSUME GInv, NEW r \in gRequestIds, Api!Answered(r) \/ Api!Failed(r) PROVE GInv'
<1>1. gRequests[r] # Api!NoRequest
  BY DEF Api!Answered, Api!Failed, Api!NoRequest
<1>2. /\ gRequests[r] \in GRead1 /\ gRequests[r].key \in Api!Keys
  BY <1>1, GKinds DEF GInv
<1>3. /\ gRequests' = [gRequests EXCEPT ![r] = Api!NoRequest]
      /\ gInflight' = IF gRequests[r].key.call \in Api!Through("get")
                      THEN [gInflight EXCEPT ![gRequests[r].key] = gNobody] ELSE gInflight
      /\ UNCHANGED <<gVersion, gAcked, gWrites>>
  BY DEF Api!Answered, Api!Failed, Api!Ended
<1>4. /\ gRequests' = [q \in gRequestIds |-> gRequests'[q]]
      /\ gRequests'[r] = Api!NoRequest
      /\ \A q \in gRequestIds \ {r} : gRequests'[q] = gRequests[q]
  BY <1>3 DEF GInv
<1>5. /\ gCached' = [k \in Api!Keys |-> gCached'[k]]
      /\ \A k \in Api!Keys : \/ gCached'[k] = gCached[k]
                             \/ /\ gRequests[r].stage = "read"
                                /\ gCached'[k] = [version |-> gRequests[r].version,
                                                  overlapped |-> gRequests[r].overlapped]
  BY <1>2 DEF Api!Answered, Api!Failed, GInv
<1>6. Api!TypeOK'
  <2>1. gInflight' \in [Api!Keys -> gRequestIds \union {gNobody}]
    BY <1>3 DEF GInv, Api!TypeOK
  <2>2. \A k \in Api!Keys : gCached'[k] = Api!NoAnswer \/ gCached'[k] \in Api!Answers
    BY <1>2, <1>5 DEF GInv, Api!TypeOK, Api!Answers, GRead1
  <2> QED
    BY <1>3, <1>4, <2>1, <2>2 DEF GInv, Api!TypeOK
<1>7. Api!OwnWritesSeen'
  <2>1. \A q \in gRequestIds : gRequests'[q].stage = "read" =>
           gRequests'[q].overlapped \/ gRequests'[q].version >= gAcked'
    BY <1>3, <1>4 DEF GInv, Api!AnswersHold, Api!OwnWritesSeen, Api!NoRequest
  <2>2. \A k \in Api!Keys : \/ gCached'[k] = Api!NoAnswer \/ gCached'[k].overlapped
                           \/ gCached'[k].version >= gAcked'
    BY <1>3, <1>5 DEF GInv, Api!AnswersHold, Api!OwnWritesSeen
  <2> QED
    BY <2>1, <2>2 DEF Api!OwnWritesSeen
<1>8. Api!JoinsLiveRequest'
  <2> SUFFICES ASSUME NEW j \in Api!Keys, NEW q \in gRequestIds
               PROVE  gInflight'[j] = q <=> /\ gRequests'[q] # Api!NoRequest
                                            /\ gRequests'[q].key = j
                                            /\ j.call \in Api!Through("get")
    BY DEF Api!JoinsLiveRequest
  <2>1. \A s \in gRequestIds : gInflight[j] = s <=> /\ gRequests[s] # Api!NoRequest
                                                    /\ gRequests[s].key = j
                                                    /\ j.call \in Api!Through("get")
    BY DEF GInv, Api!AnswersHold, Api!JoinsLiveRequest
  <2>2. gInflight'[j] = IF gRequests[r].key.call \in Api!Through("get") /\ gRequests[r].key = j
                        THEN gNobody ELSE gInflight[j]
    BY <1>2, <1>3 DEF GInv, Api!TypeOK
  <2>3. q # gNobody
    BY DEF GInv, Api!ApiAssumption
  <2> QED
    BY <1>1, <1>4, <2>1, <2>2, <2>3
<1> QED
  BY <1>3, <1>4, <1>5, <1>6, <1>7, <1>8 DEF GInv, GWritesKnown, Api!AnswersHold, Api!ApiAssumption

LEMMA GExpireStep == ASSUME GInv, NEW k \in Api!Keys, Api!Expire(k) PROVE GInv'
<1>1. /\ gCached' = [gCached EXCEPT ![k] = Api!NoAnswer]
      /\ UNCHANGED <<gVersion, gAcked, gRequests, gWrites, gInflight>>
  BY DEF Api!Expire
<1>2. /\ gCached' = [j \in Api!Keys |-> gCached'[j]]
      /\ \A j \in Api!Keys : gCached'[j] = Api!NoAnswer \/ gCached'[j] = gCached[j]
  BY <1>1 DEF GInv
<1>3. Api!TypeOK'
  BY <1>1, <1>2 DEF GInv, Api!TypeOK
<1>4. Api!AnswersHold'
  BY <1>1, <1>2 DEF GInv, Api!AnswersHold, Api!OwnWritesSeen, Api!JoinsLiveRequest
<1> QED
  BY <1>1, <1>2, <1>3, <1>4 DEF GInv, GWritesKnown, Api!ApiAssumption

(* A write that is not over. *)
LEMMA GWriteStep == ASSUME GInv, NEW w \in gWriters,
                           Api!Write(w) \/ Api!Perform(w) \/ Api!WriteFails(w) PROVE GInv'
<1>1. UNCHANGED <<gAcked, gRequests, gInflight, gCached>>
  BY DEF Api!Write, Api!Perform, Api!WriteFails
<1>2. gVersion' \in Nat /\ gVersion <= gVersion'
  BY DEF GInv, Api!TypeOK, Api!Write, Api!Perform, Api!WriteFails
<1>3. gWrites' \in [gWriters -> [stage : {"none", "sent", "done"}, version : Nat]]
  BY DEF GInv, Api!TypeOK, Api!Write, Api!Perform, Api!WriteFails, Api!Over
<1>4. \A v \in gWriters : gWrites'[v].version <= gVersion'
  BY DEF GInv, Api!TypeOK, GWritesKnown, Api!Write, Api!Perform, Api!WriteFails, Api!Over
<1>5. Api!TypeOK'
  BY <1>1, <1>2, <1>3 DEF GInv, Api!TypeOK
<1>6. Api!AnswersHold'
  BY <1>1 DEF GInv, Api!AnswersHold, Api!OwnWritesSeen, Api!JoinsLiveRequest
<1> QED
  BY <1>1, <1>4, <1>5, <1>6 DEF GInv, GWritesKnown, Api!ApiAssumption

(* Its answer empties the cache, and what is under way will be known to    *)
(* have been.                                                              *)
LEMMA GWriteEndsStep == ASSUME GInv, NEW w \in gWriters, Api!WriteEnds(w) PROVE GInv'
<1>1. /\ gWrites' = [gWrites EXCEPT ![w] = [stage |-> "none", version |-> 0]]
      /\ gAcked' = IF gWrites[w].version > gAcked THEN gWrites[w].version ELSE gAcked
      /\ gRequests' = [r \in gRequestIds |-> IF gRequests[r] = Api!NoRequest THEN Api!NoRequest
                                             ELSE [gRequests[r] EXCEPT !.overlapped = TRUE]]
      /\ gCached' = [k \in Api!Keys |-> Api!NoAnswer]
      /\ UNCHANGED <<gVersion, gInflight>>
  BY DEF Api!WriteEnds, Api!Over
<1>2. gAcked' \in 0..gVersion'
  BY <1>1 DEF GInv, Api!TypeOK, GWritesKnown
<1>3. /\ gWrites' \in [gWriters -> [stage : {"none", "sent", "done"}, version : Nat]]
      /\ GWritesKnown'
  BY <1>1 DEF GInv, Api!TypeOK, GWritesKnown
<1>4. \A r \in gRequestIds : IF gRequests[r] = Api!NoRequest THEN gRequests'[r] = Api!NoRequest
                             ELSE /\ gRequests'[r] \in GRead1
                                  /\ gRequests'[r] # Api!NoRequest
                                  /\ gRequests'[r].overlapped
                                  /\ gRequests'[r].key = gRequests[r].key
  <2> TAKE r \in gRequestIds
  <2>1. CASE gRequests[r] = Api!NoRequest
    BY <1>1, <2>1
  <2>2. CASE gRequests[r] # Api!NoRequest
    <3>1. gRequests[r] \in GRead1
      BY <2>2, GKinds DEF GInv
    <3>2. gRequests'[r] = [gRequests[r] EXCEPT !.overlapped = TRUE]
      BY <1>1, <2>2
    <3> QED
      BY <2>2, <3>1, <3>2 DEF GRead1, Api!NoRequest
  <2> QED
    BY <2>1, <2>2
<1>5. Api!TypeOK'
  BY <1>1, <1>2, <1>3, <1>4 DEF GInv, Api!TypeOK, GRead1
<1>6. Api!OwnWritesSeen'
  BY <1>1, <1>4 DEF Api!OwnWritesSeen, Api!NoRequest
<1>7. Api!JoinsLiveRequest'
  BY <1>1, <1>4 DEF GInv, Api!AnswersHold, Api!JoinsLiveRequest
<1> QED
  BY <1>1, <1>3, <1>5, <1>6, <1>7 DEF GInv, Api!AnswersHold, Api!ApiAssumption

LEMMA GStep == GInv /\ [Api!Next]_Api!vars => GInv'
<1>1. ASSUME GInv, UNCHANGED Api!vars PROVE GInv'
  BY <1>1 DEF Api!vars, GInv, Api!TypeOK, GWritesKnown, Api!AnswersHold, Api!OwnWritesSeen,
     Api!JoinsLiveRequest, Api!ApiAssumption
<1>2. ASSUME GInv, Api!Next PROVE GInv'
  BY <1>2, GSendStep, GReadStep, GEndedStep, GExpireStep, GWriteStep, GWriteEndsStep DEF Api!Next
<1> QED
  BY <1>1, <1>2

LEMMA GInvariance == ASSUME Api!ApiAssumption PROVE Api!Spec => []GInv
  BY GInitInv, GStep, PTL DEF Api!Spec
-----------------------------------------------------------------------------
(***************************************************************************)
(* The migration: what a replica has run and read is read off the stage it  *)
(* is at, and stays so whatever the others do.                             *)
(***************************************************************************)

MRecords == [todo : SUBSET mUsers, server : BOOLEAN,
             owner : mRoleIds \union {mNone}, member : mRoleIds \union {mNone}]

(* The stages of Creating before stage s, and the stages after the loops.   *)
MPassed(s) == CASE s = "base"    -> {}
                [] s = "columns" -> {"base"}
                [] s = "tables"  -> {"base", "columns"}
                [] s = "up"      -> Migration!Creating
                [] OTHER         -> {"base", "columns", "tables"}

MLooping == {"owner", "member", "rank owner", "rank others"}
MOver == {"sync", "late", "up"}

(* What replica b has run is there, and nobody is left without a tag.       *)
MRan(b) == /\ mAt[b] \in Migration!Stages => MPassed(mAt[b]) \subseteq mSchema
           /\ mAt[b] = "tag" => mUsers \ mTagged \subseteq mKnown[b].todo
           /\ mAt[b] \in {"roles"} \union MLooping \union MOver => mTagged = mUsers

(* Whom it has given a role, or found with one. *)
MRanked(u) == mFirst[u] = mNone => u \in mUnranked

(* What it has read of the server, or made. *)
MFound(b) ==
    /\ mKnown[b].server => mAt[b] \in MLooping \union MOver
    /\ mAt[b] \in MLooping => mKnown[b].server
    /\ mKnown[b].owner # mNone => mKnown[b].server /\ mNames[mKnown[b].owner] = "Owner"
    /\ mKnown[b].server /\ mAt[b] # "owner" => mKnown[b].owner # mNone
    /\ mAt[b] \in {"rank owner", "rank others"} => mKnown[b].member # mNone
    /\ mAt[b] = "rank others" => MRanked(mOwner)
    /\ mKnown[b].server /\ mAt[b] \in MOver => \A u \in mUsers : MRanked(u)

(* Unless one has looked too early, who is about to make the Owner's role    *)
(* is alone, and finds none.                                               *)
MAlone == ~mOverlapped =>
             /\ mMade \in {"no", "row"} => Migration!Named("Owner") = {}
             /\ \A b \in mBackends : Migration!GivesRoles(b) =>
                   /\ mMade \notin {"no", "row"}
                   /\ Migration!Named("Owner") = {}
                   /\ \A c \in mBackends : Migration!GivesRoles(c) => c = b
             /\ \A x, y \in Migration!Named("Owner") : x = y

MMaking == mMade \in {"owner", "member", "joined"} => mOwnerRole # mNone

MInv == /\ Migration!MigrationAssumption /\ Migration!TypeOK
        /\ \A b \in mBackends : MRan(b) /\ MFound(b)
        /\ MAlone /\ MMaking /\ Migration!HeldIsGiven

LEMMA MInvHolds == MInv => Migration!MigrationHolds
<1> SUFFICES ASSUME MInv PROVE Migration!MigrationHolds
  OBVIOUS
<1>1. Migration!NothingMissing
  <2> SUFFICES ASSUME NEW b \in mBackends, mAt[b] \in Migration!Stages
               PROVE  Migration!Needs(mAt[b]) \subseteq mSchema /\ (mAt[b] = "up" => mTagged = mUsers)
    BY DEF Migration!NothingMissing
  <2>1. Migration!Needs(mAt[b]) \subseteq MPassed(mAt[b])
    BY DEF Migration!Needs, MPassed, Migration!Stages, Migration!Creating
  <2>2. MRan(b)
    BY DEF MInv
  <2> QED
    BY <2>1, <2>2 DEF MRan, MOver
<1>2. Migration!ServerRepaired
  <2>1. ASSUME NEW b \in mBackends, mAt[b] \in MOver, mKnown[b].server
        PROVE  Migration!Named("Owner") # {} /\ \A u \in mUsers : MRanked(u)
    <3>1. MFound(b) /\ mKnown[b].owner \in mRoleIds \union {mNone}
      BY DEF MInv, Migration!TypeOK
    <3>2. mKnown[b].owner \in Migration!Named("Owner")
      BY <2>1, <3>1 DEF MFound, MOver, Migration!Named
    <3> QED
      BY <2>1, <3>1, <3>2 DEF MFound
  <2>2. ~mOverlapped => \A x, y \in Migration!Named("Owner") : x = y
    BY DEF MInv, MAlone
  <2> QED
    BY <2>1, <2>2 DEF Migration!ServerRepaired, MOver, MRanked
<1> QED
  BY <1>1, <1>2 DEF MInv, Migration!MigrationHolds

LEMMA MInitInv == Migration!MigrationAssumption /\ Migration!Init => MInv
<1> SUFFICES ASSUME Migration!MigrationAssumption, Migration!Init PROVE MInv
  OBVIOUS
<1>1. Migration!Nothing \in MRecords
  BY DEF Migration!Nothing, MRecords
<1>2. Migration!TypeOK
  <2>1. /\ mMade \in {"no", "yes"} /\ mSchema \in SUBSET Migration!Creating /\ mTagged \in SUBSET mUsers
        /\ mNames \in [mRoleIds -> {"free", "Member", "other"}]
        /\ mFirst \in [mUsers -> mRoleIds \union {mNone, mAbsent}]
    BY DEF Migration!Init, Migration!Creating, Migration!Live, Migration!Named
  <2>2. mKnown \in [mBackends -> MRecords] /\ mAt \in [mBackends -> Migration!Stages \union {"down"}]
    BY <1>1 DEF Migration!Init
  <2> QED
    BY <2>1, <2>2 DEF Migration!Init, Migration!TypeOK, MRecords, Migration!Names
<1>3. Migration!Named("Owner") = {}
  BY DEF Migration!Init, Migration!Named
<1>4. ASSUME NEW b \in mBackends PROVE MRan(b) /\ MFound(b) /\ ~Migration!GivesRoles(b)
  <2>1. mAt[b] = "down" /\ mKnown[b] = Migration!Nothing
    BY DEF Migration!Init
  <2> QED
    BY <2>1 DEF MRan, MFound, Migration!Nothing, Migration!GivesRoles, Migration!Stages,
       Migration!Creating, MLooping, MOver
<1>5. MAlone
  BY <1>3, <1>4 DEF MAlone
<1>6. MMaking /\ Migration!HeldIsGiven
  BY DEF Migration!Init, MMaking, Migration!HeldIsGiven
<1> QED
  BY <1>2, <1>4, <1>5, <1>6 DEF MInv

-----------------------------------------------------------------------------
(* Steps of a replica that leave the rows alone: the others stay where they *)
(* are and know what they knew.                                            *)
MOwn(b) == /\ mAt' \in [mBackends -> Migration!Stages \union {"down"}]
           /\ mKnown' \in [mBackends -> MRecords]
           /\ \A c \in mBackends \ {b} : mAt'[c] = mAt[c] /\ mKnown'[c] = mKnown[c]

MGrows == mSchema \subseteq mSchema' /\ mTagged \subseteq mTagged'
          /\ mSchema' \in SUBSET Migration!Creating /\ mTagged' \in SUBSET mUsers

LEMMA MOthersRan == ASSUME MInv, NEW b \in mBackends, MOwn(b), MGrows,
                           NEW c \in mBackends, c # b
                    PROVE  MRan(c)'
  BY DEF MInv, MOwn, MGrows, MRan

(* A step that leaves the rows alone, and makes no giver of its replica.    *)
LEMMA MQuietStep ==
    ASSUME MInv, NEW b \in mBackends, MOwn(b), MGrows,
           mStarts' \in Nat, mServed' \in Nat,
           UNCHANGED <<mMade, mOwnerRole, Migration!rows, Migration!history>>,
           MRan(b)', MFound(b)', Migration!GivesRoles(b)' => Migration!GivesRoles(b)
    PROVE  MInv'
<1>1. UNCHANGED <<mMade, mOwnerRole, mNames, mFirst, mHeld, mGiven, mUnranked, mOverlapped>>
  BY DEF Migration!rows, Migration!history
<1>2. Migration!TypeOK'
  BY <1>1 DEF MInv, Migration!TypeOK, MOwn, MGrows, MRecords
<1>3. ASSUME NEW c \in mBackends \ {b} PROVE MRan(c)' /\ MFound(c)'
  <2>1. MFound(c) /\ mAt'[c] = mAt[c] /\ mKnown'[c] = mKnown[c]
    BY DEF MInv, MOwn
  <2>2. MFound(c)'
    BY <1>1, <2>1 DEF MFound, MRanked
  <2> QED
    BY <2>2, MOthersRan
<1>4. \A c \in mBackends : Migration!GivesRoles(c)' => Migration!GivesRoles(c)
  BY DEF MOwn, Migration!GivesRoles
<1>5. MAlone'
  BY <1>1, <1>4 DEF MInv, MAlone, Migration!Named
<1>6. MMaking' /\ Migration!HeldIsGiven'
  BY <1>1 DEF MInv, MMaking, Migration!HeldIsGiven
<1> QED
  BY <1>2, <1>3, <1>5, <1>6 DEF MInv, Migration!MigrationAssumption

(* A replica that knows of no server yet. *)
LEMMA MEarly == ASSUME MInv, NEW b \in mBackends, mAt[b] \notin MLooping \union MOver
                PROVE  mKnown[b].server = FALSE /\ mKnown[b].owner = mNone
  BY DEF MInv, Migration!TypeOK, MFound

(* Its next stage. *)
LEMMA MRunIs == ASSUME MInv, NEW b \in mBackends, NEW s \in Migration!Stages \ {"up"},
                       Migration!Run(b, s)
                PROVE  /\ mAt[b] = s /\ mAt'[b] = Migration!After[s]
                       /\ mAt' \in [mBackends -> Migration!Stages \union {"down"}]
                       /\ \A c \in mBackends \ {b} : mAt'[c] = mAt[c]
<1>1. Migration!After[s] \in Migration!Stages
  BY DEF Migration!After, Migration!Stages, Migration!Creating
<1> QED
  BY <1>1 DEF Migration!Run, MInv, Migration!TypeOK

LEMMA MAfterIs == /\ Migration!After["owner"] = "member" /\ Migration!After["member"] = "rank owner"
                  /\ Migration!After["rank owner"] = "rank others"
                  /\ Migration!After["rank others"] = "sync"
                  /\ Migration!After["sync"] = "late"
<1>1. Migration!After["owner"] = "member"
  BY DEF Migration!After, Migration!Stages, Migration!Creating
<1>2. Migration!After["member"] = "rank owner"
  BY DEF Migration!After, Migration!Stages, Migration!Creating
<1>3. Migration!After["rank owner"] = "rank others"
  BY DEF Migration!After, Migration!Stages, Migration!Creating
<1>4. Migration!After["rank others"] = "sync"
  BY DEF Migration!After, Migration!Stages, Migration!Creating
<1>5. Migration!After["sync"] = "late"
  BY DEF Migration!After, Migration!Stages, Migration!Creating
<1> QED
  BY <1>1, <1>2, <1>3, <1>4, <1>5

LEMMA MStartStep == ASSUME MInv, NEW b \in mBackends, Migration!Start(b) PROVE MInv'
<1>1. /\ mAt[b] = "down" /\ mAt' = [mAt EXCEPT ![b] = "base"] /\ mStarts' \in Nat
      /\ UNCHANGED <<mKnown, mServed, mSchema, mTagged, mMade, mOwnerRole, Migration!rows,
                     Migration!history>>
  BY DEF Migration!Start, MInv, Migration!TypeOK
<1>2. MOwn(b) /\ MGrows /\ mServed' \in Nat /\ mAt'[b] = "base"
  BY <1>1 DEF MInv, Migration!TypeOK, MOwn, MGrows, MRecords, Migration!Stages, Migration!Creating
<1>3. mKnown'[b].server = FALSE /\ mKnown'[b].owner = mNone
  BY <1>1, MEarly DEF MLooping, MOver
<1>4. MRan(b)' /\ MFound(b)' /\ ~Migration!GivesRoles(b)'
  BY <1>2, <1>3 DEF MRan, MFound, Migration!GivesRoles, MPassed, MLooping, MOver
<1> QED
  BY <1>1, <1>2, <1>4, MQuietStep

LEMMA MStopStep == ASSUME MInv, NEW b \in mBackends, Migration!Stop(b) PROVE MInv'
<1>1. /\ mAt' = [mAt EXCEPT ![b] = "down"]
      /\ mKnown' = [mKnown EXCEPT ![b] = Migration!Nothing]
      /\ UNCHANGED <<Migration!counts, mSchema, mTagged, mMade, mOwnerRole, Migration!rows,
                     Migration!history>>
  BY DEF Migration!Stop
<1>2. Migration!Nothing \in MRecords
  BY DEF Migration!Nothing, MRecords
<1>3. /\ MOwn(b) /\ MGrows /\ mStarts' \in Nat /\ mServed' \in Nat
      /\ mAt'[b] = "down" /\ mKnown'[b] = Migration!Nothing
  BY <1>1, <1>2 DEF MInv, Migration!TypeOK, MOwn, MGrows, MRecords, Migration!counts
<1>4. MRan(b)' /\ MFound(b)' /\ ~Migration!GivesRoles(b)'
  BY <1>3 DEF MRan, MFound, Migration!GivesRoles, MLooping, MOver, Migration!Nothing,
     Migration!Stages, Migration!Creating
<1> QED
  BY <1>1, <1>3, <1>4, MQuietStep

LEMMA MCreateStep == ASSUME MInv, NEW b \in mBackends, Migration!Create(b) PROVE MInv'
<1>1. PICK s \in Migration!Creating : /\ Migration!Run(b, s)
                                      /\ mSchema' = mSchema \union {s}
                                      /\ UNCHANGED <<mKnown, Migration!counts, mTagged, mMade,
                                                     mOwnerRole, Migration!rows, Migration!history>>
  BY DEF Migration!Create
<1>2. /\ mAt[b] = s /\ mAt'[b] = Migration!After[s]
      /\ mAt' \in [mBackends -> Migration!Stages \union {"down"}]
      /\ \A c \in mBackends \ {b} : mAt'[c] = mAt[c]
  BY <1>1, MRunIs DEF Migration!Stages, Migration!Creating
<1>3. MOwn(b) /\ MGrows /\ mStarts' \in Nat /\ mServed' \in Nat
  BY <1>1, <1>2 DEF MInv, Migration!TypeOK, MOwn, MGrows, MRecords, Migration!counts
<1>4. MRan(b) /\ MFound(b)
  BY DEF MInv
<1>5. MRan(b)'
  <2>1. MPassed(Migration!After[s]) \subseteq MPassed(s) \union {s}
    BY DEF Migration!After, Migration!Stages, Migration!Creating, MPassed
  <2>2. Migration!After[s] = "up" => s = "late"
    BY DEF Migration!After, Migration!Stages, Migration!Creating
  <2>3. Migration!After[s] \in {"columns", "tables", "discriminators", "up"}
    BY DEF Migration!After, Migration!Stages, Migration!Creating
  <2> QED
    BY <1>1, <1>2, <1>4, <2>1, <2>2, <2>3 DEF MRan, Migration!Stages, Migration!Creating,
       MLooping, MOver
<1>6. MFound(b)' /\ ~Migration!GivesRoles(b)'
  <2>1. UNCHANGED <<mKnown, mFirst, mUnranked, mNames>>
    BY <1>1 DEF Migration!rows, Migration!history
  <2>2. CASE s = "late"
    <3>1. Migration!After[s] = "up"
      BY <2>2 DEF Migration!After, Migration!Stages, Migration!Creating
    <3> QED
      BY <1>2, <1>4, <2>1, <2>2, <3>1 DEF MFound, MRanked, MLooping, MOver, Migration!GivesRoles
  <2>3. CASE s # "late"
    <3>1. Migration!After[s] \in {"columns", "tables", "discriminators"}
      BY <2>3 DEF Migration!After, Migration!Stages, Migration!Creating
    <3>2. mKnown[b].server = FALSE /\ mKnown[b].owner = mNone
      BY <1>2, <2>3, MEarly DEF MLooping, MOver, Migration!Creating
    <3> QED
      BY <1>2, <2>1, <3>1, <3>2 DEF MFound, MLooping, MOver, Migration!GivesRoles
  <2> QED
    BY <2>2, <2>3
<1> QED
  BY <1>1, <1>3, <1>5, <1>6, MQuietStep

LEMMA MFindUsersStep == ASSUME MInv, NEW b \in mBackends, Migration!FindUsers(b) PROVE MInv'
<1>1. /\ Migration!Run(b, "discriminators")
      /\ mKnown' = [mKnown EXCEPT ![b].todo = mUsers \ mTagged]
      /\ UNCHANGED <<Migration!counts, mSchema, mTagged, mMade, mOwnerRole, Migration!rows,
                     Migration!history>>
  BY DEF Migration!FindUsers
<1>2. /\ mAt[b] = "discriminators" /\ mAt'[b] = "tag"
      /\ mAt' \in [mBackends -> Migration!Stages \union {"down"}]
      /\ \A c \in mBackends \ {b} : mAt'[c] = mAt[c]
  BY <1>1, MRunIs DEF Migration!Stages, Migration!Creating, Migration!After
<1>3. /\ mKnown'[b] = [mKnown[b] EXCEPT !.todo = mUsers \ mTagged]
      /\ mKnown[b] \in MRecords
  BY <1>1 DEF MInv, Migration!TypeOK, MRecords
<1>4. /\ mKnown'[b] \in MRecords /\ mKnown'[b].todo = mUsers \ mTagged
      /\ mKnown'[b].server = mKnown[b].server /\ mKnown'[b].owner = mKnown[b].owner
  BY <1>3 DEF MRecords
<1>5. MOwn(b) /\ MGrows /\ mStarts' \in Nat /\ mServed' \in Nat
  <2>1. mKnown' \in [mBackends -> MRecords] /\ \A c \in mBackends \ {b} : mKnown'[c] = mKnown[c]
    BY <1>1, <1>4 DEF MInv, Migration!TypeOK, MRecords
  <2> QED
    BY <1>1, <1>2, <2>1 DEF MInv, Migration!TypeOK, MOwn, MGrows, Migration!counts
<1>6. mKnown[b].server = FALSE /\ mKnown[b].owner = mNone
  BY <1>2, MEarly DEF MLooping, MOver
<1>7. MRan(b)'
  BY <1>1, <1>2, <1>4 DEF MInv, MRan, MPassed, Migration!Stages, Migration!Creating, MLooping, MOver
<1>8. MFound(b)' /\ ~Migration!GivesRoles(b)'
  BY <1>2, <1>4, <1>6 DEF MFound, Migration!GivesRoles, MLooping, MOver
<1> QED
  BY <1>1, <1>5, <1>7, <1>8, MQuietStep

LEMMA MTagStep == ASSUME MInv, NEW b \in mBackends, Migration!Tag(b) PROVE MInv'
<1>1. mAt[b] = "tag"
  BY DEF Migration!Tag, Migration!Run
<1>2. mKnown[b].server = FALSE /\ mKnown[b].owner = mNone
  BY <1>1, MEarly DEF MLooping, MOver
<1>3. ASSUME NEW u \in mKnown[b].todo,
             mTagged' = mTagged \union {u},
             mKnown' = [mKnown EXCEPT ![b].todo = @ \ {u}],
             UNCHANGED <<mAt, Migration!counts, mSchema, mMade, mOwnerRole, Migration!rows,
                         Migration!history>>
      PROVE  MInv'
  <2>1. mKnown[b] \in MRecords
    BY DEF MInv, Migration!TypeOK, MRecords
  <2>2. mKnown'[b] = [mKnown[b] EXCEPT !.todo = @ \ {u}]
    BY <1>3 DEF MInv, Migration!TypeOK
  <2>3. /\ mKnown'[b] \in MRecords /\ mKnown'[b].todo = mKnown[b].todo \ {u}
        /\ mKnown'[b].server = mKnown[b].server /\ mKnown'[b].owner = mKnown[b].owner
    BY <2>1, <2>2 DEF MRecords
  <2>4. mKnown' \in [mBackends -> MRecords] /\ \A c \in mBackends \ {b} : mKnown'[c] = mKnown[c]
    BY <1>3, <2>3 DEF MInv, Migration!TypeOK, MRecords
  <2>5. u \in mUsers
    BY <2>1 DEF MRecords
  <2>6. MOwn(b) /\ MGrows /\ mStarts' \in Nat /\ mServed' \in Nat
    BY <1>3, <2>4, <2>5 DEF MInv, Migration!TypeOK, MOwn, MGrows, Migration!counts
  <2>7. MRan(b)'
    BY <1>1, <1>3, <2>3 DEF MInv, MRan, MLooping, MOver
  <2>8. MFound(b)' /\ ~Migration!GivesRoles(b)'
    BY <1>1, <1>2, <1>3, <2>3 DEF MFound, Migration!GivesRoles, MLooping, MOver
  <2> QED
    BY <1>3, <2>6, <2>7, <2>8, MQuietStep
<1>4. ASSUME mKnown[b].todo = {}, Migration!Run(b, "tag"),
             UNCHANGED <<mKnown, Migration!counts, mSchema, mTagged, mMade, mOwnerRole,
                         Migration!rows, Migration!history>>
      PROVE  MInv'
  <2>1. /\ mAt'[b] = "roles"
        /\ mAt' \in [mBackends -> Migration!Stages \union {"down"}]
        /\ \A c \in mBackends \ {b} : mAt'[c] = mAt[c]
    BY <1>4, MRunIs DEF Migration!Stages, Migration!Creating, Migration!After
  <2>2. MOwn(b) /\ MGrows /\ mStarts' \in Nat /\ mServed' \in Nat
    BY <1>4, <2>1 DEF MInv, Migration!TypeOK, MOwn, MGrows, MRecords, Migration!counts
  <2>3. MRan(b)'
    BY <1>1, <1>4, <2>1 DEF MInv, Migration!TypeOK, MRan, MPassed, Migration!Stages,
       Migration!Creating, MLooping, MOver
  <2>4. MFound(b)' /\ ~Migration!GivesRoles(b)'
    BY <1>2, <1>4, <2>1 DEF MFound, Migration!GivesRoles, MLooping, MOver
  <2> QED
    BY <1>4, <2>2, <2>3, <2>4, MQuietStep
<1> QED
  BY <1>3, <1>4 DEF Migration!Tag

LEMMA MNoServerStep == ASSUME MInv, NEW b \in mBackends, Migration!NoServer(b) PROVE MInv'
<1>1. /\ mAt[b] = "roles" /\ mAt' = [mAt EXCEPT ![b] = "sync"]
      /\ UNCHANGED <<mKnown, Migration!counts, mSchema, mTagged, mMade, mOwnerRole,
                     Migration!rows, Migration!history>>
  BY DEF Migration!NoServer
<1>2. /\ MOwn(b) /\ MGrows /\ mStarts' \in Nat /\ mServed' \in Nat
      /\ mAt'[b] = "sync"
  BY <1>1 DEF MInv, Migration!TypeOK, MOwn, MGrows, MRecords, Migration!counts, Migration!Stages
<1>3. mKnown[b].server = FALSE /\ mKnown[b].owner = mNone
  BY <1>1, MEarly DEF MLooping, MOver
<1>4. MRan(b)'
  BY <1>1, <1>2 DEF MInv, MRan, MPassed, Migration!Stages, Migration!Creating, MLooping, MOver
<1>5. MFound(b)' /\ ~Migration!GivesRoles(b)'
  BY <1>1, <1>2, <1>3 DEF MFound, Migration!GivesRoles, MLooping, MOver
<1> QED
  BY <1>1, <1>2, <1>4, <1>5, MQuietStep

-----------------------------------------------------------------------------
(* Steps that change rows: no Owner's role goes, and no member's.           *)
MKeepsOwners == \A x \in mRoleIds : mNames[x] = "Owner" => mNames'[x] = "Owner"
MKeepsRanks == \A u \in mUsers : MRanked(u) => MRanked(u)'

LEMMA MKeeps ==
    ASSUME MInv, NEW c \in mBackends, mAt'[c] = mAt[c], mKnown'[c] = mKnown[c],
           MGrows, MKeepsOwners, MKeepsRanks
    PROVE  MRan(c)' /\ MFound(c)'
<1>1. MRan(c) /\ MFound(c) /\ mKnown[c].owner \in mRoleIds \union {mNone} /\ mOwner \in mUsers
  BY DEF MInv, Migration!TypeOK, Migration!MigrationAssumption
<1>2. MRan(c)'
  BY <1>1 DEF MRan, MGrows
<1>3. MFound(c)'
  BY <1>1 DEF MFound, MKeepsOwners, MKeepsRanks
<1> QED
  BY <1>2, <1>3

(* Of a replica. *)
LEMMA MReplicaStep ==
    ASSUME MInv, NEW b \in mBackends, MOwn(b), MKeepsOwners, MKeepsRanks,
           UNCHANGED <<Migration!counts, mSchema, mTagged, mMade, mOwnerRole, mGiven>>,
           mNames' \in [mRoleIds -> Migration!Names],
           mFirst' \in [mUsers -> mRoleIds \union {mNone, mAbsent}],
           mHeld' \in [mUsers -> SUBSET mRoleIds],
           mUnranked' \in SUBSET mUsers, mOverlapped' \in BOOLEAN,
           MRan(b)', MFound(b)', MAlone', Migration!HeldIsGiven'
    PROVE  MInv'
<1>1. MGrows
  BY DEF MInv, Migration!TypeOK, MGrows
<1>2. Migration!TypeOK'
  BY DEF MInv, Migration!TypeOK, MOwn, MRecords, Migration!counts
<1>3. \A c \in mBackends \ {b} : MRan(c)' /\ MFound(c)'
  BY <1>1, MKeeps DEF MOwn
<1>4. MMaking'
  BY DEF MInv, MMaking
<1> QED
  BY <1>2, <1>3, <1>4 DEF MInv, Migration!MigrationAssumption

LEMMA MFindRolesStep == ASSUME MInv, NEW b \in mBackends, Migration!FindRoles(b) PROVE MInv'
<1>1. /\ mMade # "no" /\ Migration!Run(b, "roles")
      /\ mOverlapped' = (mOverlapped \/ mMade = "row" \/ \E c \in mBackends : Migration!GivesRoles(c))
      /\ UNCHANGED <<Migration!counts, mSchema, mTagged, mMade, mOwnerRole, Migration!rows,
                     mGiven, mUnranked>>
  BY DEF Migration!FindRoles
<1>2. PICK x \in mRoleIds \union {mNone}, y \in mRoleIds \union {mNone} :
         /\ Migration!Find("Owner", x)
         /\ mKnown' = [mKnown EXCEPT ![b].server = TRUE, ![b].owner = x, ![b].member = y]
  BY DEF Migration!FindRoles
<1>3. mKnown[b] \in MRecords
  BY DEF MInv, Migration!TypeOK, MRecords
<1>4. mKnown'[b] = [mKnown[b] EXCEPT !.server = TRUE, !.owner = x, !.member = y]
  BY <1>2 DEF MInv, Migration!TypeOK
<1>5. /\ mKnown'[b] \in MRecords
      /\ mKnown'[b].server = TRUE /\ mKnown'[b].owner = x
  BY <1>3, <1>4 DEF MRecords
<1>6. mKnown' \in [mBackends -> MRecords] /\ \A c \in mBackends \ {b} : mKnown'[c] = mKnown[c]
  BY <1>2, <1>5 DEF MInv, Migration!TypeOK, MRecords
<1>7. /\ mAt[b] = "roles" /\ mAt'[b] = "owner"
      /\ mAt' \in [mBackends -> Migration!Stages \union {"down"}]
      /\ \A c \in mBackends \ {b} : mAt'[c] = mAt[c]
  BY <1>1, MRunIs DEF Migration!Stages, Migration!Creating, Migration!After
<1>8. mNone \notin mRoleIds
  BY DEF MInv, Migration!MigrationAssumption
<1>9. IF x = mNone THEN Migration!Named("Owner") = {} ELSE mNames[x] = "Owner"
  BY <1>2, <1>8 DEF Migration!Find, Migration!Named
<1>10. UNCHANGED <<mNames, mFirst, mHeld>>
  BY <1>1 DEF Migration!rows
<1>11. MOwn(b) /\ MKeepsOwners /\ MKeepsRanks
  BY <1>1, <1>6, <1>7, <1>10 DEF MOwn, MKeepsOwners, MKeepsRanks, MRanked
<1>12. MRan(b)'
  BY <1>1, <1>7 DEF MInv, MRan, MPassed, Migration!Stages, Migration!Creating, MLooping, MOver
<1>13. MFound(b)'
  BY <1>5, <1>7, <1>9, <1>10 DEF MFound, MLooping, MOver
<1>14. MAlone'
  <2> SUFFICES ASSUME ~mOverlapped' PROVE MAlone'
    BY DEF MAlone
  <2>1. ~mOverlapped /\ mMade # "row" /\ \A c \in mBackends : ~Migration!GivesRoles(c)
    BY <1>1
  <2>2. \A c \in mBackends : Migration!GivesRoles(c)' => c = b /\ x = mNone
    BY <1>5, <1>6, <1>7, <2>1 DEF Migration!GivesRoles
  <2>3. Migration!Named("Owner")' = Migration!Named("Owner") /\ mMade' = mMade
    BY <1>1, <1>10 DEF Migration!Named
  <2> QED
    BY <1>1, <1>9, <2>1, <2>2, <2>3 DEF MInv, MAlone
<1>15. Migration!HeldIsGiven'
  BY <1>1, <1>10 DEF MInv, Migration!HeldIsGiven
<1>16. mOverlapped' \in BOOLEAN
  BY <1>1 DEF MInv, Migration!TypeOK
<1> QED
  BY <1>1, <1>10, <1>11, <1>12, <1>13, <1>14, <1>15, <1>16, MReplicaStep DEF MInv, Migration!TypeOK

(* A role that is made is nobody's yet. *)
LEMMA MNewRoleIs ==
    ASSUME MInv, NEW x \in mRoleIds, NEW name \in Migration!Names \ {"free"}, Migration!NewRole(x,
           name)
    PROVE  /\ mNames' \in [mRoleIds -> Migration!Names] /\ mNames'[x] = name /\ MKeepsOwners
           /\ Migration!Named("Owner")' = IF name = "Owner" THEN Migration!Named("Owner") \union {x}
                                                            ELSE Migration!Named("Owner")
<1>1. mNames[x] = "free" /\ mNames' = [mNames EXCEPT ![x] = name]
  BY DEF Migration!NewRole
<1>2. \A y \in mRoleIds : mNames'[y] = IF y = x THEN name ELSE mNames[y]
  BY <1>1 DEF MInv, Migration!TypeOK
<1> QED
  BY <1>1, <1>2 DEF MInv, Migration!TypeOK, MKeepsOwners, Migration!Named

LEMMA MAddOwnerStep == ASSUME MInv, NEW b \in mBackends, Migration!AddOwner(b) PROVE MInv'
<1>1. /\ Migration!Run(b, "owner")
      /\ UNCHANGED <<Migration!counts, mSchema, mTagged, mMade, mOwnerRole, mFirst, mHeld,
                     Migration!history>>
  BY DEF Migration!AddOwner
<1>2. /\ mAt[b] = "owner" /\ mAt'[b] = "member"
      /\ mAt' \in [mBackends -> Migration!Stages \union {"down"}]
      /\ \A c \in mBackends \ {b} : mAt'[c] = mAt[c]
  BY <1>1, MRunIs DEF Migration!Stages, Migration!Creating, Migration!After
<1>3. MRan(b)'
  BY <1>1, <1>2 DEF MInv, MRan, MPassed, Migration!Stages, Migration!Creating, MLooping, MOver
<1>4. MFound(b) /\ mKnown[b].server
  BY <1>2 DEF MInv, MFound, MLooping
<1>5. CASE mKnown[b].owner # mNone
  <2>1. UNCHANGED <<mNames, mKnown>>
    BY <1>5 DEF Migration!AddOwner
  <2>2. MOwn(b) /\ MGrows /\ mStarts' \in Nat /\ mServed' \in Nat
    BY <1>1, <1>2, <2>1 DEF MInv, Migration!TypeOK, MOwn, MGrows, MRecords, Migration!counts
  <2>3. MFound(b)' /\ ~Migration!GivesRoles(b)'
    BY <1>1, <1>2, <1>4, <1>5, <2>1 DEF MFound, Migration!GivesRoles, MLooping, MOver
  <2> QED
    BY <1>1, <1>3, <2>1, <2>2, <2>3, MQuietStep DEF Migration!rows
<1>6. CASE mKnown[b].owner = mNone
  <2>1. PICK x \in mRoleIds : Migration!NewRole(x,
     "Owner") /\ mKnown' = [mKnown EXCEPT ![b].owner = x]
    BY <1>6 DEF Migration!AddOwner
  <2>2. /\ mNames' \in [mRoleIds -> Migration!Names] /\ mNames'[x] = "Owner" /\ MKeepsOwners
        /\ Migration!Named("Owner")' = Migration!Named("Owner") \union {x}
    BY <2>1, MNewRoleIs DEF Migration!Names
  <2>3. mKnown[b] \in MRecords
    BY DEF MInv, Migration!TypeOK, MRecords
  <2>4. mKnown'[b] = [mKnown[b] EXCEPT !.owner = x]
    BY <2>1 DEF MInv, Migration!TypeOK
  <2>5. /\ mKnown'[b] \in MRecords
        /\ mKnown'[b].server = mKnown[b].server /\ mKnown'[b].owner = x
    BY <2>3, <2>4 DEF MRecords
  <2>6. mKnown' \in [mBackends -> MRecords] /\ \A c \in mBackends \ {b} : mKnown'[c] = mKnown[c]
    BY <2>1, <2>5 DEF MInv, Migration!TypeOK, MRecords
  <2>7. mNone \notin mRoleIds
    BY DEF MInv, Migration!MigrationAssumption
  <2>8. MOwn(b) /\ MKeepsRanks
    BY <1>1, <1>2, <2>6 DEF MOwn, MKeepsRanks, MRanked, Migration!history
  <2>9. MFound(b)'
    BY <1>2, <1>4, <2>2, <2>5, <2>7 DEF MFound, MLooping, MOver
  <2>10. MAlone'
    <3> SUFFICES ASSUME ~mOverlapped' PROVE MAlone'
      BY DEF MAlone
    <3>1. ~mOverlapped /\ mMade' = mMade /\ Migration!GivesRoles(b)
      BY <1>1, <1>2, <1>6 DEF Migration!history, Migration!GivesRoles
    <3>2. /\ mMade \notin {"no", "row"} /\ Migration!Named("Owner") = {}
          /\ \A c \in mBackends : Migration!GivesRoles(c) => c = b
      BY <3>1 DEF MInv, MAlone
    <3>3. \A c \in mBackends : ~Migration!GivesRoles(c)'
      BY <1>2, <2>6, <3>2 DEF Migration!GivesRoles
    <3> QED
      BY <2>2, <3>1, <3>2, <3>3 DEF MAlone
  <2>11. Migration!HeldIsGiven'
    BY <1>1 DEF MInv, Migration!HeldIsGiven, Migration!history
  <2> QED
    BY <1>1, <1>3, <2>2, <2>8, <2>9, <2>10, <2>11, MReplicaStep DEF MInv, Migration!TypeOK,
       Migration!history
<1> QED
  BY <1>5, <1>6

LEMMA MAddMemberStep == ASSUME MInv, NEW b \in mBackends, Migration!AddMember(b) PROVE MInv'
<1>1. /\ Migration!Run(b, "member")
      /\ UNCHANGED <<Migration!counts, mSchema, mTagged, mMade, mOwnerRole, mFirst, mHeld,
                     Migration!history>>
  BY DEF Migration!AddMember
<1>2. /\ mAt[b] = "member" /\ mAt'[b] = "rank owner"
      /\ mAt' \in [mBackends -> Migration!Stages \union {"down"}]
      /\ \A c \in mBackends \ {b} : mAt'[c] = mAt[c]
  BY <1>1, MRunIs, MAfterIs DEF Migration!Stages, Migration!Creating
<1>3. MRan(b)'
  BY <1>1, <1>2 DEF MInv, MRan, MPassed, Migration!Stages, Migration!Creating, MLooping, MOver
<1>4. MFound(b) /\ mKnown[b].server /\ mKnown[b].owner # mNone
  BY <1>2 DEF MInv, MFound, MLooping
<1>5. CASE mKnown[b].member # mNone
  <2>1. UNCHANGED <<mNames, mKnown>>
    BY <1>5 DEF Migration!AddMember
  <2>2. MOwn(b) /\ MGrows /\ mStarts' \in Nat /\ mServed' \in Nat
    BY <1>1, <1>2, <2>1 DEF MInv, Migration!TypeOK, MOwn, MGrows, MRecords, Migration!counts
  <2>3. MFound(b)' /\ ~Migration!GivesRoles(b)'
    BY <1>1, <1>2, <1>4, <1>5, <2>1 DEF MFound, Migration!GivesRoles, MLooping, MOver
  <2> QED
    BY <1>1, <1>3, <2>1, <2>2, <2>3, MQuietStep DEF Migration!rows
<1>6. CASE mKnown[b].member = mNone
  <2>1. PICK x \in mRoleIds : Migration!NewRole(x,
     "Member") /\ mKnown' = [mKnown EXCEPT ![b].member = x]
    BY <1>6 DEF Migration!AddMember
  <2>2. /\ mNames' \in [mRoleIds -> Migration!Names] /\ MKeepsOwners
        /\ Migration!Named("Owner")' = Migration!Named("Owner")
    BY <2>1, MNewRoleIs DEF Migration!Names
  <2>3. mKnown[b] \in MRecords
    BY DEF MInv, Migration!TypeOK, MRecords
  <2>4. mKnown'[b] = [mKnown[b] EXCEPT !.member = x]
    BY <2>1 DEF MInv, Migration!TypeOK
  <2>5. /\ mKnown'[b] \in MRecords /\ mKnown'[b].member = x
        /\ mKnown'[b].server = mKnown[b].server /\ mKnown'[b].owner = mKnown[b].owner
    BY <2>3, <2>4 DEF MRecords
  <2>6. mKnown' \in [mBackends -> MRecords] /\ \A c \in mBackends \ {b} : mKnown'[c] = mKnown[c]
    BY <2>1, <2>5 DEF MInv, Migration!TypeOK, MRecords
  <2>7. mNone \notin mRoleIds /\ mKnown[b].owner \in mRoleIds
    BY <1>4, <2>3 DEF MInv, Migration!MigrationAssumption, MRecords
  <2>8. MOwn(b) /\ MKeepsRanks
    BY <1>1, <1>2, <2>6 DEF MOwn, MKeepsRanks, MRanked, Migration!history
  <2>9. MFound(b)'
    BY <1>2, <1>4, <2>2, <2>5, <2>7 DEF MFound, MLooping, MOver, MKeepsOwners
  <2>10. MAlone'
    <3>1. \A c \in mBackends : Migration!GivesRoles(c)' => Migration!GivesRoles(c)
      BY <1>2, <2>6 DEF Migration!GivesRoles
    <3> QED
      BY <1>1, <2>2, <3>1 DEF MInv, MAlone, Migration!history
  <2>11. Migration!HeldIsGiven'
    BY <1>1 DEF MInv, Migration!HeldIsGiven, Migration!history
  <2> QED
    BY <1>1, <1>3, <2>2, <2>8, <2>9, <2>10, <2>11, MReplicaStep DEF MInv, Migration!TypeOK,
       Migration!history
<1> QED
  BY <1>5, <1>6

(* The members' ranks: whoever had none gets role x. *)
LEMMA MRankIs ==
    ASSUME MInv, NEW us \in SUBSET mUsers, NEW x \in mRoleIds, Migration!Rank(us, x),
           UNCHANGED <<mHeld, mGiven>>
    PROVE  /\ mFirst' \in [mUsers -> mRoleIds \union {mNone, mAbsent}]
           /\ mUnranked' \in SUBSET mUsers
           /\ MKeepsRanks /\ Migration!HeldIsGiven' /\ \A u \in us : MRanked(u)'
<1>1. /\ mFirst' = [u \in mUsers |-> IF u \in us /\ mFirst[u] = mNone THEN x ELSE mFirst[u]]
      /\ mUnranked' = mUnranked \ us
  BY DEF Migration!Rank
<1>2. mNone \notin mRoleIds
  BY DEF MInv, Migration!MigrationAssumption
<1>3. mFirst' \in [mUsers -> mRoleIds \union {mNone, mAbsent}] /\ mUnranked' \in SUBSET mUsers
  BY <1>1 DEF MInv, Migration!TypeOK
<1>4. MKeepsRanks
  BY <1>1, <1>2 DEF MKeepsRanks, MRanked
<1>5. \A u \in us : MRanked(u)'
  BY <1>1, <1>2 DEF MRanked
<1>6. Migration!HeldIsGiven'
  <2> SUFFICES ASSUME NEW u \in mUsers
               PROVE  mGiven[u] \subseteq mHeld[u] /\ mHeld[u] \ mGiven[u] \subseteq {mFirst'[u]}
    BY DEF Migration!HeldIsGiven
  <2>1. /\ mGiven[u] \subseteq mHeld[u] /\ mHeld[u] \ mGiven[u] \subseteq {mFirst[u]}
        /\ mHeld[u] \subseteq mRoleIds
    BY DEF MInv, Migration!TypeOK, Migration!HeldIsGiven
  <2>2. mFirst'[u] = mFirst[u] \/ mFirst[u] = mNone
    BY <1>1
  <2> QED
    BY <1>2, <2>1, <2>2
<1> QED
  BY <1>3, <1>4, <1>5, <1>6

(* The step of a replica past "owner" makes no giver of it.                 *)
LEMMA MAloneStays ==
    ASSUME MInv, NEW b \in mBackends, MOwn(b), mAt'[b] # "owner",
           UNCHANGED <<mMade, mNames, mOverlapped>>
    PROVE  MAlone'
<1>1. \A c \in mBackends : Migration!GivesRoles(c)' => Migration!GivesRoles(c)
  BY DEF MOwn, Migration!GivesRoles
<1> QED
  BY <1>1 DEF MInv, MAlone, Migration!Named

LEMMA MRankOwnerStep == ASSUME MInv, NEW b \in mBackends, Migration!RankOwner(b) PROVE MInv'
<1>1. /\ Migration!Run(b, "rank owner") /\ Migration!Rank({mOwner}, mKnown[b].owner)
      /\ UNCHANGED <<mKnown, Migration!counts, mSchema, mTagged, mMade, mOwnerRole, mNames, mHeld,
                     mGiven, mOverlapped>>
  BY DEF Migration!RankOwner
<1>2. /\ mAt[b] = "rank owner" /\ mAt'[b] = "rank others"
      /\ mAt' \in [mBackends -> Migration!Stages \union {"down"}]
      /\ \A c \in mBackends \ {b} : mAt'[c] = mAt[c]
  BY <1>1, MRunIs, MAfterIs DEF Migration!Stages, Migration!Creating
<1>3. MRan(b)'
  BY <1>1, <1>2 DEF MInv, MRan, MPassed, Migration!Stages, Migration!Creating, MLooping, MOver
<1>4. /\ MFound(b) /\ mKnown[b].server /\ mKnown[b].owner \in mRoleIds
      /\ mKnown[b].member # mNone /\ mOwner \in mUsers
  BY <1>2 DEF MInv, Migration!TypeOK, MFound, MLooping, Migration!MigrationAssumption
<1>5. /\ mFirst' \in [mUsers -> mRoleIds \union {mNone, mAbsent}] /\ mUnranked' \in SUBSET mUsers
      /\ MKeepsRanks /\ Migration!HeldIsGiven' /\ MRanked(mOwner)'
  BY <1>1, <1>4, MRankIs
<1>6. MOwn(b) /\ MKeepsOwners
  BY <1>1, <1>2 DEF MInv, Migration!TypeOK, MOwn, MRecords, MKeepsOwners
<1>7. MFound(b)'
  BY <1>1, <1>2, <1>4, <1>5 DEF MFound, MLooping, MOver
<1>8. MAlone'
  BY <1>1, <1>2, <1>6, MAloneStays
<1> QED
  BY <1>1, <1>3, <1>5, <1>6, <1>7, <1>8, MReplicaStep DEF MInv, Migration!TypeOK

LEMMA MRankOthersStep == ASSUME MInv, NEW b \in mBackends, Migration!RankOthers(b) PROVE MInv'
<1>1. /\ Migration!Run(b, "rank others") /\ Migration!Rank(mUsers \ {mOwner}, mKnown[b].member)
      /\ UNCHANGED <<mKnown, Migration!counts, mSchema, mTagged, mMade, mOwnerRole, mNames, mHeld,
                     mGiven, mOverlapped>>
  BY DEF Migration!RankOthers
<1>2. /\ mAt[b] = "rank others" /\ mAt'[b] = "sync"
      /\ mAt' \in [mBackends -> Migration!Stages \union {"down"}]
      /\ \A c \in mBackends \ {b} : mAt'[c] = mAt[c]
  BY <1>1, MRunIs, MAfterIs DEF Migration!Stages, Migration!Creating
<1>3. MRan(b)'
  BY <1>1, <1>2 DEF MInv, MRan, MPassed, Migration!Stages, Migration!Creating, MLooping, MOver
<1>4. /\ MFound(b) /\ mKnown[b].server /\ mKnown[b].member \in mRoleIds
      /\ MRanked(mOwner)
  BY <1>2 DEF MInv, Migration!TypeOK, MFound, MLooping
<1>5. /\ mFirst' \in [mUsers -> mRoleIds \union {mNone, mAbsent}] /\ mUnranked' \in SUBSET mUsers
      /\ MKeepsRanks /\ Migration!HeldIsGiven' /\ \A u \in mUsers \ {mOwner} : MRanked(u)'
  BY <1>1, <1>4, MRankIs
<1>6. \A u \in mUsers : MRanked(u)'
  BY <1>4, <1>5 DEF MKeepsRanks
<1>7. MOwn(b) /\ MKeepsOwners
  BY <1>1, <1>2 DEF MInv, Migration!TypeOK, MOwn, MRecords, MKeepsOwners
<1>8. MFound(b)'
  BY <1>1, <1>2, <1>4, <1>6 DEF MFound, MLooping, MOver
<1>9. MAlone'
  BY <1>1, <1>2, <1>7, MAloneStays
<1> QED
  BY <1>1, <1>3, <1>5, <1>7, <1>8, <1>9, MReplicaStep DEF MInv, Migration!TypeOK

LEMMA MSyncStep == ASSUME MInv, NEW b \in mBackends, Migration!Sync(b) PROVE MInv'
<1>1. /\ Migration!Run(b, "sync")
      /\ mHeld' = [u \in mUsers |-> mHeld[u] \union ({mFirst[u]} \intersect mRoleIds)]
      /\ UNCHANGED <<mKnown, Migration!counts, mSchema, mTagged, mMade, mOwnerRole, mNames,
                     mFirst, Migration!history>>
  BY DEF Migration!Sync
<1>2. /\ mAt[b] = "sync" /\ mAt'[b] = "late"
      /\ mAt' \in [mBackends -> Migration!Stages \union {"down"}]
      /\ \A c \in mBackends \ {b} : mAt'[c] = mAt[c]
  BY <1>1, MRunIs, MAfterIs DEF Migration!Stages, Migration!Creating
<1>3. MRan(b)'
  BY <1>1, <1>2 DEF MInv, MRan, MPassed, Migration!Stages, Migration!Creating, MLooping, MOver
<1>4. UNCHANGED <<mGiven, mUnranked, mOverlapped>>
  BY <1>1 DEF Migration!history
<1>5. MOwn(b) /\ MKeepsOwners /\ MKeepsRanks
  BY <1>1, <1>2, <1>4 DEF MInv, Migration!TypeOK, MOwn, MRecords, MKeepsOwners, MKeepsRanks, MRanked
<1>6. MFound(b)'
  BY <1>1, <1>2, <1>4 DEF MInv, MFound, MLooping, MOver, MRanked
<1>7. MAlone'
  BY <1>1, <1>2, <1>4, <1>5, MAloneStays
<1>8. Migration!HeldIsGiven' /\ mHeld' \in [mUsers -> SUBSET mRoleIds]
  <2>1. mHeld' \in [mUsers -> SUBSET mRoleIds]
    BY <1>1 DEF MInv, Migration!TypeOK
  <2>2. \A u \in mUsers : mHeld'[u] = mHeld[u] \union ({mFirst[u]} \intersect mRoleIds)
    BY <1>1
  <2>3. Migration!HeldIsGiven'
    BY <1>1, <1>4, <2>2 DEF MInv, Migration!HeldIsGiven
  <2> QED
    BY <2>1, <2>3
<1> QED
  BY <1>1, <1>3, <1>4, <1>5, <1>6, <1>7, <1>8, MReplicaStep DEF MInv, Migration!TypeOK

-----------------------------------------------------------------------------
(* Of a request: every replica stays where it is, and knows what it knew.    *)
LEMMA MRouteStep ==
    ASSUME MInv, UNCHANGED <<Migration!migrating, mOverlapped>>, MKeepsOwners, MKeepsRanks,
           mServed' \in Nat,
           mMade' \in {"no", "row", "owner", "member", "joined", "yes"},
           mOwnerRole' \in mRoleIds \union {mNone},
           mNames' \in [mRoleIds -> Migration!Names],
           mFirst' \in [mUsers -> mRoleIds \union {mNone, mAbsent}],
           mHeld' \in [mUsers -> SUBSET mRoleIds],
           mGiven' \in [mUsers -> SUBSET mRoleIds],
           mUnranked' \in SUBSET mUsers,
           MAlone', MMaking', Migration!HeldIsGiven'
    PROVE  MInv'
<1>1. UNCHANGED <<mAt, mKnown, mStarts, mSchema, mTagged>> /\ MGrows
  BY DEF Migration!migrating, MInv, Migration!TypeOK, MGrows
<1>2. Migration!TypeOK'
  BY <1>1 DEF MInv, Migration!TypeOK
<1>3. \A c \in mBackends : MRan(c)' /\ MFound(c)'
  BY <1>1, MKeeps
<1> QED
  BY <1>2, <1>3 DEF MInv, Migration!MigrationAssumption

(* A request that neither makes the Owner's role nor goes back before it.   *)
LEMMA MAloneKeeps ==
    ASSUME MInv, UNCHANGED <<Migration!migrating, mOverlapped>>,
           Migration!Named("Owner")' = Migration!Named("Owner"),
           mMade' \in {"no", "row"} => mMade \in {"no", "row"}
    PROVE  MAlone'
<1>1. /\ UNCHANGED <<mAt, mKnown>>
      /\ \A c \in mBackends : Migration!GivesRoles(c)' = Migration!GivesRoles(c)
  BY DEF Migration!migrating, Migration!GivesRoles
<1> QED
  BY <1>1 DEF MInv, MAlone

LEMMA MCreateServerStep == ASSUME MInv, Migration!CreateServer PROVE MInv'
<1>1. /\ mMade = "no" /\ mMade' = "row"
      /\ UNCHANGED <<Migration!migrating, mServed, mOwnerRole, mNames, mFirst, mHeld, mGiven,
                     mUnranked, mOverlapped>>
  BY DEF Migration!CreateServer, Migration!rows, Migration!history
<1>2. MKeepsOwners /\ MKeepsRanks /\ MMaking' /\ Migration!HeldIsGiven' /\ MAlone'
  BY <1>1, MAloneKeeps DEF MInv, MKeepsOwners, MKeepsRanks, MRanked, MMaking,
     Migration!HeldIsGiven, Migration!Named
<1> QED
  BY <1>1, <1>2, MRouteStep DEF MInv, Migration!TypeOK

LEMMA MCreateOwnerRoleStep == ASSUME MInv, Migration!CreateOwnerRole PROVE MInv'
<1>1. /\ mMade = "row" /\ mMade' = "owner"
      /\ UNCHANGED <<Migration!migrating, mServed, mFirst, mHeld, mGiven, mUnranked, mOverlapped>>
  BY DEF Migration!CreateOwnerRole, Migration!history
<1>2. PICK x \in mRoleIds : Migration!NewRole(x, "Owner") /\ mOwnerRole' = x
  BY DEF Migration!CreateOwnerRole
<1>3. /\ mNames' \in [mRoleIds -> Migration!Names] /\ MKeepsOwners
      /\ Migration!Named("Owner")' = Migration!Named("Owner") \union {x}
  BY <1>2, MNewRoleIs DEF Migration!Names
<1>4. MKeepsRanks /\ MMaking' /\ Migration!HeldIsGiven'
  BY <1>1, <1>2 DEF MInv, MKeepsRanks, MRanked, MMaking, Migration!HeldIsGiven,
     Migration!MigrationAssumption
<1>5. MAlone'
  <2> SUFFICES ASSUME ~mOverlapped' PROVE MAlone'
    BY DEF MAlone
  <2>1. Migration!Named("Owner") = {} /\ \A c \in mBackends : ~Migration!GivesRoles(c)
    BY <1>1 DEF MInv, MAlone
  <2>2. \A c \in mBackends : ~Migration!GivesRoles(c)'
    BY <1>1, <2>1 DEF Migration!migrating, Migration!GivesRoles
  <2> QED
    BY <1>1, <1>3, <2>1, <2>2 DEF MAlone
<1> QED
  BY <1>1, <1>2, <1>3, <1>4, <1>5, MRouteStep DEF MInv, Migration!TypeOK

LEMMA MCreateMemberRoleStep == ASSUME MInv, Migration!CreateMemberRole PROVE MInv'
<1>1. /\ mMade = "owner" /\ mMade' = "member"
      /\ UNCHANGED <<Migration!migrating, mServed, mOwnerRole, mFirst, mHeld, mGiven, mUnranked,
                     mOverlapped>>
  BY DEF Migration!CreateMemberRole, Migration!history
<1>2. PICK x \in mRoleIds : Migration!NewRole(x, "Member")
  BY DEF Migration!CreateMemberRole
<1>3. /\ mNames' \in [mRoleIds -> Migration!Names] /\ MKeepsOwners
      /\ Migration!Named("Owner")' = Migration!Named("Owner")
  BY <1>2, MNewRoleIs DEF Migration!Names
<1>4. MKeepsRanks /\ MMaking' /\ Migration!HeldIsGiven' /\ MAlone'
  BY <1>1, <1>3, MAloneKeeps DEF MInv, MKeepsRanks, MRanked, MMaking, Migration!HeldIsGiven
<1> QED
  BY <1>1, <1>3, <1>4, MRouteStep DEF MInv, Migration!TypeOK

LEMMA MCreateMemberStep == ASSUME MInv, Migration!CreateMember PROVE MInv'
<1>1. /\ mMade = "member" /\ mMade' = "joined"
      /\ mFirst' = [mFirst EXCEPT ![mOwner] = IF @ = mAbsent THEN mOwnerRole ELSE @]
      /\ UNCHANGED <<Migration!migrating, mServed, mOwnerRole, mNames, mHeld, mGiven, mUnranked,
                     mOverlapped>>
  BY DEF Migration!CreateMember, Migration!history
<1>2. mOwnerRole \in mRoleIds /\ mOwner \in mUsers /\ {mNone, mAbsent} \intersect mRoleIds = {}
  BY <1>1 DEF MInv, Migration!TypeOK, MMaking, Migration!MigrationAssumption
<1>3. mFirst' \in [mUsers -> mRoleIds \union {mNone, mAbsent}]
  BY <1>1, <1>2 DEF MInv, Migration!TypeOK
<1>4. \A u \in mUsers : mFirst'[u] = mFirst[u] \/ (mFirst[u] = mAbsent /\ mFirst'[u] \in mRoleIds)
  BY <1>1, <1>2 DEF MInv, Migration!TypeOK
<1>5. MKeepsOwners /\ MKeepsRanks /\ MMaking' /\ MAlone'
  BY <1>1, <1>2, <1>4, MAloneKeeps DEF MInv, MKeepsOwners, MKeepsRanks, MRanked, MMaking,
     Migration!Named
<1>6. Migration!HeldIsGiven'
  <2> SUFFICES ASSUME NEW u \in mUsers
               PROVE  mGiven[u] \subseteq mHeld[u] /\ mHeld[u] \ mGiven[u] \subseteq {mFirst'[u]}
    BY <1>1 DEF Migration!HeldIsGiven
  <2>1. /\ mGiven[u] \subseteq mHeld[u] /\ mHeld[u] \ mGiven[u] \subseteq {mFirst[u]}
        /\ mHeld[u] \subseteq mRoleIds
    BY DEF MInv, Migration!TypeOK, Migration!HeldIsGiven
  <2> QED
    BY <1>2, <1>4, <2>1
<1> QED
  BY <1>1, <1>3, <1>5, <1>6, MRouteStep DEF MInv, Migration!TypeOK

LEMMA MCreateMemberRolesStep == ASSUME MInv, Migration!CreateMemberRoles PROVE MInv'
<1>1. /\ mMade = "joined" /\ mMade' = "yes"
      /\ mHeld' = [mHeld EXCEPT ![mOwner] = @ \union {mOwnerRole}]
      /\ mGiven' = [mGiven EXCEPT ![mOwner] = @ \union {mOwnerRole}]
      /\ UNCHANGED <<Migration!migrating, mServed, mOwnerRole, mNames, mFirst, mUnranked,
                     mOverlapped>>
  BY DEF Migration!CreateMemberRoles
<1>2. mOwnerRole \in mRoleIds /\ mOwner \in mUsers
  BY <1>1 DEF MInv, Migration!TypeOK, MMaking, Migration!MigrationAssumption
<1>3. mHeld' \in [mUsers -> SUBSET mRoleIds] /\ mGiven' \in [mUsers -> SUBSET mRoleIds]
  BY <1>1, <1>2 DEF MInv, Migration!TypeOK
<1>4. \A u \in mUsers : /\ mHeld'[u] = IF u = mOwner THEN mHeld[u] \union {mOwnerRole} ELSE mHeld[u]
                        /\ mGiven'[u] = IF u = mOwner THEN mGiven[u] \union {mOwnerRole} ELSE mGiven[u]
  BY <1>1 DEF MInv, Migration!TypeOK
<1>5. MKeepsOwners /\ MKeepsRanks /\ MMaking' /\ MAlone'
  BY <1>1, MAloneKeeps DEF MInv, MKeepsOwners, MKeepsRanks, MRanked, MMaking, Migration!Named
<1>6. Migration!HeldIsGiven'
  BY <1>1, <1>4 DEF MInv, Migration!HeldIsGiven
<1> QED
  BY <1>1, <1>3, <1>5, <1>6, MRouteStep DEF MInv, Migration!TypeOK

LEMMA MCreateFailsStep == ASSUME MInv, Migration!CreateFails PROVE MInv'
<1>1. /\ mMade' = "yes"
      /\ UNCHANGED <<Migration!migrating, mServed, mOwnerRole, mNames, mFirst, mHeld, mGiven,
                     mUnranked, mOverlapped>>
  BY DEF Migration!CreateFails, Migration!rows, Migration!history
<1>2. MKeepsOwners /\ MKeepsRanks /\ MMaking' /\ Migration!HeldIsGiven' /\ MAlone'
  BY <1>1, MAloneKeeps DEF MInv, MKeepsOwners, MKeepsRanks, MRanked, MMaking,
     Migration!HeldIsGiven, Migration!Named
<1> QED
  BY <1>1, <1>2, MRouteStep DEF MInv, Migration!TypeOK

LEMMA MRequestIs == ASSUME MInv, Migration!Request PROVE mServed' \in Nat
  BY DEF MInv, Migration!TypeOK, Migration!Request

LEMMA MJoinStep == ASSUME MInv, NEW u \in mUsers, Migration!Join(u) PROVE MInv'
<1>1. /\ Migration!Request /\ mFirst[u] = mAbsent
      /\ UNCHANGED <<Migration!migrating, mMade, mOwnerRole, mNames, mUnranked, mOverlapped>>
  BY DEF Migration!Join
<1>2. PICK x \in Migration!Live : /\ mFirst' = [mFirst EXCEPT ![u] = x]
                                  /\ mHeld' = [mHeld EXCEPT ![u] = @ \union {x}]
                                  /\ mGiven' = [mGiven EXCEPT ![u] = @ \union {x}]
  BY DEF Migration!Join
<1>3. x \in mRoleIds /\ {mNone, mAbsent} \intersect mRoleIds = {}
  BY DEF Migration!Live, MInv, Migration!MigrationAssumption
<1>4. /\ mFirst' \in [mUsers -> mRoleIds \union {mNone, mAbsent}]
      /\ mHeld' \in [mUsers -> SUBSET mRoleIds] /\ mGiven' \in [mUsers -> SUBSET mRoleIds]
  BY <1>2, <1>3 DEF MInv, Migration!TypeOK
<1>5. \A v \in mUsers : /\ mFirst'[v] = IF v = u THEN x ELSE mFirst[v]
                        /\ mHeld'[v] = IF v = u THEN mHeld[v] \union {x} ELSE mHeld[v]
                        /\ mGiven'[v] = IF v = u THEN mGiven[v] \union {x} ELSE mGiven[v]
  BY <1>2 DEF MInv, Migration!TypeOK
<1>6. MKeepsOwners /\ MKeepsRanks /\ MMaking' /\ MAlone'
  BY <1>1, <1>3, <1>5, MAloneKeeps DEF MInv, MKeepsOwners, MKeepsRanks, MRanked, MMaking,
     Migration!Named
<1>7. Migration!HeldIsGiven'
  <2> SUFFICES ASSUME NEW v \in mUsers
               PROVE  mGiven'[v] \subseteq mHeld'[v] /\ mHeld'[v] \ mGiven'[v] \subseteq {mFirst'[v]}
    BY DEF Migration!HeldIsGiven
  <2>1. /\ mGiven[v] \subseteq mHeld[v] /\ mHeld[v] \ mGiven[v] \subseteq {mFirst[v]}
        /\ mHeld[v] \subseteq mRoleIds
    BY DEF MInv, Migration!TypeOK, Migration!HeldIsGiven
  <2> QED
    BY <1>1, <1>3, <1>5, <2>1
<1> QED
  BY <1>1, <1>4, <1>6, <1>7, MRequestIs, MRouteStep DEF MInv, Migration!TypeOK

LEMMA MJoinWithoutStep == ASSUME MInv, NEW u \in mUsers, Migration!JoinWithout(u) PROVE MInv'
<1>1. /\ Migration!Request /\ mFirst[u] = mAbsent
      /\ mFirst' = [mFirst EXCEPT ![u] = mNone]
      /\ mUnranked' = mUnranked \union {u}
      /\ UNCHANGED <<Migration!migrating, mMade, mOwnerRole, mNames, mHeld, mGiven, mOverlapped>>
  BY DEF Migration!JoinWithout
<1>2. /\ mFirst' \in [mUsers -> mRoleIds \union {mNone, mAbsent}] /\ mUnranked' \in SUBSET mUsers
      /\ \A v \in mUsers : mFirst'[v] = IF v = u THEN mNone ELSE mFirst[v]
  BY <1>1 DEF MInv, Migration!TypeOK
<1>3. MKeepsOwners /\ MKeepsRanks /\ MMaking' /\ MAlone'
  BY <1>1, <1>2, MAloneKeeps DEF MInv, MKeepsOwners, MKeepsRanks, MRanked, MMaking, Migration!Named
<1>4. Migration!HeldIsGiven'
  <2> SUFFICES ASSUME NEW v \in mUsers
               PROVE  mGiven[v] \subseteq mHeld[v] /\ mHeld[v] \ mGiven[v] \subseteq {mFirst'[v]}
    BY <1>1 DEF Migration!HeldIsGiven
  <2>1. /\ mGiven[v] \subseteq mHeld[v] /\ mHeld[v] \ mGiven[v] \subseteq {mFirst[v]}
        /\ mHeld[v] \subseteq mRoleIds /\ mAbsent \notin mRoleIds
    BY DEF MInv, Migration!TypeOK, Migration!HeldIsGiven, Migration!MigrationAssumption
  <2> QED
    BY <1>1, <1>2, <2>1
<1> QED
  BY <1>1, <1>2, <1>3, <1>4, MRequestIs, MRouteStep DEF MInv, Migration!TypeOK

LEMMA MAssignStep == ASSUME MInv, NEW u \in mUsers, NEW set \in SUBSET mRoleIds,
                            Migration!Assign(u, set)
                     PROVE  MInv'
<1>1. /\ Migration!Request
      /\ mHeld' = [mHeld EXCEPT ![u] = set]
      /\ mGiven' = [mGiven EXCEPT ![u] = set]
      /\ UNCHANGED <<Migration!migrating, mMade, mOwnerRole, mNames, mFirst, mUnranked,
                     mOverlapped>>
  BY DEF Migration!Assign
<1>2. /\ mHeld' \in [mUsers -> SUBSET mRoleIds] /\ mGiven' \in [mUsers -> SUBSET mRoleIds]
      /\ \A v \in mUsers : /\ mHeld'[v] = IF v = u THEN set ELSE mHeld[v]
                           /\ mGiven'[v] = IF v = u THEN set ELSE mGiven[v]
  BY <1>1 DEF MInv, Migration!TypeOK
<1>3. MKeepsOwners /\ MKeepsRanks /\ MMaking' /\ MAlone'
  BY <1>1, MAloneKeeps DEF MInv, MKeepsOwners, MKeepsRanks, MRanked, MMaking, Migration!Named
<1>4. Migration!HeldIsGiven'
  BY <1>1, <1>2 DEF MInv, Migration!HeldIsGiven
<1> QED
  BY <1>1, <1>2, <1>3, <1>4, MRequestIs, MRouteStep DEF MInv, Migration!TypeOK

LEMMA MLeaveStep == ASSUME MInv, NEW u \in mUsers, Migration!Leave(u) PROVE MInv'
<1>1. /\ Migration!Request
      /\ mFirst' = [mFirst EXCEPT ![u] = mAbsent]
      /\ mHeld' = [mHeld EXCEPT ![u] = {}]
      /\ mGiven' = [mGiven EXCEPT ![u] = {}]
      /\ mUnranked' = mUnranked \ {u}
      /\ UNCHANGED <<Migration!migrating, mMade, mOwnerRole, mNames, mOverlapped>>
  BY DEF Migration!Leave
<1>2. /\ mFirst' \in [mUsers -> mRoleIds \union {mNone, mAbsent}] /\ mUnranked' \in SUBSET mUsers
      /\ mHeld' \in [mUsers -> SUBSET mRoleIds] /\ mGiven' \in [mUsers -> SUBSET mRoleIds]
  BY <1>1 DEF MInv, Migration!TypeOK
<1>3. \A v \in mUsers : /\ mFirst'[v] = IF v = u THEN mAbsent ELSE mFirst[v]
                        /\ mHeld'[v] = IF v = u THEN {} ELSE mHeld[v]
                        /\ mGiven'[v] = IF v = u THEN {} ELSE mGiven[v]
  BY <1>1 DEF MInv, Migration!TypeOK
<1>4. mNone # mAbsent
  BY DEF MInv, Migration!MigrationAssumption
<1>5. MKeepsOwners /\ MKeepsRanks /\ MMaking' /\ MAlone'
  BY <1>1, <1>3, <1>4, MAloneKeeps DEF MInv, MKeepsOwners, MKeepsRanks, MRanked, MMaking,
     Migration!Named
<1>6. Migration!HeldIsGiven'
  BY <1>3 DEF MInv, Migration!HeldIsGiven
<1> QED
  BY <1>1, <1>2, <1>5, <1>6, MRequestIs, MRouteStep DEF MInv, Migration!TypeOK

LEMMA MNameRoleStep == ASSUME MInv, NEW x \in mRoleIds, Migration!NameRole(x) PROVE MInv'
<1>1. /\ Migration!Request /\ mNames[x] # "Owner"
      /\ UNCHANGED <<Migration!migrating, mMade, mOwnerRole, mFirst, mHeld, mGiven, mUnranked,
                     mOverlapped>>
  BY DEF Migration!NameRole, Migration!history
<1>2. PICK name \in {"Member", "other"} : mNames' = [mNames EXCEPT ![x] = name]
  BY DEF Migration!NameRole
<1>3. /\ mNames' \in [mRoleIds -> Migration!Names]
      /\ \A y \in mRoleIds : mNames'[y] = IF y = x THEN name ELSE mNames[y]
  BY <1>2 DEF MInv, Migration!TypeOK, Migration!Names
<1>4. MKeepsOwners /\ Migration!Named("Owner")' = Migration!Named("Owner")
  BY <1>1, <1>3 DEF MKeepsOwners, Migration!Named
<1>5. MKeepsRanks /\ MMaking' /\ Migration!HeldIsGiven' /\ MAlone'
  BY <1>1, <1>4, MAloneKeeps DEF MInv, MKeepsRanks, MRanked, MMaking, Migration!HeldIsGiven
<1> QED
  BY <1>1, <1>3, <1>4, <1>5, MRequestIs, MRouteStep DEF MInv, Migration!TypeOK

LEMMA MStep == MInv /\ [Migration!Next]_Migration!vars => MInv'
<1> SUFFICES ASSUME MInv, [Migration!Next]_Migration!vars PROVE MInv'
  OBVIOUS
<1>1. ASSUME NEW b \in mBackends, Migration!Migrate(b) PROVE MInv'
  BY <1>1, MStartStep, MStopStep, MCreateStep, MFindUsersStep, MTagStep, MNoServerStep,
     MFindRolesStep,
     MAddOwnerStep, MAddMemberStep, MRankOwnerStep, MRankOthersStep, MSyncStep DEF Migration!Migrate
<1>2. ASSUME Migration!Serve PROVE MInv'
  BY <1>2, MCreateServerStep, MCreateOwnerRoleStep, MCreateMemberRoleStep, MCreateMemberStep,
     MCreateMemberRolesStep, MCreateFailsStep, MJoinStep, MJoinWithoutStep, MAssignStep, MLeaveStep,
     MNameRoleStep DEF Migration!Serve
<1>3. ASSUME UNCHANGED Migration!vars PROVE MInv'
  <2>1. /\ UNCHANGED <<Migration!migrating, mServed, mMade, mOwnerRole, mNames, mFirst, mHeld>>
        /\ UNCHANGED <<mGiven, mUnranked, mOverlapped>>
    BY <1>3 DEF Migration!vars, Migration!counts, Migration!rows, Migration!history,
       Migration!migrating
  <2>2. MKeepsOwners /\ MKeepsRanks /\ MMaking' /\ Migration!HeldIsGiven' /\ MAlone'
    BY <2>1, MAloneKeeps DEF MInv, MKeepsOwners, MKeepsRanks, MRanked, MMaking,
       Migration!HeldIsGiven, Migration!Named
  <2> QED
    BY <2>1, <2>2, MRouteStep DEF MInv, Migration!TypeOK
<1> QED
  BY <1>1, <1>2, <1>3 DEF Migration!Next

LEMMA MInvariance == ASSUME Migration!MigrationAssumption PROVE Migration!Spec => []MInv
<1>1. Migration!Init => MInv
  BY MInitInv
<1> QED
  BY <1>1, MStep, PTL DEF Migration!Spec
-----------------------------------------------------------------------------
(***************************************************************************)
(* The parts side by side: seen from one part, a step of another one       *)
(* changes nothing, so each part behaves as its own specification says.    *)
(***************************************************************************)
LEMMA Projections ==
    PartsSpec => /\ Spec /\ Roles!Spec /\ Access!BothSpec /\ Notifications!BothSpec
                 /\ Accounts!BothSpec /\ Uploads!Spec /\ Session!Spec /\ Api!Spec
                 /\ Migration!Spec
<1>1. PartsInit => /\ Init /\ Roles!Init /\ Access!Init /\ Notifications!Init
                   /\ Accounts!Init /\ Uploads!Init /\ Session!Init /\ Api!Init
                   /\ Migration!Init
  BY DEF PartsInit
<1> USE DEF PartsNext, RustRealtimeStep, RolesStep, AccessStep, NotificationsStep, AccountsStep,
            UploadsStep, SessionStep, ApiStep, MigrationStep, partVars
<1>2. [PartsNext]_partVars => [Next]_vars
  OBVIOUS
<1>3. [PartsNext]_partVars => [Roles!Next]_Roles!vars
  BY DEF rVars, Roles!vars, Roles!history
<1>4. [PartsNext]_partVars => [Access!BothNext]_Access!vars
  BY DEF aVars, Access!vars, Access!people
<1>5. [PartsNext]_partVars => [Notifications!BothNext]_Notifications!vars
  BY DEF nVars, Notifications!vars, Notifications!server, Notifications!client
<1>6. [PartsNext]_partVars => [Accounts!BothNext]_Accounts!vars
  BY DEF uVars, Accounts!vars, Accounts!history
<1>7. [PartsNext]_partVars => [Uploads!Next]_Uploads!vars
  BY DEF oVars, Uploads!vars
<1>8. [PartsNext]_partVars => [Session!Next]_Session!vars
  BY DEF sVars, Session!vars, Session!local, Session!shown
<1>9. [PartsNext]_partVars => [Api!Next]_Api!vars
  BY DEF gVars, Api!vars
<1>10. [PartsNext]_partVars => [Migration!Next]_Migration!vars
  BY DEF mVars, Migration!vars, Migration!counts, Migration!rows, Migration!history
<1> HIDE DEF PartsNext, RustRealtimeStep, RolesStep, AccessStep, NotificationsStep, AccountsStep,
             UploadsStep, SessionStep, ApiStep, MigrationStep, partVars
<1>11. PartsSpec => Spec /\ Roles!Spec /\ Access!BothSpec
  BY <1>1, <1>2, <1>3, <1>4, PTL DEF PartsSpec, Spec, Roles!Spec, Access!BothSpec
<1>12. PartsSpec => Notifications!BothSpec /\ Accounts!BothSpec /\ Uploads!Spec
  BY <1>1, <1>5, <1>6, <1>7, PTL
     DEF PartsSpec, Notifications!BothSpec, Accounts!BothSpec, Uploads!Spec
<1>13. PartsSpec => Session!Spec /\ Api!Spec /\ Migration!Spec
  BY <1>1, <1>8, <1>9, <1>10, PTL DEF PartsSpec, Session!Spec, Api!Spec, Migration!Spec
<1> QED
  BY <1>11, <1>12, <1>13

(* The part that moves stays one of those there are. *)
LEMMA PartStays == PartsSpec => [](part \in AllParts)
<1>1. PartsInit => part \in AllParts
  BY PartsAssumption DEF PartsInit
<1>2. part \in AllParts /\ [PartsNext]_partVars => (part \in AllParts)'
  BY DEF PartsNext, RustRealtimeStep, RolesStep, AccessStep, NotificationsStep, AccountsStep,
         UploadsStep, SessionStep, ApiStep, MigrationStep, partVars
<1> QED
  BY <1>1, <1>2, PTL DEF PartsSpec

(* All nine parts keep to their types, whichever of them moves.            *)
THEOREM PartsTyped == PartsSpec => []PartsTypeOK
<1>1. NInv => Notifications!TypeOK
  BY DEF NInv
<1>2. AInv => Access!TypeOK
  BY DEF AInv
<1>3. OInv => Uploads!TypeOK
  BY DEF OInv
<1>4. /\ part \in AllParts /\ TypeOK /\ Roles!TypeOK /\ Access!TypeOK
      /\ Notifications!TypeOK /\ Accounts!TypeOK /\ Uploads!TypeOK
      /\ Session!TypeOK /\ Api!TypeOK /\ Migration!TypeOK
      => PartsTypeOK
  BY DEF AllParts, PartsTypeOK
<1>5. SInv => Session!TypeOK
  BY DEF SInv
<1>6. GInv => Api!TypeOK
  BY DEF GInv
<1>7. MInv => Migration!TypeOK
  BY DEF MInv
<1> QED
  BY <1>1, <1>2, <1>3, <1>4, <1>5, <1>6, <1>7, Projections, PartStays, TypeCorrect,
     RolesInvariance, AInvariance, NInvariance, AccountsInvariance, OInvariance,
     SInvariance, GInvariance, MInvariance, PartsAssumption, PTL

(* servers.ts: whatever members do with contexts as stale as may be, no    *)
(* role but the Owner's gets a flag, or a rank, that the owner never gave. *)
THEOREM EscalatesNever == PartsSpec => []NoEscalation
<1>1. Roles!NoEscalation => NoEscalation
  BY DEF NoEscalation
<1> QED
  BY <1>1, Projections, RolesInvariance, PTL

(* servers.ts: who is no member holds no role, but after a kick that is    *)
(* half way, late or failed.                                               *)
THEOREM RolesWithMembers == PartsSpec => []RolesOfMembers
<1>1. Roles!RolesOfMembers => RolesOfMembers
  BY DEF RolesOfMembers
<1> QED
  BY <1>1, Projections, RolesInvariance, PTL

(* channels.ts, auth.ts, messages.ts, servers.ts and main.rs: the rows of  *)
(* a channel are the last list saved, unless saves overlapped, and every   *)
(* place that is asked who may see it answers the same from them.          *)
THEOREM AccessDecided == PartsSpec => []AccessAsSaved
<1>1. AInv => AccessAsSaved
  BY AAccessInBoth DEF AccessAsSaved
<1> QED
  BY <1>1, Projections, AInvariance, PTL

(* NotificationProvider.tsx: however late a poll, a frame or an answer     *)
(* comes in, what the user has read does not turn unread.                  *)
THEOREM ReadForGood == PartsSpec => ReadStays
<1>1. NInv /\ [Notifications!BothNext]_Notifications!vars =>
         [\A n \in nIds : nList[n] = "read" => nList'[n] # "unread"]_Notifications!vars
  BY NReadStays
<1>2. Notifications!BothSpec => Notifications!ReadStays
  BY <1>1, NInvariance, PTL DEF Notifications!BothSpec, Notifications!ReadStays
<1> QED
  BY <1>2, Projections, PTL DEF ReadStays

(* NotificationProvider.tsx: with nothing under way, what the list of a    *)
(* user with a socket lacks was published to nobody, or a step failed.     *)
THEOREM MissedNothingElse == PartsSpec => []NothingElseMissed
<1>1. NInv => NothingElseMissed
  BY NNothingElseMissed DEF NothingElseMissed
<1> QED
  BY <1>1, Projections, NInvariance, PTL

(* auth.ts and main.rs: however many sign-ins and registrations run, a     *)
(* subject has one account, and an email two only after a race for it.     *)
THEOREM SignedIn == PartsSpec => []SignIns
<1>1. Accounts!SignIns => SignIns
  BY DEF SignIns
<1> QED
  BY <1>1, Projections, AccountsInvariance, PTL

(* uploads.ts: however many cleanups run beside uploads and uses, what is  *)
(* in use is in the bucket, unless it was put to use after a cleanup had   *)
(* listed it.                                                              *)
THEOREM UsedStays == PartsSpec => []UsedIsStored
<1>1. OInv => UsedIsStored
  BY DEF OInv, UsedIsStored
<1> QED
  BY <1>1, Projections, OInvariance, PTL

(* AuthProvider.tsx and cacheStore.ts: whatever logs in or out, reloads, or *)
(* answers late, a tab shows the token's user with their own lists, unless  *)
(* another session came between; api.ts: a call is answered with nothing    *)
(* older than the writes that had been, and joins only a request of its key *)
(* that is under way.                                                      *)
THEOREM ClientShows == PartsSpec => []ClientHolds
<1>1. SInv /\ GInv => ClientHolds
  BY DEF SInv, GInv, ClientHolds
<1> QED
  BY <1>1, Projections, SInvariance, GInvariance, PartsAssumption, PTL

(* migrate.ts: however many replicas migrate, stop and serve beside each    *)
(* other, no statement misses what it refers to, a replica that is done has *)
(* left an Owner's role, one only unless it looked while another made it,   *)
(* and the sync of member roles gives nobody but the role they joined with. *)
THEOREM MigrationSafe == PartsSpec => []MigrationHolds
<1>1. MInv => MigrationHolds
  BY MInvHolds DEF MigrationHolds
<1> QED
  BY <1>1, Projections, MInvariance, PartsAssumption, PTL
=============================================================================
