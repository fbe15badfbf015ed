----------------------------- MODULE ChatPanel -----------------------------
(***************************************************************************)
(* frontend/src/components/app/ChatPanel.tsx: the list of messages of the  *)
(* channel a user looks at, the cache of the lists (stores/cacheStore.ts), *)
(* optimistic sends, the first page and the socket's frames.               *)
(*                                                                         *)
(* One browser tab: a callback, the render it causes and the effects of    *)
(* that render are one step.  The panel is one component for all channels  *)
(* (AppShell.tsx): going to another channel changes a prop, and what was   *)
(* awaited before goes on after.  The backend is as in Messages: a post    *)
(* inserts, publishes and answers, and may fail in between.  Left out:     *)
(* older pages (a channel has less than one), uploads, edits (they keep    *)
(* the entries), and the trimming of the cache at fifty channels.          *)
(***************************************************************************)
EXTENDS Integers, FiniteSets, SequencesExt, Functions

CONSTANTS Channels,
          First,      \* the channel the panel is opened with
          Posts,      \* messages that are sent, from the panel or by others
          Texts,
          MaxLoads    \* bound: first pages asked for

ASSUME PanelAssumption == First \in Channels /\ MaxLoads \in Nat

VARIABLES key,        \* channelKey
          msgs,       \* the list that is shown
          cache,      \* messagesByChannel
          loading,    \* loadingInitial
          loads,      \* loads[i]: the i-th first page: its channel, its state
          listening,  \* the socket is subscribed to key
          frames,     \* frames on their way to it
          post,       \* post[p]: a message and how far its handler is
          rows        \* rows[c]: the messages of channel c in the table

panel == <<key, msgs, cache, loading>>
socket == <<listening, frames>>
vars == <<panel, loads, socket, post, rows>>

(* An entry of a list: an optimistic one, with an id "local:...", or not. *)
Local(p) == [post |-> p, local |-> TRUE]
Message(p) == [post |-> p, local |-> FALSE]
Entries == [post : Posts, local : BOOLEAN]

Stages == {"none", "sent", "inserted", "published", "failed", "done"}
NoPost == [stage |-> "none"]

TypeOK == /\ key \in Channels
          /\ msgs \in Seq(Entries)
          /\ cache \in [Channels -> [loaded : BOOLEAN, list : Seq(Entries)]]
          /\ loading \in BOOLEAN
          /\ \A i \in DOMAIN loads : loads[i] \in
                [to : Channels,
                 state : {"asked", "read", "shown", "done", "failed"},
                 page : Seq(Entries)]
          /\ listening \in BOOLEAN
          /\ frames \in Seq(Posts)
          /\ \A p \in Posts : post[p] = NoPost \/ post[p] \in
                [stage : Stages \ {"none"}, to : Channels, text : Texts, mine : BOOLEAN]
          /\ rows \in [Channels -> Seq(Posts)]

Load(c) == [to |-> c, state |-> "asked", page |-> <<>>]

Init == /\ key = First
        /\ msgs = <<>>
        /\ cache = [c \in Channels |-> [loaded |-> FALSE, list |-> <<>>]]
        /\ loading = TRUE
        /\ loads = <<Load(First)>>
        /\ listening = FALSE
        /\ frames = <<>>
        /\ post = [p \in Posts |-> NoPost]
        /\ rows = [c \in Channels |-> <<>>]

(* setCachedChannelMessages: cache old, with list as that of c. *)
Cached(old, c, list) == [old EXCEPT ![c] = [loaded |-> TRUE, list |-> list]]

(* The effect that follows a change of the list, unless loadingInitial. *)
Show(list, old, busy) == /\ msgs' = list
                         /\ loading' = busy
                         /\ cache' = IF busy THEN old ELSE Cached(old, key', list)
-----------------------------------------------------------------------------
(* Going to another channel. *)

(* The effects run with the new key and the old list: first the one that   *)
(* reads the cache and asks for the page, then the one that caches.        *)
Go(c) ==
    LET before == IF loading THEN cache ELSE Cached(cache, c, msgs) IN
    /\ c # key
    /\ Len(loads) < MaxLoads
    /\ key' = c
    /\ IF cache[c].loaded THEN Show(cache[c].list, before, FALSE)
                          ELSE Show(<<>>, before, TRUE)
    /\ loads' = Append(loads, Load(c))
    /\ listening' = FALSE
    /\ frames' = <<>>
    /\ UNCHANGED <<post, rows>>

(* A load is the current one until the next: `cancelled'. *)
Current(i) == i = Len(loads)

Stage(i, state) == loads' = [loads EXCEPT ![i].state = state]

(* GET /api/messages reads the table, or fails and answers an empty page. *)
Read(i) ==
    /\ loads[i].state = "asked"
    /\ \E page \in {rows[loads[i].to], <<>>} :
          loads' = [loads EXCEPT ![i].state = "read",
                                 ![i].page = [n \in DOMAIN page |-> Message(page[n])]]
    /\ UNCHANGED <<panel, socket, post, rows>>

(* The answer: setMsgs(merged), asked for by the current load or not. *)
Loaded(i) ==
    /\ loads[i].state = "read"
    /\ UNCHANGED key
    /\ Show(loads[i].page, cache, loading)
    /\ Stage(i, "shown")
    /\ UNCHANGED <<socket, post, rows>>

(* After the next frame: the cache, and the end of loadingInitial. *)
LoadEnds(i) ==
    /\ loads[i].state = "shown"
    /\ UNCHANGED <<key, msgs>>
    /\ LET kept == Cached(cache, key, loads[i].page) IN
       \/ ~Current(i) /\ UNCHANGED <<cache, loading>>
       \/ Current(i) /\ loading /\ Show(msgs, kept, FALSE)
       \/ Current(i) /\ ~loading /\ cache' = kept /\ UNCHANGED loading
    /\ Stage(i, "done")
    /\ UNCHANGED <<socket, post, rows>>

(* The request fails: an uncached channel is shown empty. *)
LoadFails(i) ==
    /\ loads[i].state = "asked"
    /\ UNCHANGED key
    /\ \/ ~(Current(i) /\ loading) /\ UNCHANGED <<msgs, cache, loading>>
       \/ Current(i) /\ loading /\ Show(<<>>, cache, FALSE)
    /\ Stage(i, "failed")
    /\ UNCHANGED <<socket, post, rows>>
-----------------------------------------------------------------------------
(* Sending. *)

(* applyMessagesUpdate of a send to channel c: it caches under c.          *)
Apply(c, list) == UNCHANGED key /\ Show(list, Cached(cache, c, list), loading)

Step(p, stage) == post' = [post EXCEPT ![p].stage = stage]

(* send, up to its await: the optimistic entry. *)
Send(p, t) ==
    /\ post[p] = NoPost
    /\ post' = [post EXCEPT ![p] = [stage |-> "sent", to |-> key, text |-> t, mine |-> TRUE]]
    /\ Apply(key, Append(msgs, Local(p)))
    /\ UNCHANGED <<loads, socket, rows>>

(* Without the optimistic entry of p: what is kept keeps its order.        *)
Kept(p) == {i \in DOMAIN msgs : msgs[i] # Local(p)}
Rank(p, i) == Cardinality({j \in Kept(p) : j <= i})
Without(p) == [n \in 1..Cardinality(Kept(p)) |->
                  msgs[CHOOSE i \in Kept(p) : Rank(p, i) = n]]

(* Slip: the answer is added without looking for the message. *)
Bug_Answered(p) ==
    /\ post[p].stage = "published" /\ post[p].mine
    /\ Apply(post[p].to, Append(Without(p), Message(p)))
    /\ Step(p, "done")
    /\ UNCHANGED <<loads, socket, rows>>

(* The answer of a send: the confirmed message replaces the optimistic one, *)
(* unless the frame came first.                                            *)
Answered(p) ==
    /\ post[p].stage = "published" /\ post[p].mine
    /\ Apply(post[p].to, IF Contains(Without(p), Message(p))
                         THEN Without(p) ELSE Append(Without(p), Message(p)))
    /\ Step(p, "done")
    /\ UNCHANGED <<loads, socket, rows>>

(* Slip: what throws (the network, not the server) keeps the entry. *)
Bug_Refused(p) ==
    /\ post[p].stage = "failed"
    /\ UNCHANGED panel
    /\ Step(p, "done")
    /\ UNCHANGED <<loads, socket, rows>>

(* An error answer, or none: the optimistic entry goes. *)
Refused(p) ==
    /\ post[p].stage = "failed"
    /\ Apply(post[p].to, Without(p))
    /\ Step(p, "done")
    /\ UNCHANGED <<loads, socket, rows>>
-----------------------------------------------------------------------------
(* The socket. *)

Listen == /\ ~listening
          /\ listening' = TRUE
          /\ UNCHANGED <<panel, loads, frames, post, rows>>

(* The socket closes; it will connect again, and frames in between are lost. *)
Disconnect == /\ listening
              /\ listening' = FALSE
              /\ frames' = <<>>
              /\ UNCHANGED <<panel, loads, post, rows>>

(* Slip: the frame's message is added as it came, and not as an entry.     *)
Bug_Merged(p) == IF Contains(msgs, Message(p)) THEN msgs ELSE Append(msgs, p)

(* The list once the frame of p is heard: a message of one's own takes the  *)
(* place of the last optimistic entry with its text.                        *)
Merged(p) ==
    LET i == SelectLastInSeq(msgs, LAMBDA e : e.local /\ post[e.post].text = post[p].text) IN
    IF Contains(msgs, Message(p)) THEN msgs
    ELSE IF post[p].mine /\ i > 0 THEN ReplaceAt(msgs, i, Message(p))
    ELSE Append(msgs, Message(p))

(* ws.onmessage. *)
Hear == /\ frames # <<>>
        /\ frames' = Tail(frames)
        /\ UNCHANGED key
        /\ LET list == Merged(Head(frames)) IN
           IF list = msgs THEN UNCHANGED <<msgs, cache, loading>>
                          ELSE Show(list, cache, loading)
        /\ UNCHANGED <<loads, listening, post, rows>>
-----------------------------------------------------------------------------
(* The backend (Messages.tla), and the other users. *)

(* Another user's message: of its handler only the publish is told apart.   *)
Post(p, c, t) == /\ post[p] = NoPost
                 /\ post' = [post EXCEPT ![p] =
                        [stage |-> "inserted", to |-> c, text |-> t, mine |-> FALSE]]
                 /\ rows' = [rows EXCEPT ![c] = Append(@, p)]
                 /\ UNCHANGED <<panel, loads, socket>>

Insert(p) == /\ post[p].stage = "sent"
             /\ rows' = [rows EXCEPT ![post[p].to] = Append(@, p)]
             /\ Step(p, "inserted")
             /\ UNCHANGED <<panel, loads, socket>>

(* A publish that fails is swallowed, and the answer goes on. *)
Publish(p) == /\ post[p].stage = "inserted"
              /\ \/ UNCHANGED frames
                 \/ listening /\ post[p].to = key /\ frames' = Append(frames, p)
              /\ Step(p, "published")
              /\ UNCHANGED <<panel, loads, listening, rows>>

(* A query fails, or the backend stops, or the answer is lost. *)
Fail(p) == /\ post[p].stage \in {"sent", "inserted", "published"}
           /\ post[p].mine
           /\ Step(p, "failed")
           /\ UNCHANGED <<panel, loads, socket, rows>>

Next == \/ \E c \in Channels : Go(c)
        \/ \E i \in DOMAIN loads : Read(i) \/ Loaded(i) \/ LoadEnds(i) \/ LoadFails(i)
        \/ \E p \in Posts, t \in Texts : Send(p, t) \/ \E c \in Channels : Post(p, c, t)
        \/ \E p \in Posts : \/ Answered(p) \/ Refused(p)
                            \/ Insert(p) \/ Publish(p) \/ Fail(p)
        \/ Listen \/ Disconnect \/ Hear

Spec == Init /\ [][Next]_vars
-----------------------------------------------------------------------------
Lists == {msgs} \union {cache[c].list : c \in Channels}

(* No message is in a list twice, whatever the order of its answer, its     *)
(* frame, and the pages and channels in between.                            *)
NoTwice == \A list \in Lists : IsInjective(list)

(* Once the page of the channel is shown, an optimistic entry is one whose  *)
(* answer is awaited: entries that were left behind in another channel, or  *)
(* came back with a cache, do not stay.                                     *)
PendingOnly == loads[Len(loads)].state \in {"shown", "done"}
                  => \A p \in Posts : Contains(msgs, Local(p)) => post[p].stage # "done"

(* ChatPanel.tsx:593, "to avoid a temporary duplicate": of what the user    *)
(* sent with one text, no more is shown than was sent.  It fails: a frame    *)
(* may take the place of another send's entry.                              *)
OwnOnce == \A t \in Texts :
              Cardinality({i \in DOMAIN msgs : post[msgs[i].post].mine
                                              /\ post[msgs[i].post].text = t})
                <= Cardinality({p \in Posts : post[p] # NoPost /\ post[p].mine
                                              /\ post[p].text = t})
=============================================================================
