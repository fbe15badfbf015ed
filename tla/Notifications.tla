---------------------------- MODULE Notifications ----------------------------
(***************************************************************************)
(* The notifications of one user: the rows that createNotification of      *)
(* backend/src/routes/messages.ts inserts and then publishes, the routes   *)
(* of notifications.ts, and the list that NotificationProvider.tsx of the  *)
(* web client keeps from three sources: fetches, the user's socket, and    *)
(* what the user has just done themselves.  It polls only while its socket *)
(* is not open.  Fewer than the LIMIT of 100 notifications are there.      *)
(***************************************************************************)
EXTENDS Integers, FiniteSets

CONSTANTS Ids,
          Fetches,   \* fetches that may be under way at once
          MaxCalls   \* bound: calls of the client under way at once

VARIABLES rows,      \* rows[n]: the row of notifications
          publishing,\* inserted, not yet published
          frames,    \* sent to the user's socket, not yet handled
          session,   \* isAuthenticated
          socket,    \* open: subscribe was sent; subscribed: it was handled
          fetch,     \* fetch[f]: what GET /api/notifications read
          calls,     \* requests of the client that were not handled yet
          list,      \* list[n]: the client's notifications
          lost       \* history: not shown, and nothing was to bring it

server == <<rows, publishing, frames>>
client == <<session, socket, fetch, calls, list>>
vars == <<server, client, lost>>

Answers == [Ids -> {"absent", "unread", "read"}]
Call == [op : {"read", "delete"}, ids : SUBSET Ids]

TypeOK == /\ rows \in [Ids -> {"new", "unread", "read", "deleted"}]
          /\ publishing \in SUBSET Ids
          /\ frames \in SUBSET Ids
          /\ session \in BOOLEAN
          /\ socket \in {"down", "open", "subscribed"}
          /\ fetch \in [Fetches -> [at : {"idle", "asked", "answered"}, list : Answers]]
          /\ calls \in SUBSET Call
          /\ list \in Answers
          /\ lost \in SUBSET Ids

Nothing == [n \in Ids |-> "absent"]
NoFetch == [at |-> "idle", list |-> Nothing]
There(n) == rows[n] \in {"unread", "read"}

Init == /\ rows = [n \in Ids |-> "new"]
        /\ publishing = {}
        /\ frames = {}
        /\ session = FALSE
        /\ socket = "down"
        /\ fetch = [f \in Fetches |-> NoFetch]
        /\ calls = {}
        /\ list = Nothing
        /\ lost = {}
-----------------------------------------------------------------------------
(* The backend. *)

(* createNotification: the INSERT ... *)
Create(n) == /\ rows[n] = "new"
             /\ rows' = [rows EXCEPT ![n] = "unread"]
             /\ publishing' = publishing \union {n}
             /\ UNCHANGED <<frames, client, lost>>

(* ... and the publish to the channel user:<id>. *)
Publish(n) == /\ n \in publishing
              /\ publishing' = publishing \ {n}
              /\ IF socket = "subscribed"
                 THEN frames' = frames \union {n} /\ UNCHANGED lost
                 ELSE UNCHANGED frames /\ lost' = lost \union {n}
              /\ UNCHANGED <<rows, client>>

(* It throws, which is logged; or the process ends before it. *)
PublishFails(n) == /\ n \in publishing
                   /\ publishing' = publishing \ {n}
                   /\ lost' = lost \union {n}
                   /\ UNCHANGED <<rows, frames, client>>

(* GET /api/notifications *)
Read(f) == /\ fetch[f].at = "asked"
           /\ fetch' = [fetch EXCEPT ![f] =
                          [at |-> "answered",
                           list |-> [n \in Ids |-> IF There(n) THEN rows[n] ELSE "absent"]]]
           /\ lost' = {n \in lost : ~There(n)}
           /\ UNCHANGED <<server, session, socket, calls, list>>

(* .../:id/read, .../channel/:channelId/read and .../read-all mark rows,   *)
(* the last two also those the client has not seen; DELETE .../:id.        *)
Handle(c) == /\ c \in calls
             /\ calls' = calls \ {c}
             /\ rows' = [n \in Ids |->
                           IF n \notin c.ids \/ ~There(n) THEN rows[n]
                           ELSE IF c.op = "read" THEN "read" ELSE "deleted"]
             /\ UNCHANGED <<publishing, frames, session, socket, fetch, list, lost>>

(* The call fails: what the client did to its list stands. *)
CallFails(c) == /\ c \in calls
                /\ calls' = calls \ {c}
                /\ lost' = IF c.op = "delete" THEN lost \union c.ids ELSE lost
                /\ UNCHANGED <<server, session, socket, fetch, list>>
-----------------------------------------------------------------------------
(* The client. *)

(* isAuthenticated turns true: the list is fetched whatever the socket is. *)
Login == /\ ~session
         /\ session' = TRUE
         /\ \E f \in Fetches : /\ fetch[f].at = "idle"
                               /\ fetch' = [fetch EXCEPT ![f].at = "asked"]
         /\ UNCHANGED <<server, socket, calls, list, lost>>

(* It turns false: fetches under way are not cancelled. *)
Logout == /\ session
          /\ session' = FALSE
          /\ socket' = "down"
          /\ frames' = {}
          /\ list' = Nothing
          /\ lost' = {n \in Ids : rows[n] # "new"}
          /\ UNCHANGED <<rows, publishing, fetch, calls>>

(* onopen: subscribe is sent, polling stops. *)
Open == /\ session
        /\ socket = "down"
        /\ socket' = "open"
        /\ UNCHANGED <<server, session, fetch, calls, list, lost>>

(* The service handles it: what was published before went to nobody. *)
Subscribed == /\ socket = "open"
              /\ socket' = "subscribed"
              /\ UNCHANGED <<server, session, fetch, calls, list, lost>>

(* onclose: the frames under way are lost with the connection. *)
Close == /\ socket # "down"
         /\ socket' = "down"
         /\ frames' = {}
         /\ lost' = lost \union frames
         /\ UNCHANGED <<rows, publishing, session, fetch, calls, list>>

(* Slip: a notification that is shown takes the frame's (unread) form. *)
Bug_OnMessage(n) == /\ n \in frames
                    /\ frames' = frames \ {n}
                    /\ list' = [list EXCEPT ![n] = "unread"]
                    /\ UNCHANGED <<rows, publishing, session, socket, fetch, calls, lost>>

(* onmessage *)
OnMessage(n) == /\ n \in frames
                /\ frames' = frames \ {n}
                /\ list' = IF list[n] = "absent" THEN [list EXCEPT ![n] = "unread"] ELSE list
                /\ UNCHANGED <<rows, publishing, session, socket, fetch, calls, lost>>

(* poll(), every two seconds and whenever the window comes forward *)
Poll(f) == /\ session
           /\ socket = "down"
           /\ fetch[f].at = "idle"
           /\ fetch' = [fetch EXCEPT ![f].at = "asked"]
           /\ UNCHANGED <<server, session, socket, calls, list, lost>>

(* Slip: the answer replaces the list, but for what is read. *)
Bug_Merge(f) == /\ fetch[f].at = "answered"
                /\ list' = [n \in Ids |-> IF fetch[f].list[n] = "unread" /\ list[n] = "read"
                                         THEN "read" ELSE fetch[f].list[n]]
                /\ fetch' = [fetch EXCEPT ![f] = NoFetch]
                /\ UNCHANGED <<server, session, socket, calls, lost>>

(* mergeNotifications: what is read stays read, what is missing stays.     *)
Merge(f) == /\ fetch[f].at = "answered"
            /\ list' = [n \in Ids |->
                          IF fetch[f].list[n] = "absent" \/ list[n] = "read" THEN list[n]
                          ELSE fetch[f].list[n]]
            /\ fetch' = [fetch EXCEPT ![f] = NoFetch]
            /\ UNCHANGED <<server, session, socket, calls, lost>>

FetchFails(f) == /\ fetch[f].at # "idle"
                 /\ fetch' = [fetch EXCEPT ![f] = NoFetch]
                 /\ lost' = lost \union {n \in Ids : fetch[f].list[n] # "absent"}
                 /\ UNCHANGED <<server, session, socket, calls, list>>

(* markRead, markChannelRead, markAllRead: the list first, then the call. *)
MarkRead(ids) ==
    /\ Cardinality(calls) < MaxCalls
    /\ session
    /\ list' = [n \in Ids |-> IF n \in ids /\ list[n] # "absent" THEN "read" ELSE list[n]]
    /\ calls' = calls \union {[op |-> "read", ids |-> ids]}
    /\ UNCHANGED <<server, session, socket, fetch, lost>>

(* deleteNotification *)
Delete(n) == /\ Cardinality(calls) < MaxCalls
             /\ session
             /\ list[n] # "absent"
             /\ list' = [list EXCEPT ![n] = "absent"]
             /\ calls' = calls \union {[op |-> "delete", ids |-> {n}]}
             /\ UNCHANGED <<server, session, socket, fetch, lost>>

Next == \/ \E n \in Ids : Create(n) \/ Publish(n) \/ PublishFails(n) \/ OnMessage(n) \/ Delete(n)
        \/ \E f \in Fetches : Poll(f) \/ Read(f) \/ Merge(f) \/ FetchFails(f)
        \/ \E c \in calls : Handle(c) \/ CallFails(c)
        \/ \E ids \in SUBSET Ids \ {{}} : MarkRead(ids)
        \/ Login \/ Logout \/ Open \/ Subscribed \/ Close

Spec == Init /\ [][Next]_vars
-----------------------------------------------------------------------------
(* What a user has read does not turn unread before their eyes, however    *)
(* late a poll, a frame or an answer comes in (NotificationProvider:38).   *)
ReadStays == [][\A n \in Ids : list[n] = "read" => list'[n] # "unread"]_vars

(* A socket that is up carries all there is: a row that is not in the list *)
(* while polling is off and nothing is under way was published when the    *)
(* socket was not subscribed, or something of it failed.                   *)
NothingElseMissed ==
    session /\ publishing \union frames = {} /\ calls = {} /\ fetch = [f \in Fetches |-> NoFetch]
    => \A n \in Ids : There(n) /\ list[n] = "absent" => n \in lost
=============================================================================
