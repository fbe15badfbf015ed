------------------------------ MODULE Messages ------------------------------
(***************************************************************************)
(* backend/src/routes/messages.ts: sending, editing and deleting the       *)
(* messages of one channel.  A handler writes the row in one query and     *)
(* publishes a frame in a later step; other handlers run in between.  What *)
(* clients show follows the frames (ChatPanel.tsx), in the order of their  *)
(* publication (Fanout): `shown' is a client that has heard them all.      *)
(* Who may post (membership, mutes, permissions) is left open: Post is a   *)
(* call that passed; a call that is refused, or that finds no message of   *)
(* its user, changes no state.  A channel given by its name is published   *)
(* under the name too, where nobody listens: tickets name ids.             *)
(***************************************************************************)
EXTENDS Integers

CONSTANTS Users,
          Texts,
          Reqs,      \* handlers that may be running at once
          MaxMsgs,   \* bound: messages ever inserted
          None       \* no row, no text

ASSUME MsgsAssumption == MaxMsgs \in Nat
ASSUME NoneAssumption == None \notin Texts

VARIABLES messages,    \* messages[m]: the content of row m, None without a row
          author,      \* author[m]: its user_id
          rows,        \* messages inserted so far: the ids
          req,         \* req[r]: what handler r does next, with what it knows
          shown,       \* shown[m]: the text a client that heard every frame shows
          overlapped,  \* history: messages changed while a frame of them was due
          unheard      \* history: messages a frame of which was never published, or
                       \* told of a deletion that failed (RustMessages)

vars == <<messages, author, rows, req, shown, overlapped, unheard>>

Ids == 1..MaxMsgs
Frames == {"message", "message_update", "message_delete"}

Idle == [next |-> "idle"]
Handler == [next : {"write", "publish"}, frame : Frames, id : 0..MaxMsgs,
            user : Users, text : Texts \union {None}]

(* A handler that has its row publishes, edits or deletes a row there was. *)
TypeOK == /\ messages \in [Ids -> Texts \union {None}]
          /\ author \in [Ids -> Users \union {None}]
          /\ rows \in 0..MaxMsgs
          /\ req \in [Reqs -> Handler \union {Idle}]
          /\ \A r \in Reqs : req[r] # Idle =>
                IF req[r].frame = "message" /\ req[r].next = "write"
                THEN req[r].id = 0 ELSE req[r].id \in 1..rows
          /\ shown \in [Ids -> Texts \union {None}]
          /\ overlapped \subseteq Ids
          /\ unheard \subseteq Ids

Init == /\ messages = [m \in Ids |-> None]
        /\ author = [m \in Ids |-> None]
        /\ rows = 0
        /\ req = [r \in Reqs |-> Idle]
        /\ shown = [m \in Ids |-> None]
        /\ overlapped = {}
        /\ unheard = {}

At(r, next, frame) == req[r] # Idle /\ req[r].next = next /\ req[r].frame = frame

(* Handler s has written, or will write, a text of m that it publishes. *)
Changing(s, m) == /\ req[s] # Idle
                  /\ req[s].id = m
                  /\ req[s].frame # "message_delete"
-----------------------------------------------------------------------------
(* POST /api/messages, up to the checks. *)
Post(r, u, t) ==
    /\ req[r] = Idle
    /\ req' = [req EXCEPT ![r] = [next |-> "write", frame |-> "message", id |-> 0,
                                  user |-> u, text |-> t]]
    /\ UNCHANGED <<messages, author, rows, shown, overlapped, unheard>>

(* Slip: the id RETURNING yields is not kept. *)
Bug_Insert(r) ==
    /\ At(r, "write", "message")
    /\ rows < MaxMsgs
    /\ rows' = rows + 1
    /\ messages' = [messages EXCEPT ![rows'] = req[r].text]
    /\ author' = [author EXCEPT ![rows'] = req[r].user]
    /\ req' = [req EXCEPT ![r].next = "publish"]
    /\ UNCHANGED <<shown, overlapped, unheard>>

(* Its INSERT. *)
Insert(r) ==
    /\ At(r, "write", "message")
    /\ rows < MaxMsgs
    /\ rows' = rows + 1
    /\ messages' = [messages EXCEPT ![rows'] = req[r].text]
    /\ author' = [author EXCEPT ![rows'] = req[r].user]
    /\ req' = [req EXCEPT ![r].next = "publish", ![r].id = rows']
    /\ UNCHANGED <<shown, overlapped, unheard>>

(* The SELECT of PATCH and DELETE /api/messages/:id, and their check. *)
Select(r, u, m, frame, t) ==
    /\ req[r] = Idle
    /\ messages[m] # None
    /\ author[m] = u
    /\ req' = [req EXCEPT ![r] = [next |-> "write", frame |-> frame, id |-> m,
                                  user |-> u, text |-> t]]
    /\ UNCHANGED <<messages, author, rows, shown, unheard>>

(* An edit overlaps a send or another edit of the message; a deletion      *)
(* overlaps a send.                                                        *)
Patch(r, u, m, t) ==
    /\ Select(r, u, m, "message_update", t)
    /\ overlapped' = IF \E s \in Reqs : Changing(s, m)
                     THEN overlapped \union {m} ELSE overlapped

Delete(r, u, m) ==
    /\ Select(r, u, m, "message_delete", None)
    /\ overlapped' = IF \E s \in Reqs : Changing(s, m) /\ req[s].frame = "message"
                     THEN overlapped \union {m} ELSE overlapped

(* Slip: the frame of an edit is forgotten. *)
Bug_Update(r) ==
    LET q == req[r] IN
    /\ At(r, "write", "message_update")
    /\ messages' = [messages EXCEPT ![q.id] = IF @ = None THEN None ELSE q.text]
    /\ req' = [req EXCEPT ![r] = Idle]
    /\ UNCHANGED <<author, rows, shown, overlapped, unheard>>

(* The UPDATE ... RETURNING.  Without a row, rows[0].created_at throws in   *)
(* the try of the publish: nothing is published, and the answer is success. *)
Update(r) ==
    LET q == req[r] IN
    /\ At(r, "write", "message_update")
    /\ \/ /\ messages[q.id] # None
          /\ messages' = [messages EXCEPT ![q.id] = q.text]
          /\ req' = [req EXCEPT ![r].next = "publish"]
       \/ /\ messages[q.id] = None
          /\ req' = [req EXCEPT ![r] = Idle]
          /\ UNCHANGED messages
    /\ UNCHANGED <<author, rows, shown, overlapped, unheard>>

(* The DELETE; it publishes whether it found the row or not. *)
Remove(r) ==
    /\ At(r, "write", "message_delete")
    /\ messages' = [messages EXCEPT ![req[r].id] = None]
    /\ req' = [req EXCEPT ![r].next = "publish"]
    /\ UNCHANGED <<author, rows, shown, overlapped, unheard>>
-----------------------------------------------------------------------------
(* Slip: an update of a message that is not in the list puts it there. *)
Bug_Heard(q) == IF q.frame = "message_delete" THEN None ELSE q.text

(* What a client shows of a message once it hears the frame of handler     *)
(* state q: a message it has is kept, an update only changes one it has.   *)
Heard(q) == CASE q.frame = "message_delete" -> None
              [] q.frame = "message" -> IF shown[q.id] = None THEN q.text ELSE shown[q.id]
              [] q.frame = "message_update" -> IF shown[q.id] = None THEN None ELSE q.text

(* redis.publish. *)
Publish(r) ==
    /\ req[r] # Idle /\ req[r].next = "publish"
    /\ shown' = [shown EXCEPT ![req[r].id] = Heard(req[r])]
    /\ req' = [req EXCEPT ![r] = Idle]
    /\ UNCHANGED <<messages, author, rows, overlapped, unheard>>

(* A query or redis.publish fails: the error is answered or swallowed, and *)
(* what was written stays.                                                 *)
Fail(r) ==
    /\ req[r] # Idle
    /\ req' = [req EXCEPT ![r] = Idle]
    /\ unheard' = IF req[r].next = "publish" THEN unheard \union {req[r].id} ELSE unheard
    /\ UNCHANGED <<messages, author, rows, shown, overlapped>>

(* The backend stops; the rows stay. *)
Restart ==
    /\ req' = [r \in Reqs |-> Idle]
    /\ unheard' = unheard \union {req[r].id : r \in {s \in Reqs :
                                     req[s] # Idle /\ req[s].next = "publish"}}
    /\ UNCHANGED <<messages, author, rows, shown, overlapped>>

Next == \/ \E r \in Reqs, u \in Users, t \in Texts : Post(r, u, t)
        \/ \E r \in Reqs, u \in Users, m \in Ids, t \in Texts : Patch(r, u, m, t)
        \/ \E r \in Reqs, u \in Users, m \in Ids : Delete(r, u, m)
        \/ \E r \in Reqs : \/ Insert(r) \/ Update(r) \/ Remove(r)
                           \/ Publish(r) \/ Fail(r)
        \/ Restart

Spec == Init /\ [][Next]_vars
-----------------------------------------------------------------------------
(* Once its handlers are done, clients show a message as the table has it,  *)
(* unless an edit or a deletion began while its send, or another edit of    *)
(* it, had yet to publish, or a frame was lost or told of a deletion that   *)
(* failed, as the Rust port's may.  A deletion during an edit               *)
(* does no harm, although neither handler knows of the other.               *)
ClientsConverge ==
    \A m \in Ids \ (overlapped \union unheard) :
        (\A r \in Reqs : req[r] = Idle \/ req[r].id # m) => shown[m] = messages[m]

(* A deleted message that clients have removed does not come back, even     *)
(* when frames are lost: no late update or second frame revives it.         *)
DeletedStaysAway ==
    [][\A m \in Ids \ overlapped :
          m <= rows /\ messages[m] = None /\ shown[m] = None => shown'[m] = None]_vars
=============================================================================
