--------------------------- MODULE MessagesProofs ---------------------------
(***************************************************************************)
(* What Messages promises of clients, proved for any users, texts, handlers*)
(* and number of messages.  The argument looks at one message m that no    *)
(* two handlers changed at once: at most one handler is about to write or  *)
(* publish a text of it, and what clients show differs from the table only *)
(* while the frame that will mend it is due.                               *)
(***************************************************************************)
EXTENDS RustMessages, TLAPS

Concerns(r, m) == req[r] # Idle /\ req[r].id = m
Sending(r, m) == Concerns(r, m) /\ req[r].frame = "message"
Due(r, m, frame) == /\ Concerns(r, m)
                    /\ req[r].next = "publish"
                    /\ req[r].frame = frame

(* Handlers that carry a text carry one of Texts. *)
TextsCarried == \A r \in Reqs :
    req[r] # Idle /\ req[r].frame # "message_delete" => req[r].text \in Texts

Fresh == \A m \in Ids : m > rows => messages[m] = None /\ shown[m] = None

(* One handler at most carries a text of m; while it is a send, it is the  *)
(* only one there is.                                                      *)
Alone(m) == \A r, s \in Reqs :
    Changing(r, m) /\ (Changing(s, m) \/ (Sending(r, m) /\ Concerns(s, m))) => r = s

SendInv(m) == \A r \in Reqs : Sending(r, m) =>
    /\ req[r].next = "publish"
    /\ messages[m] = req[r].text
    /\ shown[m] = None

WriteInv(m) == \A r \in Reqs :
    /\ Due(r, m, "message_update") => messages[m] \in {req[r].text, None}
    /\ Due(r, m, "message_delete") => messages[m] = None \/ m \in unheard

Mended(m) == m \notin unheard =>
    /\ messages[m] = None =>
          \/ shown[m] = None
          \/ \E r \in Reqs : Due(r, m, "message_delete")
    /\ messages[m] # None =>
          \/ \E r \in Reqs : Sending(r, m)
          \/ /\ shown[m] # None
             /\ shown[m] = messages[m] \/ \E r \in Reqs : Due(r, m, "message_update")

MsgInv(m) == Alone(m) /\ SendInv(m) /\ WriteInv(m) /\ Mended(m)

Base == TypeOK /\ TextsCarried /\ Fresh

IInv == Base /\ \A m \in Ids \ overlapped : MsgInv(m)
-----------------------------------------------------------------------------
(* A step that leaves m, and the handlers concerned with it, as they are.  *)
LEMMA Elsewhere ==
  ASSUME NEW m \in Ids, MsgInv(m),
         messages'[m] = messages[m], shown'[m] = shown[m],
         m \in unheard => m \in unheard',
         \A s \in Reqs : Concerns(s, m)' => req'[s] = req[s] /\ Concerns(s, m),
         \A s \in Reqs : Concerns(s, m) => req'[s] = req[s] /\ Concerns(s, m)'
  PROVE  MsgInv(m)'
<1>2. Alone(m)'
  BY DEF MsgInv, Alone, Changing, Sending, Concerns
<1>3. SendInv(m)'
  BY DEF MsgInv, SendInv, Sending, Concerns
<1>4. WriteInv(m)'
  BY DEF MsgInv, WriteInv, Due, Concerns
<1>5. Mended(m)'
  <2>1. \A r \in Reqs, f \in Frames : Due(r, m, f) => Due(r, m, f)'
    BY DEF Due, Concerns
  <2>2. \A r \in Reqs : Sending(r, m) => Sending(r, m)'
    BY DEF Sending, Concerns
  <2> QED
    BY <2>1, <2>2 DEF MsgInv, Mended, Frames
<1> QED
  BY <1>2, <1>3, <1>4, <1>5 DEF MsgInv

(* A handler that starts on m, with nothing written yet. *)
LEMMA Started ==
  ASSUME IInv, NEW r \in Reqs, NEW u \in Users, NEW m \in Ids,
         NEW f \in {"message_update", "message_delete"}, NEW t,
         Select(r, u, m, f, t), m \notin overlapped,
         ~ \E s \in Reqs : Changing(s, m) /\ (f = "message_update" \/ Sending(s, m))
  PROVE  MsgInv(m)'
<1> USE DEF Select
<1>0. /\ MsgInv(m)
      /\ req' = [req EXCEPT ![r] = [next |-> "write", frame |-> f, id |-> m,
                                    user |-> u, text |-> t]]
      /\ req[r] = Idle
      /\ req'[r] # Idle /\ req'[r].next = "write" /\ req'[r].frame = f /\ req'[r].id = m
      /\ \A s \in Reqs \ {r} : req'[s] = req[s]
  BY DEF IInv, Base, TypeOK, Idle
<1>2. Alone(m)'
  BY <1>0 DEF MsgInv, Alone, Changing, Sending, Concerns
<1>3. SendInv(m)'
  BY <1>0 DEF MsgInv, SendInv, Sending, Concerns
<1>4. WriteInv(m)'
  BY <1>0 DEF MsgInv, WriteInv, Due, Concerns
<1>5. Mended(m)'
  <2>1. \A s \in Reqs, g \in Frames : Due(s, m, g) => Due(s, m, g)'
    BY <1>0 DEF Due, Concerns
  <2>2. \A s \in Reqs : Sending(s, m) => Sending(s, m)'
    BY <1>0 DEF Sending, Concerns
  <2> QED
    BY <1>0, <2>1, <2>2 DEF MsgInv, Mended, Frames
<1> QED
  BY <1>2, <1>3, <1>4, <1>5 DEF MsgInv
(* A handler that starts on another message. *)
LEMMA SelectElsewhere ==
  ASSUME IInv, NEW r \in Reqs, NEW u, NEW k \in Ids, NEW f, NEW t, Select(r, u, k, f, t),
         NEW m \in Ids, m \notin overlapped, m # k
  PROVE  MsgInv(m)'
<1>1. /\ req[r] = Idle /\ req'[r].id = k
      /\ \A s \in Reqs \ {r} : req'[s] = req[s]
      /\ UNCHANGED <<messages, shown, unheard>>
  BY DEF Select, IInv, Base, TypeOK
<1>2. MsgInv(m)
  BY DEF IInv
<1> QED
  BY <1>1, <1>2, Elsewhere DEF Concerns
-----------------------------------------------------------------------------
LEMMA InitInv == Init => IInv
BY MsgsAssumption, NoneAssumption
   DEF Init, IInv, Base, TypeOK, TextsCarried, MsgInv, Fresh, Alone, SendInv, WriteInv, Mended,
       Changing, Sending, Due, Concerns, Ids, Idle

(* The port adds one step to those of the TypeScript backend.              *)
LEMMA BothSteps == BothNext <=> Next \/ \E r \in Reqs : DeleteFails(r)
BY DEF BothNext, RustNext, create_message, insert_message, edit_message, update_message,
       delete_message, delete_row, publish_realtime, Next

LEMMA TypeStep == IInv /\ [BothNext]_vars => Base'
<1> SUFFICES ASSUME IInv, [BothNext]_vars
             PROVE  Base'
  OBVIOUS
<1> USE MsgsAssumption DEF IInv, Base, Fresh, Ids
<1>1. ASSUME NEW r \in Reqs, NEW u \in Users, NEW t \in Texts, Post(r, u, t)
      PROVE  Base'
  BY <1>1 DEF Post, TypeOK, TextsCarried, Handler, Idle, Frames
<1>2. ASSUME NEW r \in Reqs, NEW u \in Users, NEW m \in Ids,
             NEW f \in {"message_update", "message_delete"}, NEW t \in Texts \union {None},
             t \in Texts \/ f = "message_delete",
             Select(r, u, m, f, t), overlapped' \in {overlapped, overlapped \union {m}}
      PROVE  Base'
  <2>1. m \in 1..rows
    BY <1>2 DEF Select, TypeOK
  <2> DEFINE q == [next |-> "write", frame |-> f, id |-> m, user |-> u, text |-> t]
  <2>2. q \in Handler /\ q # Idle
    BY <1>2, <2>1 DEF Handler, Idle, Frames, Ids
  <2>3. q.frame = f /\ q.id = m /\ q.text = t
    OBVIOUS
  <2>4. req' = [req EXCEPT ![r] = q]
    BY <1>2 DEF Select
  <2> HIDE DEF q
  <2> QED
    BY <1>2, <2>1, <2>2, <2>3, <2>4 DEF Select, TypeOK, TextsCarried, Ids
<1>3. ASSUME NEW r \in Reqs, Insert(r)
      PROVE  Base'
  <2>1. PICK q : q = req[r]
    OBVIOUS
  <2>2. q \in Handler /\ q.frame = "message" /\ q.text \in Texts
    BY <1>3, <2>1 DEF Insert, At, TypeOK, TextsCarried
  <2>3. req' = [req EXCEPT ![r] = [q EXCEPT !.next = "publish", !.id = rows']]
    BY <1>3, <2>1 DEF Insert
  <2>4. PICK p : p = [q EXCEPT !.next = "publish", !.id = rows']
    OBVIOUS
  <2>5. rows' = rows + 1 /\ rows' \in 1..MaxMsgs /\ rows \in Nat
    BY <1>3 DEF Insert, TypeOK
  <2>6. p \in Handler /\ p.frame = "message" /\ p.text = q.text /\ p.id = rows'
        /\ p.next = "publish"
    <3>1. \A i : p = [q EXCEPT !.next = "publish", !.id = i] /\ i \in 0..MaxMsgs => p \in Handler
      BY <2>2 DEF Handler
    <3>2. rows' \in 0..MaxMsgs
      BY <2>5
    <3> QED
      BY <2>2, <2>4, <3>1, <3>2 DEF Handler
  <2>7. messages' = [messages EXCEPT ![rows'] = q.text] /\ author' = [author EXCEPT ![rows'] = q.user]
        /\ UNCHANGED <<shown, overlapped, unheard>> /\ q.user \in Users
    BY <1>3, <2>1, <2>2 DEF Insert, Handler
  <2> QED
    BY <2>2, <2>3, <2>4, <2>5, <2>6, <2>7 DEF TypeOK, TextsCarried, Ids
<1>4. ASSUME NEW r \in Reqs, Update(r) \/ Remove(r)
      PROVE  Base'
  <2>1. PICK q : q = req[r]
    OBVIOUS
  <2>2. q \in Handler /\ q # Idle /\ q.frame # "message"
        /\ (q.frame # "message_delete" => q.text \in Texts) /\ q.id \in 1..rows
    BY <1>4, <2>1 DEF Update, Remove, At, TypeOK, TextsCarried
  <2>3. req' = [req EXCEPT ![r] = [q EXCEPT !.next = "publish"]] \/ req' = [req EXCEPT ![r] = Idle]
    BY <1>4, <2>1 DEF Update, Remove
  <2>4. PICK p : p = [q EXCEPT !.next = "publish"]
    OBVIOUS
  <2>5. p \in Handler /\ p.frame = q.frame /\ p.text = q.text /\ p.id = q.id /\ p # Idle
    BY <2>2, <2>4 DEF Handler, Idle
  <2>6. /\ messages' \in [Ids -> Texts \union {None}]
        /\ \A m \in Ids \ {q.id} : messages'[m] = messages[m]
    BY <1>4, <2>1, <2>2 DEF Update, Remove, At, TypeOK
  <2>7. UNCHANGED <<author, rows, shown, overlapped, unheard>>
    BY <1>4 DEF Update, Remove
  <2>8. rows' = rows /\ shown' = shown
    BY <2>7
  <2>9. TypeOK'
    BY <2>2, <2>3, <2>4, <2>5, <2>6, <2>7 DEF TypeOK
  <2>10. TextsCarried'
    BY <2>2, <2>3, <2>4, <2>5 DEF TypeOK, TextsCarried
  <2>11. Fresh'
    <3> SUFFICES ASSUME NEW m \in Ids, m > rows
                 PROVE  messages'[m] = None /\ shown'[m] = None
      BY <2>8
    <3>1. m # q.id
      BY <2>2 DEF TypeOK
    <3> QED
      BY <2>6, <2>8, <3>1
  <2> QED
    BY <2>9, <2>10, <2>11
<1>5. ASSUME NEW r \in Reqs, Publish(r)
      PROVE  Base'
  <2>1. PICK q : q = req[r]
    OBVIOUS
  <2>2. q \in Handler /\ (q.frame # "message_delete" => q.text \in Texts) /\ q.id \in 1..rows
    BY <1>5, <2>1 DEF Publish, TypeOK, TextsCarried
  <2>3. PICK t : t = Heard(q)
    OBVIOUS
  <2>4. t \in Texts \union {None}
    BY <2>2, <2>3 DEF Heard, TypeOK, Handler, Frames
  <2>5. shown' = [shown EXCEPT ![q.id] = t] /\ req' = [req EXCEPT ![r] = Idle]
        /\ UNCHANGED <<messages, author, rows, overlapped, unheard>>
    BY <1>5, <2>1, <2>3 DEF Publish
  <2> QED
    BY <2>2, <2>4, <2>5 DEF TypeOK, TextsCarried
<1>6. ASSUME NEW r \in Reqs, Fail(r)
      PROVE  Base'
  <2>1. req[r].next = "publish" => req[r].id \in Ids
    BY <1>6 DEF Fail, TypeOK, Ids
  <2> QED
    BY <1>6, <2>1 DEF Fail, TypeOK, TextsCarried
<1>7. ASSUME Restart
      PROVE  Base'
  <2>1. \A r \in Reqs : req[r] # Idle /\ req[r].next = "publish" => req[r].id \in Ids
    BY DEF TypeOK, Ids
  <2> QED
    BY <1>7, <2>1 DEF Restart, TypeOK, TextsCarried
<1>11. ASSUME NEW r \in Reqs, DeleteFails(r)
       PROVE  Base'
  <2>1. PICK q : q = req[r]
    OBVIOUS
  <2>2. q \in Handler /\ q.frame = "message_delete" /\ q.id \in 1..rows /\ q.id \in Ids
    BY <1>11, <2>1 DEF DeleteFails, At, TypeOK
  <2>3. PICK p : p = [q EXCEPT !.next = "publish"]
    OBVIOUS
  <2>4. p \in Handler /\ p.frame = "message_delete" /\ p.id = q.id
    BY <2>2, <2>3 DEF Handler
  <2>5. req' = [req EXCEPT ![r] = p] /\ unheard' = unheard \union {q.id}
        /\ UNCHANGED <<messages, author, rows, shown, overlapped>>
    BY <1>11, <2>1, <2>3 DEF DeleteFails
  <2> QED
    BY <2>2, <2>4, <2>5 DEF TypeOK, TextsCarried
<1>8. ASSUME UNCHANGED vars
      PROVE  Base'
  BY <1>8 DEF vars, TypeOK, TextsCarried
<1>9. ASSUME NEW r \in Reqs, NEW u \in Users, NEW m \in Ids, NEW t \in Texts, Patch(r, u, m, t)
      PROVE  Base'
  BY <1>2, <1>9 DEF Patch
<1>10. ASSUME NEW r \in Reqs, NEW u \in Users, NEW m \in Ids, Delete(r, u, m)
      PROVE  Base'
  BY <1>2, <1>10 DEF Delete
<1> QED
  BY <1>1, <1>3, <1>4, <1>5, <1>6, <1>7, <1>8, <1>9, <1>10, <1>11, BothSteps
     DEF Next
-----------------------------------------------------------------------------
(* Each step keeps what is known of a message no two handlers changed.     *)

LEMMA PostStep ==
  ASSUME IInv, NEW r \in Reqs, NEW u \in Users, NEW t \in Texts, Post(r, u, t),
         NEW m \in Ids, m \notin overlapped
  PROVE  MsgInv(m)'
<1>1. /\ req[r] = Idle /\ req'[r].id = 0
      /\ \A s \in Reqs \ {r} : req'[s] = req[s]
      /\ UNCHANGED <<messages, shown, unheard>>
  BY DEF Post, IInv, Base, TypeOK
<1>2. m # 0 /\ MsgInv(m)
  BY MsgsAssumption DEF Ids, IInv
<1> QED
  BY <1>1, <1>2, Elsewhere DEF Concerns

LEMMA InsertStep ==
  ASSUME IInv, NEW r \in Reqs, Insert(r), NEW m \in Ids, m \notin overlapped
  PROVE  MsgInv(m)'
<1>1. PICK n : n = rows + 1
  OBVIOUS
<1>2. PICK q : q = req[r]
  OBVIOUS
<1>3. q \in Handler /\ q.frame = "message" /\ q.text \in Texts /\ q.id = 0 /\ q # Idle
  BY <1>2 DEF Insert, At, IInv, Base, TypeOK, TextsCarried
<1>4. PICK p : p = [q EXCEPT !.next = "publish", !.id = n]
  OBVIOUS
<1>5. p.next = "publish" /\ p.id = n /\ p.frame = "message" /\ p.text = q.text /\ p # Idle
  BY <1>3, <1>4 DEF Handler, Idle
<1>a. n \in Ids /\ n > rows /\ rows \in Nat /\ rows' = n
  BY <1>1, MsgsAssumption DEF Insert, IInv, Base, TypeOK, Ids
<1>6. /\ req'[r] = p
      /\ \A s \in Reqs \ {r} : req'[s] = req[s]
      /\ messages' = [messages EXCEPT ![n] = q.text]
      /\ UNCHANGED <<shown, unheard>>
      /\ n \in Ids /\ n > rows /\ rows \in Nat
  BY <1>a, <1>2, <1>4 DEF Insert, IInv, Base, TypeOK
<1>7. MsgInv(m) /\ m # 0
  BY MsgsAssumption DEF Ids, IInv
<1>8. CASE m # n
  <2>1. messages'[m] = messages[m] /\ shown'[m] = shown[m]
    BY <1>6, <1>8 DEF IInv, Base, TypeOK
  <2>2. ~Concerns(r, m) /\ ~Concerns(r, m)'
    BY <1>2, <1>3, <1>5, <1>6, <1>7, <1>8 DEF Concerns
  <2>3. \A s \in Reqs \ {r} : Concerns(s, m)' <=> Concerns(s, m)
    BY <1>6 DEF Concerns
  <2> QED
    BY <1>6, <1>7, <2>1, <2>2, <2>3, Elsewhere
<1>9. CASE m = n
  <2>1. \A s \in Reqs : ~Concerns(s, n)
    BY <1>3, <1>2, <1>6, MsgsAssumption DEF Concerns, IInv, Base, TypeOK
  <2>2. \A s \in Reqs : Concerns(s, n)' => s = r
    BY <1>6, <2>1 DEF Concerns
  <2>3. messages'[n] = q.text /\ shown'[n] = None /\ q.text # None
    BY <1>3, <1>6, NoneAssumption DEF IInv, Base, TypeOK, Fresh
  <2>4. Sending(r, n)'
    BY <1>5, <1>6 DEF Sending, Concerns
  <2>5. Alone(n)'
    BY <2>2 DEF Alone, Changing, Sending, Concerns
  <2>6. SendInv(n)'
    BY <1>5, <1>6, <2>2, <2>3 DEF SendInv, Sending
  <2>7. WriteInv(n)'
    BY <1>5, <1>6, <2>2 DEF WriteInv, Due
  <2>8. Mended(n)'
    BY <2>3, <2>4 DEF Mended
  <2> QED
    BY <1>9, <2>5, <2>6, <2>7, <2>8 DEF MsgInv
<1> QED
  BY <1>8, <1>9

LEMMA UpdateStep ==
  ASSUME IInv, NEW r \in Reqs, Update(r), NEW m \in Ids, m \notin overlapped
  PROVE  MsgInv(m)'
<1>1. PICK q : q = req[r]
  OBVIOUS
<1>2. q \in Handler /\ q.frame = "message_update" /\ q.text \in Texts /\ q # Idle
      /\ q.next = "write" /\ q.id \in 1..rows
  BY <1>1 DEF Update, At, IInv, Base, TypeOK, TextsCarried
<1>a. q.id \in Ids
  BY <1>2, MsgsAssumption DEF IInv, Base, TypeOK, Ids
<1>3. MsgInv(m)
  BY DEF IInv
<1>4. /\ \A s \in Reqs \ {r} : req'[s] = req[s]
      /\ UNCHANGED <<shown, unheard>>
      /\ \A k \in Ids \ {q.id} : messages'[k] = messages[k]
      /\ req'[r] = Idle \/ req'[r].id = q.id
  BY <1>1, <1>2, <1>a DEF Update, IInv, Base, TypeOK, Handler
<1>5. CASE m # q.id
  <2>1. ~Concerns(r, m) /\ ~Concerns(r, m)'
    BY <1>1, <1>4, <1>5 DEF Concerns
  <2>2. \A s \in Reqs \ {r} : Concerns(s, m)' <=> Concerns(s, m)
    BY <1>4 DEF Concerns
  <2> QED
    BY <1>3, <1>4, <1>5, <2>1, <2>2, Elsewhere
<1>6. CASE m = q.id
  <2>1. Changing(r, m) /\ ~Sending(r, m)
    BY <1>1, <1>2, <1>6 DEF Changing, Sending
  <2>a. \A s \in Reqs \ {r} : ~Changing(s, m)
    BY <1>3, <2>1 DEF MsgInv, Alone
  <2>2. \A s \in Reqs \ {r} : ~Changing(s, m) /\ ~Changing(s, m)'
    BY <1>4, <2>a DEF Changing
  <2>3. \A s \in Reqs : ~Sending(s, m)
    BY <2>1, <2>2 DEF Sending, Changing, Concerns
  <2>4. \A s \in Reqs \ {r}, f \in Frames : Due(s, m, f)' <=> Due(s, m, f)
    BY <1>4 DEF Due, Concerns
  <2>5. CASE messages[m] = None
    <3>1. req'[r] = Idle /\ messages' = messages
      BY <1>1, <1>6, <2>5 DEF Update, IInv, Base, TypeOK
    <3>2. \A s \in Reqs : ~Changing(s, m)' /\ ~Sending(s, m)' /\ ~Due(s, m, "message_update")'
      BY <2>2, <3>1 DEF Changing, Sending, Due, Concerns
    <3>3. Mended(m)'
      BY <1>1, <1>2, <1>3, <1>4, <2>4, <2>5, <3>1 DEF MsgInv, Mended, Frames, Due
    <3>4. WriteInv(m)'
      BY <2>5, <3>1, <3>2 DEF WriteInv
    <3> QED
      BY <3>2, <3>3, <3>4 DEF MsgInv, Alone, SendInv
  <2>6. CASE messages[m] # None
    <3>1. PICK p : p = [q EXCEPT !.next = "publish"]
      OBVIOUS
    <3>2. p.next = "publish" /\ p.id = m /\ p.frame = "message_update" /\ p.text = q.text
      BY <1>2, <1>6, <3>1 DEF Handler
    <3>3. req'[r] = p /\ p # Idle /\ messages'[m] = q.text /\ q.text # None
      BY <1>1, <1>2, <1>6, <2>6, <3>1, NoneAssumption DEF Update, IInv, Base, TypeOK, Idle
    <3>4. Due(r, m, "message_update")' /\ ~Sending(r, m)'
      BY <3>2, <3>3 DEF Due, Concerns, Sending
    <3>5. \A s \in Reqs : ~Sending(s, m)'
      BY <2>2, <3>4 DEF Sending, Changing, Concerns
    <3>6. Alone(m)'
      BY <2>2, <3>5 DEF Alone
    <3>7. SendInv(m)'
      BY <3>5 DEF SendInv
    <3>a. \A s \in Reqs \ {r} : /\ ~Due(s, m, "message_update")'
                                /\ Due(s, m, "message_delete")' => m \in unheard'
      <4>1. \A s \in Reqs \ {r} : Due(s, m, "message_delete") => m \in unheard
        BY <1>3, <2>6 DEF MsgInv, WriteInv
      <4> QED
        BY <1>4, <2>2, <2>4, <4>1 DEF Due, Concerns, Changing, Frames
    <3>8. WriteInv(m)'
      BY <3>2, <3>3, <3>a DEF WriteInv, Due
    <3>9. shown'[m] # None \/ m \in unheard'
      BY <1>3, <1>4, <2>3, <2>6 DEF MsgInv, Mended
    <3>10. Mended(m)'
      BY <3>3, <3>4, <3>9 DEF Mended
    <3> QED
      BY <3>6, <3>7, <3>8, <3>10 DEF MsgInv
  <2> QED
    BY <2>5, <2>6
<1> QED
  BY <1>5, <1>6

LEMMA RemoveStep ==
  ASSUME IInv, NEW r \in Reqs, Remove(r), NEW m \in Ids, m \notin overlapped
  PROVE  MsgInv(m)'
<1>1. PICK q : q = req[r]
  OBVIOUS
<1>2. q \in Handler /\ q.frame = "message_delete" /\ q # Idle /\ q.next = "write"
  BY <1>1 DEF Remove, At, IInv, Base, TypeOK
<1>3. MsgInv(m)
  BY DEF IInv
<1>4. PICK p : p = [q EXCEPT !.next = "publish"]
  OBVIOUS
<1>5. p.next = "publish" /\ p.id = q.id /\ p.frame = "message_delete" /\ p # Idle
  BY <1>2, <1>4 DEF Handler, Idle
<1>6. /\ req'[r] = p
      /\ \A s \in Reqs \ {r} : req'[s] = req[s]
      /\ UNCHANGED <<shown, unheard>>
      /\ messages' = [messages EXCEPT ![q.id] = None]
  BY <1>1, <1>4 DEF Remove, IInv, Base, TypeOK
<1>7. CASE m # q.id
  <2>1. ~Concerns(r, m) /\ ~Concerns(r, m)'
    BY <1>1, <1>5, <1>6, <1>7 DEF Concerns
  <2>2. \A s \in Reqs \ {r} : Concerns(s, m)' <=> Concerns(s, m)
    BY <1>6 DEF Concerns
  <2>3. messages'[m] = messages[m]
    BY <1>6, <1>7 DEF IInv, Base, TypeOK
  <2> QED
    BY <1>3, <1>6, <2>1, <2>2, <2>3, Elsewhere
<1>8. CASE m = q.id
  <2>1. \A s \in Reqs : (Changing(s, m)' <=> Changing(s, m)) /\ (Sending(s, m)' <=> Sending(s, m))
    BY <1>1, <1>2, <1>5, <1>6, <1>8 DEF Changing, Sending, Concerns
  <2>2. \A s \in Reqs : ~Sending(s, m)
    <3> SUFFICES ASSUME NEW s \in Reqs, Sending(s, m)
                 PROVE  FALSE
      OBVIOUS
    <3>1. Changing(s, m) /\ Concerns(r, m)
      BY <1>1, <1>2, <1>8 DEF Changing, Sending, Concerns
    <3>2. s = r
      BY <1>3, <3>1 DEF MsgInv, Alone
    <3> QED
      BY <1>1, <1>2, <3>2 DEF Sending
  <2>3. messages'[m] = None
    BY <1>6, <1>8 DEF IInv, Base, TypeOK
  <2>4. Due(r, m, "message_delete")'
    BY <1>5, <1>6, <1>8 DEF Due, Concerns
  <2>5. Alone(m)'
    BY <1>3, <2>1, <2>2 DEF MsgInv, Alone
  <2>6. SendInv(m)' /\ WriteInv(m)'
    BY <2>1, <2>2, <2>3 DEF SendInv, WriteInv
  <2>7. Mended(m)'
    BY <2>3, <2>4 DEF Mended
  <2> QED
    BY <2>5, <2>6, <2>7 DEF MsgInv
<1> QED
  BY <1>7, <1>8

LEMMA DeleteFailsStep ==
  ASSUME IInv, NEW r \in Reqs, DeleteFails(r), NEW m \in Ids, m \notin overlapped
  PROVE  MsgInv(m)'
<1>1. PICK q : q = req[r]
  OBVIOUS
<1>2. q \in Handler /\ q.frame = "message_delete" /\ q # Idle /\ q.next = "write"
  BY <1>1 DEF DeleteFails, At, IInv, Base, TypeOK
<1>3. MsgInv(m)
  BY DEF IInv
<1>4. PICK p : p = [q EXCEPT !.next = "publish"]
  OBVIOUS
<1>5. p.next = "publish" /\ p.id = q.id /\ p.frame = "message_delete" /\ p # Idle
  BY <1>2, <1>4 DEF Handler, Idle
<1>6. /\ req'[r] = p
      /\ \A s \in Reqs \ {r} : req'[s] = req[s]
      /\ UNCHANGED <<messages, shown>>
      /\ unheard' = unheard \union {q.id}
  BY <1>1, <1>4 DEF DeleteFails, IInv, Base, TypeOK
<1>7. CASE m # q.id
  <2>1. ~Concerns(r, m) /\ ~Concerns(r, m)'
    BY <1>1, <1>5, <1>6, <1>7 DEF Concerns
  <2>2. \A s \in Reqs \ {r} : Concerns(s, m)' <=> Concerns(s, m)
    BY <1>6 DEF Concerns
  <2> QED
    BY <1>3, <1>6, <2>1, <2>2, Elsewhere
<1>8. CASE m = q.id
  <2>1. \A s \in Reqs : /\ Changing(s, m)' <=> Changing(s, m)
                        /\ Sending(s, m)' <=> Sending(s, m)
                        /\ Concerns(s, m)' <=> Concerns(s, m)
    BY <1>1, <1>2, <1>5, <1>6, <1>8 DEF Changing, Sending, Concerns
  <2>2. Alone(m)'
    BY <1>3, <2>1 DEF MsgInv, Alone
  <2>3. SendInv(m)'
    <3>1. \A s \in Reqs : Sending(s, m) => s # r
      BY <1>1, <1>2 DEF Sending
    <3> QED
      BY <1>3, <1>6, <2>1, <3>1 DEF MsgInv, SendInv
  <2>4. m \in unheard'
    BY <1>6, <1>8
  <2>5. WriteInv(m)'
    <3>1. \A s \in Reqs : Due(s, m, "message_update")' =>
             Due(s, m, "message_update") /\ req'[s] = req[s]
      BY <1>5, <1>6 DEF Due, Concerns
    <3> QED
      BY <1>3, <1>6, <2>4, <3>1 DEF MsgInv, WriteInv
  <2>6. Mended(m)'
    BY <2>4 DEF Mended
  <2> QED
    BY <2>2, <2>3, <2>5, <2>6 DEF MsgInv
<1> QED
  BY <1>7, <1>8

LEMMA PublishStep ==
  ASSUME IInv, NEW r \in Reqs, Publish(r), NEW m \in Ids, m \notin overlapped
  PROVE  MsgInv(m)'
<1>1. PICK q : q = req[r]
  OBVIOUS
<1>2. q \in Handler /\ q # Idle /\ q.next = "publish" /\ q.frame \in Frames
      /\ (q.frame # "message_delete" => q.text \in Texts)
  BY <1>1 DEF Publish, IInv, Base, TypeOK, TextsCarried, Handler
<1>3. MsgInv(m)
  BY DEF IInv
<1>4. /\ req'[r] = Idle
      /\ \A s \in Reqs \ {r} : req'[s] = req[s]
      /\ shown' = [shown EXCEPT ![q.id] = Heard(q)]
      /\ UNCHANGED <<messages, unheard>>
  BY <1>1 DEF Publish, IInv, Base, TypeOK
<1>5. ~Concerns(r, m)'
  BY <1>4 DEF Concerns
<1>6. \A s \in Reqs \ {r} : Concerns(s, m)' <=> Concerns(s, m)
  BY <1>4 DEF Concerns
<1>7. CASE m # q.id
  <2>1. ~Concerns(r, m)
    BY <1>1, <1>7 DEF Concerns
  <2>2. shown'[m] = shown[m]
    BY <1>4, <1>7 DEF IInv, Base, TypeOK
  <2> QED
    BY <1>3, <1>4, <1>5, <1>6, <2>1, <2>2, Elsewhere
<1>8. CASE m = q.id
  <2>1. shown'[m] = Heard(q)
    BY <1>4, <1>8 DEF IInv, Base, TypeOK
  <2>2. \A s \in Reqs : /\ Changing(s, m)' => Changing(s, m) /\ s # r
                        /\ Sending(s, m)' => Sending(s, m) /\ s # r
                        /\ Concerns(s, m)' => Concerns(s, m) /\ s # r
                        /\ \A f \in Frames : Due(s, m, f)' <=> Due(s, m, f) /\ s # r
    BY <1>4 DEF Changing, Sending, Concerns, Due
  <2>3. Alone(m)'
    BY <1>3, <2>2 DEF MsgInv, Alone
  <2>4. \A s \in Reqs : ~Sending(s, m)'
    <3> SUFFICES ASSUME NEW s \in Reqs, Sending(s, m), s # r
                 PROVE  FALSE
      BY <2>2
    <3>1. Changing(s, m) /\ Concerns(r, m)
      BY <1>1, <1>2, <1>8 DEF Changing, Sending, Concerns
    <3> QED
      BY <1>3, <3>1 DEF MsgInv, Alone
  <2>5. SendInv(m)'
    BY <2>4 DEF SendInv
  <2>6. WriteInv(m)'
    BY <1>3, <1>4, <2>2 DEF MsgInv, WriteInv, Frames
  <2>7. ASSUME m \notin unheard
        PROVE  Mended(m)'
    <3>1. CASE q.frame = "message"
      <4>1. Sending(r, m)
        BY <1>1, <1>2, <1>8, <3>1 DEF Sending, Concerns
      <4>2. shown'[m] = messages[m] /\ messages[m] # None
        BY <1>1, <1>2, <1>3, <1>8, <2>1, <3>1, <4>1, NoneAssumption DEF MsgInv, SendInv, Heard
      <4> QED
        BY <1>4, <4>2 DEF Mended
    <3>2. CASE q.frame = "message_delete"
      <4>1. shown'[m] = None
        BY <2>1, <3>2 DEF Heard
      <4>2. messages[m] = None
        BY <1>1, <1>2, <1>3, <1>8, <2>7, <3>2 DEF MsgInv, WriteInv, Due, Concerns
      <4> QED
        BY <1>4, <4>1, <4>2 DEF Mended
    <3>3. CASE q.frame = "message_update"
      <4>1. Due(r, m, "message_update") /\ Changing(r, m) /\ ~Sending(r, m)
        BY <1>1, <1>2, <1>8, <3>3 DEF Due, Changing, Sending, Concerns
      <4>2. \A s \in Reqs : ~Sending(s, m)
        BY <2>4, <1>4, <4>1 DEF Sending, Concerns
      <4>3. CASE messages[m] = None
        BY <1>3, <1>4, <1>8, <2>1, <2>2, <2>7, <3>3, <4>1, <4>3 DEF MsgInv, Mended, Heard, Due, Frames
      <4>4. CASE messages[m] # None
        <5>1. messages[m] = q.text /\ shown[m] # None
          BY <1>1, <1>3, <2>7, <4>1, <4>2, <4>4 DEF MsgInv, WriteInv, Mended
        <5>2. shown'[m] = messages'[m]
          BY <1>4, <1>8, <2>1, <3>3, <5>1 DEF Heard
        <5> QED
          BY <1>4, <4>4, <5>2 DEF Mended
      <4> QED
        BY <4>3, <4>4
    <3> QED
      BY <1>2, <3>1, <3>2, <3>3 DEF Frames
  <2>8. Mended(m)'
    BY <1>4, <2>7 DEF Mended
  <2> QED
    BY <2>3, <2>5, <2>6, <2>8 DEF MsgInv
<1> QED
  BY <1>7, <1>8

LEMMA FailStep ==
  ASSUME IInv, NEW r \in Reqs, Fail(r), NEW m \in Ids, m \notin overlapped
  PROVE  MsgInv(m)'
<1>1. /\ req'[r] = Idle
      /\ \A s \in Reqs \ {r} : req'[s] = req[s]
      /\ UNCHANGED <<messages, shown>>
      /\ m \in unheard => m \in unheard'
  BY DEF Fail, IInv, Base, TypeOK
<1>2. MsgInv(m)
  BY DEF IInv
<1>3. \A s \in Reqs : /\ Changing(s, m)' => Changing(s, m)
                      /\ Sending(s, m)' => Sending(s, m)
                      /\ Concerns(s, m)' => Concerns(s, m) /\ req'[s] = req[s]
                      /\ \A f \in Frames : /\ Due(s, m, f)' => Due(s, m, f)
                                           /\ Due(s, m, f) /\ s # r => Due(s, m, f)'
  BY <1>1 DEF Changing, Sending, Concerns, Due
<1>4. Alone(m)'
  BY <1>2, <1>3 DEF MsgInv, Alone
<1>5. SendInv(m)'
  <2> SUFFICES ASSUME NEW s \in Reqs, Sending(s, m)'
               PROVE  req'[s].next = "publish" /\ messages[m] = req'[s].text /\ shown[m] = None
    BY <1>1 DEF SendInv
  <2>1. Sending(s, m) /\ req'[s] = req[s]
    BY <1>3 DEF Sending
  <2> QED
    BY <1>2, <2>1 DEF MsgInv, SendInv
<1>6. WriteInv(m)'
  <2>1. \A s \in Reqs, f \in Frames : Due(s, m, f)' => Due(s, m, f) /\ req'[s] = req[s]
    BY <1>3 DEF Due
  <2> QED
    BY <1>1, <1>2, <2>1 DEF MsgInv, WriteInv, Frames
<1>7. ASSUME m \notin unheard'
      PROVE  Mended(m)'
  <2>1. \A f \in Frames : ~Due(r, m, f)
    BY <1>7 DEF Fail, Due, Concerns
  <2>2. ~Sending(r, m)
    BY <1>2, <2>1 DEF MsgInv, SendInv, Sending, Due, Frames
  <2>3. \A s \in Reqs : Sending(s, m) => Sending(s, m)'
    BY <1>1, <2>2 DEF Sending, Concerns
  <2>4. \A s \in Reqs, f \in Frames : Due(s, m, f) => Due(s, m, f)'
    BY <1>3, <2>1
  <2> QED
    BY <1>1, <1>2, <1>7, <2>3, <2>4 DEF MsgInv, Mended, Frames
<1>8. Mended(m)'
  BY <1>7 DEF Mended
<1> QED
  BY <1>4, <1>5, <1>6, <1>8 DEF MsgInv

LEMMA RestartStep ==
  ASSUME IInv, Restart, NEW m \in Ids, m \notin overlapped
  PROVE  MsgInv(m)'
<1>1. /\ \A s \in Reqs : req'[s] = Idle
      /\ UNCHANGED <<messages, shown>>
      /\ m \in unheard => m \in unheard'
  BY DEF Restart
<1>2. MsgInv(m)
  BY DEF IInv
<1>3. \A s \in Reqs : /\ ~Changing(s, m)' /\ ~Sending(s, m)'
                      /\ \A f \in Frames : ~Due(s, m, f)'
  BY <1>1 DEF Changing, Sending, Concerns, Due
<1>4. ASSUME m \notin unheard'
      PROVE  Mended(m)'
  <2>1. \A s \in Reqs, f \in Frames : ~Due(s, m, f)
    BY <1>4 DEF Restart, Due, Concerns
  <2>2. \A s \in Reqs : ~Sending(s, m)
    BY <1>2, <2>1 DEF MsgInv, SendInv, Sending, Due, Frames
  <2> QED
    BY <1>1, <1>2, <1>4, <2>1, <2>2 DEF MsgInv, Mended, Frames
<1>5. Mended(m)'
  BY <1>4 DEF Mended
<1>6. WriteInv(m)'
  BY <1>3 DEF WriteInv, Frames
<1> QED
  BY <1>3, <1>5, <1>6 DEF MsgInv, Alone, SendInv

LEMMA PatchStep ==
  ASSUME IInv, NEW r \in Reqs, NEW u \in Users, NEW k \in Ids, NEW t \in Texts,
         Patch(r, u, k, t), NEW m \in Ids, m \notin overlapped'
  PROVE  MsgInv(m)'
<1>1. m \notin overlapped
  BY DEF Patch
<1>2. CASE m = k
  <2>1. ~ \E s \in Reqs : Changing(s, m)
    BY <1>2 DEF Patch
  <2> QED
    BY <1>1, <1>2, <2>1, Started DEF Patch
<1>3. CASE m # k
  BY <1>1, <1>3, SelectElsewhere DEF Patch
<1> QED
  BY <1>2, <1>3

LEMMA DeleteStep ==
  ASSUME IInv, NEW r \in Reqs, NEW u \in Users, NEW k \in Ids,
         Delete(r, u, k), NEW m \in Ids, m \notin overlapped'
  PROVE  MsgInv(m)'
<1>1. m \notin overlapped
  BY DEF Delete
<1>2. CASE m = k
  <2>1. ~ \E s \in Reqs : Changing(s, m) /\ Sending(s, m)
    BY <1>2 DEF Delete, Sending
  <2> QED
    BY <1>1, <1>2, <2>1, Started DEF Delete
<1>3. CASE m # k
  BY <1>1, <1>3, SelectElsewhere DEF Delete
<1> QED
  BY <1>2, <1>3
-----------------------------------------------------------------------------
LEMMA NextInv == IInv /\ [BothNext]_vars => IInv'
<1> SUFFICES ASSUME IInv, [BothNext]_vars
             PROVE  IInv'
  OBVIOUS
<1>1. Base'
  BY TypeStep
<1>2. ASSUME NEW m \in Ids, m \notin overlapped'
      PROVE  MsgInv(m)'
  <2>1. overlapped \subseteq overlapped'
    BY BothSteps DEF Next, Post, Insert, Patch, Delete, Select, Update, Remove, Publish, Fail,
          Restart, DeleteFails, vars
  <2>2. m \notin overlapped
    BY <1>2, <2>1
  <2>3. CASE UNCHANGED vars
    <3>1. MsgInv(m)
      BY <2>2 DEF IInv
    <3> QED
      BY <2>3, <3>1, Elsewhere DEF vars, Concerns
  <2>4. CASE Next
    BY <1>2, <2>2, <2>4, PostStep, InsertStep, UpdateStep, RemoveStep, PublishStep, FailStep,
       RestartStep, PatchStep, DeleteStep DEF Next
  <2>5. CASE \E r \in Reqs : DeleteFails(r)
    BY <2>2, <2>5, DeleteFailsStep
  <2> QED
    BY <2>3, <2>4, <2>5, BothSteps
<1> QED
  BY <1>1, <1>2 DEF IInv

LEMMA Invariance == BothSpec => []IInv
BY InitInv, NextInv, PTL DEF BothSpec

(* The state of the handlers, the rows and what clients show keep their     *)
(* types; a handler past its first query has a row there was.               *)
THEOREM TypeCorrect == BothSpec => []TypeOK
<1>1. IInv => TypeOK
  BY DEF IInv, Base
<1> QED
  BY <1>1, Invariance, PTL

(* Clients converge to the table on every message that no two handlers     *)
(* changed at once and no frame of which was lost.                         *)
THEOREM Convergence == BothSpec => []ClientsConverge
<1>1. IInv => ClientsConverge
  <2> SUFFICES ASSUME IInv, NEW m \in Ids \ (overlapped \union unheard),
                      \A r \in Reqs : req[r] = Idle \/ req[r].id # m
               PROVE  shown[m] = messages[m]
    BY DEF ClientsConverge
  <2>1. \A r \in Reqs : ~Concerns(r, m)
    BY DEF Concerns
  <2> QED
    BY <2>1 DEF IInv, MsgInv, Mended, Sending, Due
<1> QED
  BY <1>1, Invariance, PTL

(* No frame brings a deleted message back.                                 *)
THEOREM DeletionLasts == BothSpec => DeletedStaysAway
<1> DEFINE A == \A m \in Ids \ overlapped :
                  m <= rows /\ messages[m] = None /\ shown[m] = None => shown'[m] = None
<1>1. IInv /\ [BothNext]_vars => A
  <2> SUFFICES ASSUME IInv, [BothNext]_vars, NEW m \in Ids \ overlapped, m <= rows,
                      messages[m] = None, shown[m] = None, shown'[m] # None
               PROVE  FALSE
    OBVIOUS
  <2>1. PICK r \in Reqs : Publish(r)
    BY BothSteps DEF Next, Post, Insert, Patch, Delete, Select, Update, Remove, Fail, Restart,
          DeleteFails, vars
  <2>2. PICK q : q = req[r]
    OBVIOUS
  <2>3. shown' = [shown EXCEPT ![q.id] = Heard(q)] /\ q # Idle /\ q.frame \in Frames
    BY <2>1, <2>2 DEF Publish, IInv, Base, TypeOK, Handler
  <2>4. q.id = m
    BY <2>3 DEF IInv, Base, TypeOK
  <2>5. shown'[m] = Heard(q)
    BY <2>3, <2>4 DEF IInv, Base, TypeOK
  <2>6. q.frame = "message"
    BY <2>3, <2>4, <2>5 DEF Heard, Frames
  <2>7. Sending(r, m)
    BY <2>2, <2>3, <2>4, <2>6 DEF Sending, Concerns
  <2>8. q.text \in Texts /\ messages[m] = q.text
    BY <2>2, <2>3, <2>6, <2>7 DEF IInv, Base, TextsCarried, MsgInv, SendInv
  <2> QED
    BY <2>8, NoneAssumption
<1>2. IInv /\ [BothNext]_vars => [A]_vars
  BY <1>1
<1> QED
  BY <1>2, Invariance, PTL DEF BothSpec, DeletedStaysAway
=============================================================================
