----------------------------- MODULE Friendships -----------------------------
(***************************************************************************)
(* backend/src/routes/friends.ts: asking, answering and ending a           *)
(* friendship.  The table holds at most one row per unordered pair of      *)
(* users (UNIQUE and CHECK of lib/migrate.ts); every query is a            *)
(* transaction of its own, so a handler is a lookup and, later, a write    *)
(* that uses what the lookup saw.  What the handlers answer changes no     *)
(* state and is left out; a lookup that answers an error is no step, and   *)
(* a handler that fails is one that takes no further step.                 *)
(***************************************************************************)
EXTENDS Integers

CONSTANTS Users,
          Reqs,      \* handlers that may be running at once
          MaxRows    \* bound: rows inserted

ASSUME RowsAssumption == MaxRows \in Nat

VARIABLES friendships,  \* the rows; `by' is a history: who asked for or accepted this row
          rows,         \* rows inserted so far: the ids
          req,          \* req[r]: what handler r is about to write, with what it read
          wanted        \* history: wanted[p]: who ever asked or accepted within pair p

vars == <<friendships, rows, req, wanted>>

Pairs == {p \in SUBSET Users : \E a, b \in Users : a # b /\ p = {a, b}}

Row == [id : 1..MaxRows, pair : Pairs, status : {"pending", "accepted"},
        actor : Users, by : SUBSET Users]

(* What a handler carries over an await; `id' matters after Respond only. *)
Pending == [next : {"insert", "agree", "accept", "decline"},
            user : Users, pair : Pairs, id : 0..MaxRows]

Idle == [next |-> "idle"]

TypeOK == /\ friendships \in SUBSET Row
          /\ rows \in 0..MaxRows
          /\ req \in [Reqs -> Pending \union {Idle}]
          /\ wanted \in [Pairs -> SUBSET Users]

Init == /\ friendships = {}
        /\ rows = 0
        /\ req = [r \in Reqs |-> Idle]
        /\ wanted = [p \in Pairs |-> {}]

Of(p) == {f \in friendships : f.pair = p}
WithId(i) == {f \in friendships : f.id = i}

(* Slip: the status is spelt as the client shows it. *)
Bug_Accepted(R, u) == {[f EXCEPT !.status = "friends", !.actor = u, !.by = @ \union {u}] : f \in R}

(* SET status='accepted', action_user_id=u of the rows in R. *)
Accepted(R, u) == {[f EXCEPT !.status = "accepted", !.actor = u, !.by = @ \union {u}] : f \in R}
-----------------------------------------------------------------------------
(* Slip: a pending row is accepted whoever sent it. *)
Bug_Ask(r, u, v) ==
    LET p == {u, v} IN
    /\ req[r] = Idle
    /\ u # v
    /\ \A f \in Of(p) : f.status = "pending"
    /\ req' = [req EXCEPT ![r] = [next |-> IF Of(p) = {} THEN "insert" ELSE "agree",
                                  user |-> u, pair |-> p, id |-> 0]]
    /\ wanted' = [wanted EXCEPT ![p] = @ \union {u}]
    /\ UNCHANGED <<friendships, rows>>

(* POST /api/friends/request of u for v, up to the SELECT of the pair's row: *)
(* none leads to the INSERT, the other's pending request to the UPDATE.      *)
Ask(r, u, v) ==
    LET p == {u, v} IN
    /\ req[r] = Idle
    /\ u # v
    /\ \A f \in Of(p) : f.status = "pending" /\ f.actor # u
    /\ req' = [req EXCEPT ![r] = [next |-> IF Of(p) = {} THEN "insert" ELSE "agree",
                                  user |-> u, pair |-> p, id |-> 0]]
    /\ wanted' = [wanted EXCEPT ![p] = @ \union {u}]
    /\ UNCHANGED <<friendships, rows>>

(* The INSERT.  A row that came in between is a unique violation: an error. *)
Insert(r) ==
    LET q == req[r] IN
    /\ q.next = "insert"
    /\ IF Of(q.pair) = {}
       THEN /\ rows < MaxRows
            /\ rows' = rows + 1
            /\ friendships' = friendships \union
                 {[id |-> rows', pair |-> q.pair, status |-> "pending",
                   actor |-> q.user, by |-> {q.user}]}
       ELSE UNCHANGED <<rows, friendships>>
    /\ req' = [req EXCEPT ![r] = Idle]
    /\ UNCHANGED wanted

(* The UPDATE: it names the pair, not the row or the status that was read. *)
Agree(r) ==
    LET q == req[r] IN
    /\ q.next = "agree"
    /\ friendships' = (friendships \ Of(q.pair)) \union Accepted(Of(q.pair), q.user)
    /\ req' = [req EXCEPT ![r] = Idle]
    /\ UNCHANGED <<rows, wanted>>

(* POST /api/friends/requests/:id/:action of u, up to its checks on row f. *)
Respond(r, u, f, action) ==
    /\ req[r] = Idle
    /\ f \in friendships
    /\ f.status = "pending"
    /\ ~(f.actor = u /\ action = "accept")
    /\ u \in f.pair
    /\ req' = [req EXCEPT ![r] = [next |-> action, user |-> u, pair |-> f.pair, id |-> f.id]]
    /\ wanted' = IF action = "accept"
                 THEN [wanted EXCEPT ![f.pair] = @ \union {u}] ELSE wanted
    /\ UNCHANGED <<friendships, rows>>

(* Slip: the UPDATE names the pair, as that of the request route does. *)
Bug_RespondAccept(r) ==
    LET q == req[r] IN
    /\ q.next = "accept"
    /\ friendships' = (friendships \ Of(q.pair)) \union Accepted(Of(q.pair), q.user)
    /\ req' = [req EXCEPT ![r] = Idle]
    /\ UNCHANGED <<rows, wanted>>

(* The UPDATE of accept, by the row's id. *)
RespondAccept(r) ==
    LET q == req[r] IN
    /\ q.next = "accept"
    /\ friendships' = (friendships \ WithId(q.id)) \union Accepted(WithId(q.id), q.user)
    /\ req' = [req EXCEPT ![r] = Idle]
    /\ UNCHANGED <<rows, wanted>>

(* The DELETE of decline, by the row's id, whatever its status is by now. *)
RespondDecline(r) ==
    /\ req[r].next = "decline"
    /\ friendships' = friendships \ WithId(req[r].id)
    /\ req' = [req EXCEPT ![r] = Idle]
    /\ UNCHANGED <<rows, wanted>>

(* DELETE /api/friends/:friendId: one statement, by the pair. *)
Remove(p) ==
    /\ Of(p) # {}
    /\ friendships' = friendships \ Of(p)
    /\ UNCHANGED <<rows, req, wanted>>

Next == \/ \E r \in Reqs, u, v \in Users : Ask(r, u, v)
        \/ \E r \in Reqs, u \in Users, f \in friendships, a \in {"accept", "decline"} :
              Respond(r, u, f, a)
        \/ \E r \in Reqs : Insert(r) \/ Agree(r) \/ RespondAccept(r) \/ RespondDecline(r)
        \/ \E p \in Pairs : Remove(p)

Spec == Init /\ [][Next]_vars
-----------------------------------------------------------------------------
(* Two users are friends only if each of them has, at some time, asked the  *)
(* other or accepted a request, however the handlers of both interleave.    *)
EverWanted == \A f \in friendships : f.status = "accepted" => wanted[f.pair] = f.pair

(* The accept of the requests route ("NOT the action_user_id (sender)",     *)
(* friends.ts:140): every row its UPDATE finds or changes has the will of   *)
(* both users, although the check was made on a row read before.            *)
AcceptedByOther ==
    [][\A r \in Reqs : RespondAccept(r) =>
          \A f \in friendships' :
             f.id = req[r].id \/ f \notin friendships => f.by = f.pair]_vars

(* friends.ts:101 "Accept their request if they sent one": a friendship is  *)
(* a request of one user that the other accepted.  It does not hold: the    *)
(* UPDATE of the request route may find a row the sender inserted.          *)
AcceptsTheirRequest == \A f \in friendships : f.status = "accepted" => f.by = f.pair
=============================================================================
