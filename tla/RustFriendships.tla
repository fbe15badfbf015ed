-------------------------- MODULE RustFriendships --------------------------
(***************************************************************************)
(* The friend routes of rust-backend/api/src/main.rs, over the same table  *)
(* and, until the cutover, beside the routes of Friendships.  Each query   *)
(* is an await of its own here too, so the steps are the same ones; what   *)
(* differs is a failed lookup, which is taken for "no row" (.ok()), and a  *)
(* failed write, which is not looked at: a handler that stops there.       *)
(***************************************************************************)
EXTENDS Friendships

(* Slip: so is a failed lookup of the request route taken for a request. *)
Bug_send_friend_request(r, u, v) ==
    /\ req[r] = Idle
    /\ u # v
    /\ req' = [req EXCEPT ![r] = [next |-> "agree", user |-> u, pair |-> {u, v}, id |-> 0]]
    /\ wanted' = [wanted EXCEPT ![{u, v}] = @ \union {u}]
    /\ UNCHANGED <<friendships, rows>>

(* Up to the SELECT of the pair's row, which may fail. *)
send_friend_request(r, u, v) ==
    \/ Ask(r, u, v)
    \/ /\ req[r] = Idle
       /\ u # v
       /\ req' = [req EXCEPT ![r] = [next |-> "insert", user |-> u, pair |-> {u, v}, id |-> 0]]
       /\ wanted' = [wanted EXCEPT ![{u, v}] = @ \union {u}]
       /\ UNCHANGED <<friendships, rows>>

send_update(r) == Agree(r)
send_insert(r) == Insert(r)

respond_friend_request(r, u, f, action) == Respond(r, u, f, action)
respond_accept(r) == RespondAccept(r)
respond_decline(r) == RespondDecline(r)

remove_friend(p) == Remove(p)

RustNext == \/ \E r \in Reqs, u, v \in Users : send_friend_request(r, u, v)
            \/ \E r \in Reqs, u \in Users, f \in friendships, a \in {"accept", "decline"} :
                  respond_friend_request(r, u, f, a)
            \/ \E r \in Reqs :
                  send_update(r) \/ send_insert(r) \/ respond_accept(r) \/ respond_decline(r)
            \/ \E p \in Pairs : remove_friend(p)

(* Both backends at once. *)
BothNext == Next \/ RustNext

BothSpec == Init /\ [][BothNext]_vars
=============================================================================
