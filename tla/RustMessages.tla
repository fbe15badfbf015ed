----------------------------- MODULE RustMessages -----------------------------
(***************************************************************************)
(* Messages with the Rust port beside it: rust-backend/api/src/main.rs on  *)
(* the same rows, its frames on the same Redis channel.  Its handlers take *)
(* the steps of the TypeScript ones, except where a query fails.           *)
(***************************************************************************)
EXTENDS Messages

create_message(r, u, t) == Post(r, u, t)
insert_message(r) == Insert(r)

(* edit_message: without a row, fetch_one fails and an error is answered.  *)
edit_message(r, u, m, t) == Patch(r, u, m, t)
update_message(r) == Update(r)

(* delete_message does not look whether its DELETE worked: where it fails, *)
(* the frame is published of a row that stays.                             *)
delete_message(r, u, m) == Delete(r, u, m)

DeleteFails(r) ==
    /\ At(r, "write", "message_delete")
    /\ req' = [req EXCEPT ![r].next = "publish"]
    /\ unheard' = unheard \union {req[r].id}
    /\ UNCHANGED <<messages, author, rows, shown, overlapped>>

delete_row(r) == Remove(r) \/ DeleteFails(r)

(* PUBLISH, whose errors are dropped; a handler whose client hangs up, or   *)
(* whose INSERT or UPDATE fails, ends there.                               *)
publish_realtime(r) == Publish(r) \/ Fail(r)

RustNext == \/ \E r \in Reqs, u \in Users, t \in Texts : create_message(r, u, t)
            \/ \E r \in Reqs, u \in Users, m \in Ids, t \in Texts : edit_message(r, u, m, t)
            \/ \E r \in Reqs, u \in Users, m \in Ids : delete_message(r, u, m)
            \/ \E r \in Reqs : \/ insert_message(r) \/ update_message(r) \/ delete_row(r)
                               \/ publish_realtime(r)

(* Both backends at once. *)
BothNext == Next \/ RustNext

BothSpec == Init /\ [][BothNext]_vars
=============================================================================
