--------------------------- MODULE RustNotifications ---------------------------
(***************************************************************************)
(* Notifications with the Rust port beside it: the notifications part of   *)
(* rust-backend/api/src/main.rs, on the same rows and the same channels.   *)
(* A query that fails is answered like one that did its work.              *)
(***************************************************************************)
EXTENDS Notifications

(* The INSERT, and publish_realtime, which says nothing of its errors. *)
create_notification(n) == Create(n) \/ Publish(n) \/ PublishFails(n)

(* get_notifications: where the query fails, an empty list is answered. *)
get_notifications(f) ==
    \/ Read(f)
    \/ /\ fetch[f].at = "asked"
       /\ fetch' = [fetch EXCEPT ![f] = [at |-> "answered", list |-> Nothing]]
       /\ UNCHANGED <<server, session, socket, calls, list, lost>>

(* mark_notification_read, mark_channel_notifications_read and             *)
(* mark_all_notifications_read succeed, or do nothing and say they did.    *)
mark_read(c) == c.op = "read" /\ (Handle(c) \/ CallFails(c))

delete_notification(c) == c.op = "delete" /\ (Handle(c) \/ CallFails(c))

(* The rows' steps, of either service, and the client's. *)
BothNext ==
    \/ \E n \in Ids : create_notification(n) \/ OnMessage(n) \/ Delete(n)
    \/ \E f \in Fetches : Poll(f) \/ get_notifications(f) \/ Merge(f) \/ FetchFails(f)
    \/ \E c \in calls : mark_read(c) \/ delete_notification(c)
    \/ \E ids \in SUBSET Ids \ {{}} : MarkRead(ids)
    \/ Login \/ Logout \/ Open \/ Subscribed \/ Close

BothSpec == Init /\ [][BothNext]_vars
=============================================================================
