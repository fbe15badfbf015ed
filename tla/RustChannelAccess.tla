--------------------------- MODULE RustChannelAccess ---------------------------
(***************************************************************************)
(* ChannelAccess with the Rust port beside it: rust-backend/api/src/main.rs *)
(* answers the same questions from the same rows.  It has no tickets, so   *)
(* no getChannelAccess.  Where TypeScript gives up when a query fails, the *)
(* port goes on as if the query had found nothing: its answers are about a *)
(* set F of queries that fail.                                             *)
(***************************************************************************)
EXTENDS ChannelAccess

Queries == {"list", "member", "owner", "roles", "admin", "rows", "restricted"}

(* Bound: the queries of one request that fail. *)
MaxFailed == 2
Failed == {F \in SUBSET Queries : Cardinality(F) <= MaxFailed}

(* update_channel: no statement's error is looked at, but the first one    *)
(* aborts the transaction, which its COMMIT then rolls back.               *)
update_channel(r) == SaveStart(r) \/ SaveDelete(r) \/ SaveInsert(r) \/ Fail(r)

(* The saves of either service. *)
BothNext == Change \/ \E r \in Reqs : update_channel(r)

BothSpec == Init /\ [][BothNext]_vars
-----------------------------------------------------------------------------
(* list_channels: what it goes by when the queries of F fail. *)
is_owner(u, F) == u = Owner /\ "owner" \notin F
is_admin(u, F) == Any(u, Admins) /\ F \intersect {"roles", "admin"} = {}
is_open(F) == ~Restricted \/ "restricted" \in F

(* The block that asks is skipped unless the request is known: then every  *)
(* channel is listed, with whatever it was listed with first.              *)

(* Slip: every query that fails opens the channel. *)
Bug_rust_can_view(u, known, F) ==
    /\ "list" \notin F
    /\ known =>
         /\ u \in members /\ "member" \notin F
         /\ \/ is_owner(u, F) \/ is_admin(u, F) \/ is_open(F)
            \/ Any(u, ViewRoles) \/ F \intersect {"roles", "rows"} # {}

rust_can_view(u, known, F) ==
    /\ "list" \notin F
    /\ known =>
         /\ u \in members /\ "member" \notin F
         /\ \/ is_owner(u, F) \/ is_admin(u, F) \/ is_open(F)
            \/ Any(u, ViewRoles) /\ F \intersect {"roles", "rows"} = {}

rust_can_send_messages(u, known, F) ==
    /\ rust_can_view(u, known, F)
    /\ known => \/ is_owner(u, F) \/ is_admin(u, F) \/ is_open(F)
                \/ Any(u, SendRoles) /\ F \intersect {"roles", "rows"} = {}

(* get_server_members with a channelId *)
rust_shown_beside(u, F) ==
    /\ u \in members
    /\ "member" \notin F
    /\ \/ ~Restricted \/ "rows" \in F
       \/ is_owner(u, F)
       \/ Any(u, Admins) /\ "admin" \notin F
       \/ Any(u, ViewRoles)

(* get_messages: the check is left out where its one query fails. *)
rust_may_read(u, F) == "list" \notin F /\ ("rows" \in F \/ MayRead(u))

(* create_message: its one query is about members, so failing it refuses.  *)
rust_may_post(u, F) ==
    /\ F \intersect {"list", "member"} = {}
    /\ u \in members
    /\ u \notin muted
    /\ ~(Restricted /\ ~Any(u, SendRoles) /\ ~Any(u, Admins) /\ u # Owner)

(* process_message_side_effects: every member who is mentioned. *)
rust_notified(u) == u \in members
-----------------------------------------------------------------------------
(* While its queries are answered, the port answers as TypeScript does,    *)
(* with two exceptions: it notifies members of mentions they may not see,  *)
(* and to a request without a valid token, or without a server, its        *)
(* sidebar lists the channel to anybody, and offers to type, where         *)
(* TypeScript's lists none.  Whatever queries fail, nobody sees more for   *)
(* it, unless it is the query that asks for the channel's rows, and nobody *)
(* may post who else might not.                                            *)
SameInRust ==
    \A u \in Users :
       /\ \A known \in BOOLEAN :
            /\ rust_can_view(u, known, {}) <=> (known => canView(u, known))
            /\ rust_can_send_messages(u, known, {}) <=> (known => canSendMessages(u, known))
       /\ rust_shown_beside(u, {}) <=> ShownBeside(u)
       /\ rust_may_read(u, {}) <=> MayRead(u)
       /\ rust_may_post(u, {}) <=> MayPost(u)
       /\ Notified(u) => rust_notified(u)
       /\ \A F \in Failed : \/ "restricted" \in F
                            \/ /\ rust_can_view(u, TRUE, F) => canView(u, TRUE)
                               /\ rust_can_send_messages(u, TRUE, F) => canSendMessages(u, TRUE)
       /\ ShownBeside(u)     \/ \A F \in Failed : rust_shown_beside(u, F) => "rows" \in F
       /\ MayPost(u)         \/ \A F \in Failed : ~rust_may_post(u, F)

AccessInBoth == AccessAsSaved /\ SameInRust
=============================================================================
