---------------------------- MODULE ChannelAccess ----------------------------
(***************************************************************************)
(* Who may see one channel of a server, and post in it: the rows of        *)
(* channel_permissions, the routes of backend/src/routes/channels.ts that  *)
(* write them, and the six places that answer the question from them, each *)
(* with a query of its own.  A channel without rows is open to everyone.   *)
(*                                                                         *)
(* Membership, muting, the members' roles and the roles' flags change at   *)
(* any time (Membership and Roles say how): here they only are an input.   *)
(***************************************************************************)
EXTENDS Integers, FiniteSets

CONSTANTS Users, Owner, RoleIds,
          Admins,   \* the roles with can_manage_server or can_manage_channels
          Reqs,
          MaxServed \* bound: saves of the channel that are served

VARIABLES members,  \* server_members
          muted,    \* server_members.muted
          held,     \* held[u]: server_member_roles
          perms,    \* channel_permissions: [x, view, send], one row for a role
          req,      \* req[r]: a save under way
          served,   \* saves started
          saved,    \* history: the list of the last save that committed
          overlapped\* history: two saves were at it at once, and maybe left both lists

AccessAssumption == Owner \in Users

people == <<members, muted, held>>
vars == <<people, perms, req, served, saved, overlapped>>

Perm == [role : RoleIds, view : BOOLEAN, send : BOOLEAN]

(* What a form can ask for: no role twice. *)
Lists == {list \in SUBSET Perm : \A p, q \in list : p.role = q.role => p = q}

Idle == [next |-> "idle", named |-> FALSE, list |-> {}, doomed |-> {}]

TypeOK == /\ members \in SUBSET Users
          /\ muted \in SUBSET Users
          /\ held \in [Users -> SUBSET RoleIds]
          /\ perms \in Lists
          /\ req \in [Reqs -> [next : {"idle", "delete", "insert"}, named : BOOLEAN,
                               list : Lists, doomed : SUBSET Perm]]
          /\ served \in Nat
          /\ saved \in Lists
          /\ overlapped \in BOOLEAN

(* POST /api/channels: the channel and the rows it was asked with. *)
Init == /\ members = {Owner}
        /\ muted = {}
        /\ held = [u \in Users |-> {}]
        /\ \E list \in Lists : perms = list /\ saved = list
        /\ req = [r \in Reqs |-> Idle]
        /\ served = 0
        /\ overlapped = FALSE
-----------------------------------------------------------------------------
(* PATCH /api/channels/:id with permissions, a transaction.  It starts by  *)
(* setting the name, if it was given one, and so locks the channel's row:  *)
(* of the saves that set a name only one is past that.                     *)

(* checkPermission(can_manage_channels): the owner may, so somebody does. *)
SaveStart(r) ==
    /\ req[r] = Idle
    /\ served < MaxServed
    /\ \E list \in Lists, named \in BOOLEAN :
         req' = [req EXCEPT ![r] = [Idle EXCEPT !.next = "delete", !.named = named, !.list = list]]
    /\ served' = served + 1
    /\ UNCHANGED <<people, perms, saved, overlapped>>

InTransaction == {s \in Reqs : req[s].next = "insert"}

(* Slip: the name is set last, so it serializes nothing. *)
Bug_SaveDelete(r) ==
    /\ req[r].next = "delete"
    /\ req' = [req EXCEPT ![r].next = "insert", ![r].doomed = perms]
    /\ overlapped' = (overlapped \/ \E s \in InTransaction : ~(req[r].named /\ req[s].named))
    /\ UNCHANGED <<people, perms, served, saved>>

(* DELETE is about the rows that are committed when it starts.  A second   *)
(* one waits for the first and finds them gone, but not what the first's   *)
(* transaction has put in their place.                                     *)
SaveDelete(r) ==
    /\ req[r].next = "delete"
    /\ req[r].named => \A s \in InTransaction : ~req[s].named
    /\ req' = [req EXCEPT ![r].next = "insert", ![r].doomed = perms]
    /\ overlapped' = (overlapped \/ InTransaction # {})
    /\ UNCHANGED <<people, perms, served, saved>>

(* Slip: no primary key, so a role may get a row of each save. *)
Bug_SaveInsert(r) ==
    LET gone == req[r].doomed IN
    /\ req[r].next = "insert"
    /\ req' = [s \in Reqs |-> IF s = r THEN Idle ELSE [req[s] EXCEPT !.doomed = @ \ gone]]
    /\ perms' = (perms \ gone) \union req[r].list
    /\ saved' = req[r].list
    /\ UNCHANGED <<people, served, overlapped>>

(* The INSERTs and COMMIT; a role that has a row by now is a violation of  *)
(* the primary key, and everything is rolled back.                         *)
SaveInsert(r) ==
    LET list == req[r].list
        gone == req[r].doomed
        left == perms \ gone
    IN
    /\ req[r].next = "insert"
    /\ IF \E p \in list, q \in left : p.role = q.role
       THEN /\ req' = [req EXCEPT ![r] = Idle]
            /\ UNCHANGED <<perms, saved>>
       ELSE /\ req' = [s \in Reqs |-> IF s = r THEN Idle ELSE [req[s] EXCEPT !.doomed = @ \ gone]]
            /\ perms' = left \union list
            /\ saved' = list
    /\ UNCHANGED <<people, served, overlapped>>

(* An await throws: ROLLBACK. *)
Fail(r) == /\ req[r] # Idle
           /\ req' = [req EXCEPT ![r] = Idle]
           /\ UNCHANGED <<people, perms, served, saved, overlapped>>

(* The rest of the server. *)
Change == /\ \E u \in Users \ {Owner} :
               \/ members' = members \union {u} /\ UNCHANGED <<muted, held>>
               \/ members' = members \ {u} /\ muted' = muted \ {u} /\ UNCHANGED held
               \/ u \in members /\ muted' = muted \union {u} /\ UNCHANGED <<members, held>>
               \/ \E set \in SUBSET RoleIds :
                    held' = [held EXCEPT ![u] = set] /\ UNCHANGED <<members, muted>>
          /\ UNCHANGED <<perms, req, served, saved, overlapped>>

Next == \/ \E r \in Reqs : SaveStart(r) \/ SaveDelete(r) \/ SaveInsert(r) \/ Fail(r)
        \/ Change

Spec == Init /\ [][Next]_vars
-----------------------------------------------------------------------------
(* Who may see the channel, place by place. *)

Restricted == perms # {}
ViewRoles == {p.role : p \in {q \in perms : q.view}}
SendRoles == {p.role : p \in {q \in perms : q.send}}

(* Of a user: their roles meet the set S. *)
Any(u, S) == held[u] \intersect S # {}

(* Slip: a channel without rows is closed. *)
Bug_allowed(u) == /\ u \in members
                  /\ u = Owner \/ Any(u, Admins) \/ Any(u, ViewRoles)

(* lib/auth.ts getChannelAccess: tickets, channel-by-name, ... *)
allowed(u) == /\ u \in members
              /\ u = Owner \/ Any(u, Admins) \/ ~Restricted \/ Any(u, ViewRoles)

canSend(u) == /\ allowed(u)
              /\ u \notin muted
              /\ u = Owner \/ Any(u, Admins) \/ ~Restricted \/ Any(u, SendRoles)

(* GET /api/channels: the sections of the sidebar, and whether one may     *)
(* type.  known: the request names its server and has a valid token, u's.  *)
canView(u, known) ==
    /\ known
    /\ u \in members
    /\ u = Owner \/ Any(u, Admins) \/ ~Restricted \/ Any(u, ViewRoles)

canSendMessages(u, known) ==
    /\ canView(u, known)
    /\ u = Owner \/ Any(u, Admins) \/ ~Restricted \/ Any(u, SendRoles)

(* GET /api/servers/:id/members?channelId: the members shown beside it. *)
ShownBeside(u) == /\ u \in members
                  /\ Restricted => u = Owner \/ Any(u, Admins) \/ Any(u, ViewRoles)

(* processMessageSideEffects: who is notified of a mention. *)
Notified(u) == /\ u \in members
               /\ Restricted => u = Owner \/ Any(u, Admins) \/ Any(u, ViewRoles)

(* GET /api/messages: neither members nor administrators are asked for. *)
MayRead(u) == ~(Restricted /\ ~Any(u, ViewRoles) /\ u # Owner)

(* POST /api/messages: the channel need not be visible. *)
MayPost(u) == /\ u \in members
              /\ u \notin muted
              /\ ~(Restricted /\ ~Any(u, SendRoles) /\ u # Owner /\ ~Any(u, Admins))
-----------------------------------------------------------------------------
(* Six computations, one answer: who has the channel in the sidebar may    *)
(* open its socket, is listed beside it and is notified, and nobody else   *)
(* is.  GET /api/messages agrees for all members but administrators, whom  *)
(* it shows nothing of a channel none of their roles may view; and a       *)
(* message is accepted from whom the sidebar offers to type, if not muted, *)
(* and from everyone the socket's check says may send.                     *)
OneAnswer ==
    \A u \in Users :
       /\ canView(u, TRUE) <=> allowed(u)
       /\ canView(u, TRUE) <=> ShownBeside(u)
       /\ canView(u, TRUE) <=> Notified(u)
       /\ u \in members /\ ~Any(u, Admins) => (MayRead(u) <=> allowed(u))
       /\ canSendMessages(u, TRUE) /\ u \notin muted => MayPost(u) /\ canSend(u)
       /\ canSend(u) => MayPost(u)
       /\ MayPost(u) /\ MayRead(u) /\ u \in members => canSend(u)

(* The rows of a channel are the last list that was saved, unless two      *)
(* saves overlapped of which at least one set no name.                     *)
LastSaveStands == ~overlapped => perms = saved

(* The saved list decides, and decides the same everywhere. *)
AccessAsSaved == LastSaveStands /\ OneAnswer
-----------------------------------------------------------------------------
(* What the repository says and the code does not do. *)

(* ChannelModal.tsx:184 "If no perm row, we treat as "Inherit" (True)": a    *)
(* role without a row lets its members view the channel.                   *)
NoRowInherits ==
    \A u \in members : (\E x \in held[u] : \A p \in perms : p.role # x) => allowed(u)
=============================================================================
