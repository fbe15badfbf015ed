------------------------------- MODULE Roles -------------------------------
(***************************************************************************)
(* backend/src/routes/servers.ts: the roles of one server and who manages  *)
(* whom; and the role that logging in to the default server gives, of      *)
(* routes/auth.ts.  A route reads what its caller may do, then the rows it  *)
(* is about, and writes; between these awaits other routes write.  Position *)
(* 0 is the highest.  Only its caller's flags and positions decide, never a *)
(* lock.                                                                   *)
(***************************************************************************)
EXTENDS Integers, FiniteSets

CONSTANTS Users, Owner,
          RoleIds, OwnerRole, MemberRole, \* the rows POST /api/servers makes, and others
          Flags, ManageRoles,
          Reqs,
          MaxPos,    \* bound: the lowest position asked for
          MaxServed  \* bound: requests that are served

VARIABLES members,   \* server_members
          roles,     \* roles[x]: the row x; OwnerRole is the one named "Owner"
          held,      \* held[u]: server_member_roles
          req,       \* req[r]: handler r, with what it has read
          served,    \* requests started
          released,  \* history: the flags the owner ever put into a role
          ceiling,   \* history: the highest position the owner ever gave one
          stray      \* history: given roles while no member, or kept them by a failure

RolesAssumption == /\ Owner \in Users
                   /\ {OwnerRole, MemberRole} \subseteq RoleIds
                   /\ OwnerRole # MemberRole
                   /\ MaxPos \in Nat \ {0}

vars == <<members, roles, held, req, served, released, ceiling, stray>>
history == <<released, ceiling, stray>>

Others == Users \ {Owner}
Names == {"Owner", "Member", "other"}
Row == [live : BOOLEAN, name : Names, pos : 0..MaxPos, flags : SUBSET Flags]

(* Beyond every position: the MIN of no rows. *)
NoTop == MaxPos + 1

Idle == [kind |-> "idle", next |-> "idle", owner |-> FALSE, flags |-> {}, top |-> NoTop,
         user |-> Owner, role |-> OwnerRole, set |-> {}, doomed |-> {}]

Handler == [kind : {"idle", "create", "patch", "assign", "kick", "login"},
            next : {"idle", "row", "update", "rows", "delete", "commit", "member", "roles"},
            owner : BOOLEAN, flags : SUBSET Flags, top : 0..NoTop,
            user : Users, role : RoleIds, set : SUBSET RoleIds, doomed : SUBSET RoleIds]

TypeOK == /\ members \in SUBSET Users
          /\ roles \in [RoleIds -> Row]
          /\ held \in [Users -> SUBSET RoleIds]
          /\ req \in [Reqs -> Handler]
          /\ served \in Nat
          /\ released \in SUBSET Flags
          /\ ceiling \in 0..MaxPos
          /\ stray \in SUBSET Users

(* After POST /api/servers, which inserts row by row: where it failed at   *)
(* the last, the owner holds no role, and before that nobody learns the id. *)
FirstRow(x) ==
    CASE x = OwnerRole  -> [live |-> TRUE, name |-> "Owner", pos |-> 0, flags |-> Flags]
      [] x = MemberRole -> [live |-> TRUE, name |-> "Member", pos |-> 1, flags |-> {}]
      [] OTHER          -> [live |-> FALSE, name |-> "other", pos |-> 1, flags |-> {}]

Init == /\ members = {Owner}
        /\ roles = [x \in RoleIds |-> FirstRow(x)]
        /\ held \in {[u \in Users |-> {}],
                    [u \in Users |-> IF u = Owner THEN {OwnerRole} ELSE {}]}
        /\ req = [r \in Reqs |-> Idle]
        /\ served = 0
        /\ released = {}
        /\ ceiling = 1
        /\ stray = {}
-----------------------------------------------------------------------------
(* What the queries answer, and the checks. *)

FlagsOf(u) == UNION {roles[x].flags : x \in held[u]}

(* getMemberHighestRolePosition: MIN(position). *)
IsTop(u, t) == IF held[u] = {} THEN t = NoTop
               ELSE /\ \E x \in held[u] : roles[x].pos = t
                    /\ \A x \in held[u] : t <= roles[x].pos

canManageRolePosition(c, pos) == c.owner \/ pos > c.top
canGrantRequestedPermissions(c, asked) == c.owner \/ asked \subseteq c.flags

At(r, kind, next) == req[r].kind = kind /\ req[r].next = next
Goto(r, next) == req' = [req EXCEPT ![r].next = next]
End(r) == req' = [req EXCEPT ![r] = Idle]

(* The owner's writes are what everybody else's are measured by. *)
Record(c, flags, pos) ==
    /\ released' = IF c.owner THEN released \union flags ELSE released
    /\ ceiling' = IF c.owner /\ pos < ceiling THEN pos ELSE ceiling
-----------------------------------------------------------------------------
(* getRoleManagementContext, for the three routes below; a caller who may  *)
(* not manage roles is answered and changes nothing.                       *)
getRoleManagementContext(r, u, kind, next) ==
    /\ req[r] = Idle
    /\ served < MaxServed
    /\ u \in members
    /\ u = Owner \/ ManageRoles \in FlagsOf(u)
    /\ \E t \in 0..NoTop :
         /\ IsTop(u, t)
         /\ req' = [req EXCEPT ![r] = [Idle EXCEPT !.kind = kind, !.next = next,
                                                   !.owner = (u = Owner),
                                                   !.flags = FlagsOf(u), !.top = t]]
    /\ served' = served + 1
    /\ UNCHANGED <<members, roles, held, history>>

(* Slip: flags may be granted that the caller does not hold. *)
Bug_CreateRole(r) ==
    LET c == req[r] IN
    /\ At(r, "create", "row")
    /\ \E x \in RoleIds, name \in {"Member", "other"}, pos \in 0..MaxPos, asked \in SUBSET Flags :
         /\ ~roles[x].live
         /\ canManageRolePosition(c, pos)
         /\ roles' = [roles EXCEPT ![x] =
                        [live |-> TRUE, name |-> name, pos |-> pos, flags |-> asked]]
         /\ Record(c, asked, pos)
    /\ End(r)
    /\ UNCHANGED <<members, held, served, stray>>

(* POST /api/servers/:id/roles *)
CreateRole(r) ==
    LET c == req[r] IN
    /\ At(r, "create", "row")
    /\ \E x \in RoleIds, name \in {"Member", "other"}, pos \in 0..MaxPos, asked \in SUBSET Flags :
         /\ ~roles[x].live
         /\ canManageRolePosition(c, pos)
         /\ canGrantRequestedPermissions(c, asked)
         /\ roles' = [roles EXCEPT ![x] =
                        [live |-> TRUE, name |-> name, pos |-> pos, flags |-> asked]]
         /\ Record(c, asked, pos)
    /\ End(r)
    /\ UNCHANGED <<members, held, served, stray>>

(* PATCH /api/servers/:id/roles/:roleId: the row is looked at ... *)
PatchRow(r) ==
    /\ At(r, "patch", "row")
    /\ \E x \in RoleIds :
         /\ roles[x].live
         /\ roles[x].name # "Owner"
         /\ canManageRolePosition(req[r], roles[x].pos)
         /\ req' = [req EXCEPT ![r].next = "update", ![r].role = x]
    /\ UNCHANGED <<members, roles, held, served, history>>

(* ... and what was asked for is set: some flags on, some off, perhaps a   *)
(* position and a name; the rest stays as it is by now.                    *)
PatchUpdate(r) ==
    LET c == req[r]
        x == c.role
    IN
    /\ At(r, "patch", "update")
    /\ \E on \in SUBSET Flags, off \in SUBSET roles[x].flags, name \in {roles[x].name, "Member", "other"},
          pos \in {p \in 0..MaxPos : canManageRolePosition(c, p)} \union {roles[x].pos} :
         /\ on \intersect off = {}
         /\ canGrantRequestedPermissions(c, on)
         /\ roles' = [roles EXCEPT ![x] =
                        [live |-> TRUE, name |-> name, pos |-> pos,
                         flags |-> (@.flags \ off) \union on]]
         /\ Record(c, on, pos)
    /\ End(r)
    /\ UNCHANGED <<members, held, served, stray>>
-----------------------------------------------------------------------------
(* PATCH .../members/:userId and .../members/:userId/roles *)

AssignTarget(r) ==
    /\ At(r, "assign", "row")
    /\ \E u \in Others, t \in 0..NoTop :
         /\ IsTop(u, t)
         /\ canManageRolePosition(req[r], t)
         /\ req' = [req EXCEPT ![r].next = "rows", ![r].user = u]
    /\ UNCHANGED <<members, roles, held, served, history>>

(* Slip: the Owner role may be assigned, and so may one level with the caller's. *)
Bug_AssignRows(r) ==
    /\ At(r, "assign", "rows")
    /\ \E set \in SUBSET {x \in RoleIds : roles[x].live} :
         req' = [req EXCEPT ![r].next = "delete", ![r].set = set]
    /\ UNCHANGED <<members, roles, held, served, history>>

(* getServerRoles: every role asked for is looked at. *)
AssignRows(r) ==
    LET c == req[r] IN
    /\ At(r, "assign", "rows")
    /\ \E set \in SUBSET {x \in RoleIds : roles[x].live} :
         /\ \A x \in set : /\ roles[x].name # "Owner"
                           /\ canManageRolePosition(c, roles[x].pos)
                           /\ canGrantRequestedPermissions(c, roles[x].flags)
         /\ req' = [req EXCEPT ![r].next = "delete", ![r].set = set]
    /\ UNCHANGED <<members, roles, held, served, history>>

(* The transaction.  Its DELETE is about the rows that are there when it   *)
(* starts; a second one waits for the first, finds them gone, and leaves   *)
(* what the first's transaction has put in their place.                    *)
AssignDelete(r) ==
    /\ At(r, "assign", "delete")
    /\ req' = [req EXCEPT ![r].next = "commit", ![r].doomed = held[req[r].user]]
    /\ UNCHANGED <<members, roles, held, served, history>>

(* r is done, and the rows gone of u are no other's to delete. *)
Deleted(r, u, gone) ==
    req' = [s \in Reqs |-> IF s = r THEN Idle
                           ELSE IF req[s].user = u THEN [req[s] EXCEPT !.doomed = @ \ gone]
                           ELSE req[s]]

(* ON CONFLICT DO NOTHING: a role that is back by now is no error. *)
AssignCommit(r) ==
    LET c == req[r] IN
    /\ At(r, "assign", "commit")
    /\ held' = [held EXCEPT ![c.user] = (@ \ c.doomed) \union c.set]
    /\ stray' = IF c.user \in members THEN stray ELSE stray \union {c.user}
    /\ Deleted(r, c.user, c.doomed)
    /\ UNCHANGED <<members, roles, served, released, ceiling>>

(* The second route's INSERT has no such clause: where a role is back, it   *)
(* fails.                                                                  *)
AssignAllCommit(r) ==
    /\ req[r].set \intersect (held[req[r].user] \ req[r].doomed) = {}
    /\ AssignCommit(r)
-----------------------------------------------------------------------------
(* Joining and leaving, as far as roles go; Membership has the rest. *)

(* The role that POST /api/invites/:code/accept gives. *)
Default(x) == /\ roles[x].live
              /\ \/ roles[x].name = "Member"
                 \/ /\ \A y \in RoleIds : roles[y].live => roles[y].name # "Member"
                    /\ \A y \in RoleIds : roles[y].live => roles[y].pos <= roles[x].pos

Join(u) == /\ u \notin members
           /\ members' = members \union {u}
           /\ \E x \in RoleIds : Default(x) /\ held' = [held EXCEPT ![u] = @ \union {x}]
           /\ UNCHANGED <<roles, req, served, history>>

(* ensureDefaultServerMembership: the SELECT of the role "Member" ... *)
LoginStart(r, u) ==
    /\ req[r] = Idle
    /\ served < MaxServed
    /\ LET member == {x \in RoleIds : roles[x].live /\ roles[x].name = "Member"} IN
       \E set \in IF member = {} THEN {{}} ELSE {{x} : x \in member} :
         req' = [req EXCEPT ![r] = [Idle EXCEPT !.kind = "login", !.next = "member",
                                                !.user = u, !.set = set]]
    /\ served' = served + 1
    /\ UNCHANGED <<members, roles, held, history>>

(* ... the INSERT of the member, ON CONFLICT DO NOTHING ... *)
LoginMember(r) == /\ At(r, "login", "member")
                  /\ members' = members \union {req[r].user}
                  /\ IF req[r].set = {} THEN End(r) ELSE Goto(r, "roles")
                  /\ UNCHANGED <<roles, held, served, history>>

(* ... and, in a query of its own, of the role; a member it may be no more. *)
(* A row that a transaction has deleted and not committed is waited for.   *)
LoginRoles(r) ==
    LET c == req[r] IN
    /\ At(r, "login", "roles")
    /\ \A s \in Reqs : At(s, "assign", "commit") /\ req[s].user = c.user
                         => req[s].doomed \intersect c.set = {}
    /\ held' = [held EXCEPT ![c.user] = @ \union c.set]
    /\ stray' = IF c.user \in members THEN stray ELSE stray \union {c.user}
    /\ End(r)
    /\ UNCHANGED <<members, roles, served, released, ceiling>>

(* A kick, by anyone with checkPermission(can_manage_server); a leave.  *)
RemoveStart(r, u) ==
    /\ req[r] = Idle
    /\ served < MaxServed
    /\ req' = [req EXCEPT ![r] = [Idle EXCEPT !.kind = "kick", !.next = "member", !.user = u]]
    /\ served' = served + 1
    /\ UNCHANGED <<members, roles, held, history>>

RemoveMember(r) == /\ At(r, "kick", "member")
                   /\ members' = members \ {req[r].user}
                   /\ Goto(r, "roles")
                   /\ UNCHANGED <<roles, held, served, history>>

(* Slip: the roles are left to the foreign key, which is to users. *)
Bug_RemoveRoles(r) == /\ At(r, "kick", "roles")
                      /\ End(r)
                      /\ UNCHANGED <<members, roles, held, served, history>>

RemoveRoles(r) == /\ At(r, "kick", "roles")
                  /\ held' = [held EXCEPT ![req[r].user] = {}]
                  /\ Deleted(r, req[r].user, held[req[r].user])
                  /\ UNCHANGED <<members, roles, served, history>>

(* Refused, or an await throws: a transaction is undone, a kick half done. *)
Fail(r) == /\ req[r] # Idle
           /\ stray' = IF At(r, "kick", "roles") THEN stray \union {req[r].user} ELSE stray
           /\ End(r)
           /\ UNCHANGED <<members, roles, held, served, released, ceiling>>

(* The routes that list: members only, and nothing changes. *)
ListRoles(u) == u \in members /\ UNCHANGED vars

Manage(r, u) == \/ getRoleManagementContext(r, u, "create", "row")
                \/ getRoleManagementContext(r, u, "patch", "row")
                \/ getRoleManagementContext(r, u, "assign", "row")

Step(r) == \/ CreateRole(r) \/ PatchRow(r) \/ PatchUpdate(r)
           \/ AssignTarget(r) \/ AssignRows(r) \/ AssignDelete(r) \/ AssignCommit(r)
           \/ AssignAllCommit(r)
           \/ RemoveMember(r) \/ RemoveRoles(r) \/ Fail(r)
           \/ LoginMember(r) \/ LoginRoles(r)

Next == \/ \E r \in Reqs, u \in Users : Manage(r, u)
        \/ \E r \in Reqs, u \in Others : RemoveStart(r, u)
        \/ \E r \in Reqs, u \in Users : LoginStart(r, u)
        \/ \E r \in Reqs : Step(r)
        \/ \E u \in Others : Join(u)
        \/ \E u \in Users : ListRoles(u)

Spec == Init /\ [][Next]_vars
-----------------------------------------------------------------------------
(* Nobody hands out more than they were given: whatever members do, in     *)
(* any order and with checks as stale as may be, no role but the Owner's   *)
(* has a flag, or ranks higher, than the owner ever let one; and nobody    *)
(* else holds the Owner's.  An owner who puts a role level with theirs     *)
(* (position 0) gives this away: the role a newcomer gets may be either.   *)
NoEscalation ==
    ceiling > 0 => /\ \A x \in RoleIds \ {OwnerRole} : /\ roles[x].flags \subseteq released
                                                       /\ roles[x].pos >= ceiling
                   /\ \A u \in Others : OwnerRole \notin held[u]

(* Who is no member holds no role, but while a kick is at it, after one    *)
(* that failed half way, by an assignment that overlapped or came late (no *)
(* route looks whether its target is a member), or by a login whose member  *)
(* was removed before the INSERT of the role.                              *)
RolesOfMembers ==
    \A u \in Others : u \in members \/ held[u] = {} \/ u \in stray
                      \/ \E r \in Reqs : At(r, "kick", "roles") /\ req[r].user = u
=============================================================================
