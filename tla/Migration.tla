----------------------------- MODULE Migration -----------------------------
(***************************************************************************)
(* backend/src/lib/migrate.ts: what each replica of the backend does to the *)
(* database before it listens, statement group by statement group, beside  *)
(* replicas that do the same or serve already; a stop at any point leaves   *)
(* what was done.  The database is one of an older version, or empty.  Of   *)
(* its servers one is looked at, and of the routes what they do to its      *)
(* roles, each in one step (Roles has their steps).                        *)
(***************************************************************************)
EXTENDS Naturals, FiniteSets

CONSTANTS Backends, Users, Owner, RoleIds,
          MaxStarts,   \* bound: starts of a replica beside another one
          MaxServed,   \* bound: requests that are served, the server's creation aside
          None, Absent \* a role_id that is NULL; no row of server_members

MigrationAssumption == /\ {MaxStarts, MaxServed} \subseteq Nat
                       /\ Owner \in Users
                       /\ {None, Absent} \intersect RoleIds = {}
                       /\ None # Absent

VARIABLES at, known,   \* at[b]: what replica b is about to run; what it has read
          starts, served,
          schema,      \* the stages whose tables and columns there are
          tagged,      \* the users with a discriminator
          made,        \* how far POST /api/servers is with the server
          ownerRole,   \* the role it has made
          names,       \* roles: their names
          first,       \* first[u]: the role_id of u's row in server_members
          held,        \* server_member_roles
          given,       \* history: the roles that joining, or the last assignment, gave
          unranked,    \* history: who joined without a role
          overlapped   \* history: the server was looked at while another gave it roles

counts == <<starts, served>>
rows == <<names, first, held>>
history == <<given, unranked, overlapped>>
vars == <<at, known, counts, schema, tagged, made, ownerRole, rows, history>>

(* What creates tables, or columns of them, IF NOT EXISTS: ensureBaseSchema; *)
(* the columns that later versions brought; server_member_roles, mutes,     *)
(* bans, permissions and friendships; metrics, notifications, attachments.  *)
Creating == {"base", "columns", "tables", "late"}

Stages == Creating \union {"discriminators", "tag", "roles", "owner", "member", "rank owner",
                           "rank others", "sync", "up"}

(* What the statements of a stage refer to. *)
Needs(s) == CASE s = "base"                    -> {}
              [] s \in {"columns", "tables", "roles", "rank owner", "rank others"} -> {"base"}
              [] s \in {"discriminators", "tag", "owner", "member"} -> {"base", "columns"}
              [] s = "sync"                    -> {"base", "tables"}
              [] s = "late"                    -> Creating \ {"late"}
              [] s = "up"                      -> Creating

(* The stage that follows s; where the database has no server, "roles" is   *)
(* followed by "sync".                                                     *)
After == [s \in Stages \ {"up"} |->
    CASE s = "base"           -> "columns"
      [] s = "columns"        -> "tables"
      [] s = "tables"         -> "discriminators"
      [] s = "discriminators" -> "tag"
      [] s = "tag"            -> "roles"
      [] s = "roles"          -> "owner"
      [] s = "owner"          -> "member"
      [] s = "member"         -> "rank owner"
      [] s = "rank owner"     -> "rank others"
      [] s = "rank others"    -> "sync"
      [] s = "sync"           -> "late"
      [] s = "late"           -> "up"]

Nothing == [todo |-> {}, server |-> FALSE, owner |-> None, member |-> None]

Names == {"free", "Owner", "Member", "other"}
Named(name) == {x \in RoleIds : names[x] = name}
Live == RoleIds \ Named("free")

TypeOK == /\ at \in [Backends -> Stages \union {"down"}]
          /\ known \in [Backends -> [todo : SUBSET Users, server : BOOLEAN,
                                     owner : RoleIds \union {None}, member : RoleIds \union {None}]]
          /\ starts \in Nat /\ served \in Nat
          /\ schema \in SUBSET Creating
          /\ tagged \in SUBSET Users
          /\ made \in {"no", "row", "owner", "member", "joined", "yes"}
          /\ ownerRole \in RoleIds \union {None}
          /\ names \in [RoleIds -> Names]
          /\ first \in [Users -> RoleIds \union {None, Absent}]
          /\ held \in [Users -> SUBSET RoleIds]
          /\ given \in [Users -> SUBSET RoleIds]
          /\ unranked \in SUBSET Users
          /\ overlapped \in BOOLEAN

(* db/init/001_schema.sql, where no role is named "Owner", a member has one  *)
(* role at most, and a user no discriminator; or the database is empty, and *)
(* its users will be those that register, with one.                        *)
Init == /\ at = [b \in Backends |-> "down"]
        /\ known = [b \in Backends |-> Nothing]
        /\ starts = 0 /\ served = 0
        /\ ownerRole = None
        /\ held = [u \in Users |-> {}]
        /\ given = [u \in Users |-> {}]
        /\ unranked = {}
        /\ overlapped = FALSE
        /\ \/ /\ made = "no" /\ schema = {} /\ tagged = Users
              /\ names = [x \in RoleIds |-> "free"]
              /\ first = [u \in Users |-> Absent]
           \/ /\ made = "yes" /\ schema = {"base"} /\ tagged = {}
              /\ names \in [RoleIds -> {"free", "Member", "other"}]
              /\ first \in [Users -> {None, Absent} \union Live]
-----------------------------------------------------------------------------
(* runMigrations *)

Start(b) == /\ at[b] = "down"
            /\ starts < MaxStarts \/ \A c \in Backends : at[c] = "down"
            /\ starts' = IF starts < MaxStarts THEN starts + 1 ELSE starts
            /\ at' = [at EXCEPT ![b] = "base"]
            /\ UNCHANGED <<known, served, schema, tagged, made, ownerRole, rows, history>>

(* An error ends the process, and so does a deploy. *)
Stop(b) == /\ at[b] # "down"
           /\ at' = [at EXCEPT ![b] = "down"]
           /\ known' = [known EXCEPT ![b] = Nothing]
           /\ UNCHANGED <<counts, schema, tagged, made, ownerRole, rows, history>>

(* b runs the statements of stage s and goes on: they find what they refer  *)
(* to, or it ends.                                                         *)
Run(b, s) == /\ at[b] = s
             /\ Needs(s) \subseteq schema
             /\ at' = [at EXCEPT ![b] = After[s]]

(* CREATE TABLE, ALTER TABLE, CREATE INDEX *)
Create(b) == \E s \in Creating :
                /\ Run(b, s)
                /\ schema' = schema \union {s}
                /\ UNCHANGED <<known, counts, tagged, made, ownerRole, rows, history>>

(* The users without a discriminator ... *)
FindUsers(b) == /\ Run(b, "discriminators")
                /\ known' = [known EXCEPT ![b].todo = Users \ tagged]
                /\ UNCHANGED <<counts, schema, tagged, made, ownerRole, rows, history>>

(* ... get one, whoever has given them one since. *)
Tag(b) == \/ \E u \in known[b].todo :
               /\ at[b] = "tag"
               /\ tagged' = tagged \union {u}
               /\ known' = [known EXCEPT ![b].todo = @ \ {u}]
               /\ UNCHANGED <<at, counts, schema, made, ownerRole, rows, history>>
          \/ /\ known[b].todo = {}
             /\ Run(b, "tag")
             /\ UNCHANGED <<known, counts, schema, tagged, made, ownerRole, rows, history>>

(* SELECT id FROM servers *)
NoServer(b) == /\ at[b] = "roles" /\ made = "no"
               /\ at' = [at EXCEPT ![b] = "sync"]
               /\ UNCHANGED <<known, counts, schema, tagged, made, ownerRole, rows, history>>

(* The roles of the server: ids of rows named "Owner" and "Member".         *)
Find(name, x) == IF Named(name) = {} THEN x = None ELSE x \in Named(name)

GivesRoles(b) == at[b] = "owner" /\ known[b].owner = None

FindRoles(b) == /\ made # "no"
                /\ Run(b, "roles")
                /\ \E x, y \in RoleIds \union {None} :
                     /\ Find("Owner", x) /\ Find("Member", y)
                     /\ known' = [known EXCEPT ![b].server = TRUE, ![b].owner = x, ![b].member = y]
                /\ overlapped' = (overlapped \/ made = "row" \/ \E c \in Backends : GivesRoles(c))
                /\ UNCHANGED <<counts, schema, tagged, made, ownerRole, rows, given, unranked>>

(* A role that is not found is made. *)
NewRole(x, name) == names[x] = "free" /\ names' = [names EXCEPT ![x] = name]

(* Slip: the role is made whether there is one or not. *)
Bug_AddOwner(b) ==
    /\ Run(b, "owner")
    /\ \E x \in RoleIds : NewRole(x, "Owner") /\ known' = [known EXCEPT ![b].owner = x]
    /\ UNCHANGED <<counts, schema, tagged, made, ownerRole, first, held, history>>

AddOwner(b) ==
    /\ Run(b, "owner")
    /\ IF known[b].owner # None THEN UNCHANGED <<names, known>>
       ELSE \E x \in RoleIds : NewRole(x, "Owner") /\ known' = [known EXCEPT ![b].owner = x]
    /\ UNCHANGED <<counts, schema, tagged, made, ownerRole, first, held, history>>

AddMember(b) ==
    /\ Run(b, "member")
    /\ IF known[b].member # None THEN UNCHANGED <<names, known>>
       ELSE \E x \in RoleIds : NewRole(x, "Member") /\ known' = [known EXCEPT ![b].member = x]
    /\ UNCHANGED <<counts, schema, tagged, made, ownerRole, first, held, history>>

(* UPDATE server_members SET role_id ... WHERE role_id IS NULL *)
Rank(us, x) == /\ first' = [u \in Users |-> IF u \in us /\ first[u] = None THEN x ELSE first[u]]
               /\ unranked' = unranked \ us

RankOwner(b) ==
    /\ Run(b, "rank owner")
    /\ Rank({Owner}, known[b].owner)
    /\ UNCHANGED <<known, counts, schema, tagged, made, ownerRole, names, held, given, overlapped>>

RankOthers(b) ==
    /\ Run(b, "rank others")
    /\ Rank(Users \ {Owner}, known[b].member)
    /\ UNCHANGED <<known, counts, schema, tagged, made, ownerRole, names, held, given, overlapped>>

(* Slip: the role is the one the replica has found for members. *)
Bug_Sync(b) ==
    /\ Run(b, "sync")
    /\ held' = [u \in Users |-> held[u] \union ({known[b].member} \intersect RoleIds)]
    /\ UNCHANGED <<known, counts, schema, tagged, made, ownerRole, names, first, history>>

(* "Migrate roles to server_member_roles (Sync ensure)": at every start.    *)
Sync(b) ==
    /\ Run(b, "sync")
    /\ held' = [u \in Users |-> held[u] \union ({first[u]} \intersect RoleIds)]
    /\ UNCHANGED <<known, counts, schema, tagged, made, ownerRole, names, first, history>>
-----------------------------------------------------------------------------
(* The routes, of a replica that is up. *)

Serving == \E b \in Backends : at[b] = "up"

Request == Serving /\ served < MaxServed /\ served' = served + 1

migrating == <<at, known, starts, schema, tagged>>

(* POST /api/servers, INSERT by INSERT, outside a transaction. *)
CreateServer == /\ Serving /\ made = "no"
                /\ made' = "row"
                /\ UNCHANGED <<migrating, served, ownerRole, rows, history>>

CreateOwnerRole == /\ Serving /\ made = "row" /\ made' = "owner"
                   /\ \E x \in RoleIds : NewRole(x, "Owner") /\ ownerRole' = x
                   /\ UNCHANGED <<migrating, served, first, held, history>>

CreateMemberRole == /\ Serving /\ made = "owner" /\ made' = "member"
                    /\ \E x \in RoleIds : NewRole(x, "Member")
                    /\ UNCHANGED <<migrating, served, ownerRole, first, held, history>>

(* ON CONFLICT DO NOTHING *)
CreateMember == /\ Serving /\ made = "member" /\ made' = "joined"
                /\ first' = [first EXCEPT ![Owner] = IF @ = Absent THEN ownerRole ELSE @]
                /\ UNCHANGED <<migrating, served, ownerRole, names, held, history>>

CreateMemberRoles == /\ Serving /\ made = "joined" /\ made' = "yes"
                     /\ held' = [held EXCEPT ![Owner] = @ \union {ownerRole}]
                     /\ given' = [given EXCEPT ![Owner] = @ \union {ownerRole}]
                     /\ UNCHANGED <<migrating, served, ownerRole, names, first>>
                     /\ UNCHANGED <<unranked, overlapped>>

(* What was inserted so far stays. *)
CreateFails == /\ made \in {"row", "owner", "member", "joined"} /\ made' = "yes"
               /\ UNCHANGED <<migrating, served, ownerRole, rows, history>>

(* POST /api/invites/:code/accept *)
Join(u) == /\ Request /\ first[u] = Absent
           /\ \E x \in Live :
                /\ names[x] = "Member" \/ Named("Member") = {}
                /\ first' = [first EXCEPT ![u] = x]
                /\ held' = [held EXCEPT ![u] = @ \union {x}]
                /\ given' = [given EXCEPT ![u] = @ \union {x}]
           /\ UNCHANGED <<migrating, made, ownerRole, names, unranked, overlapped>>

(* ensureDefaultServerMembership, of a server without a role "Member".      *)
JoinWithout(u) == /\ Request /\ made # "no" /\ first[u] = Absent
                  /\ Named("Member") = {}
                  /\ first' = [first EXCEPT ![u] = None]
                  /\ unranked' = unranked \union {u}
                  /\ UNCHANGED <<migrating, made, ownerRole, names, held, given, overlapped>>

(* PATCH .../members/:userId, which leaves role_id alone. *)
Assign(u, set) == /\ Request /\ u # Owner
                  /\ set \subseteq Live \ Named("Owner")
                  /\ held' = [held EXCEPT ![u] = set]
                  /\ given' = [given EXCEPT ![u] = set]
                  /\ UNCHANGED <<migrating, made, ownerRole, names, first, unranked, overlapped>>

(* A kick, a ban or a leave. *)
Leave(u) == /\ Request /\ u # Owner /\ first[u] # Absent
            /\ first' = [first EXCEPT ![u] = Absent]
            /\ held' = [held EXCEPT ![u] = {}]
            /\ given' = [given EXCEPT ![u] = {}]
            /\ unranked' = unranked \ {u}
            /\ UNCHANGED <<migrating, made, ownerRole, names, overlapped>>

(* POST .../roles, PATCH .../roles/:roleId: none is called "Owner", and the  *)
(* role that is stays so.                                                  *)
NameRole(x) == /\ Request /\ made # "no" /\ names[x] # "Owner"
               /\ \E name \in {"Member", "other"} : names' = [names EXCEPT ![x] = name]
               /\ UNCHANGED <<migrating, made, ownerRole, first, held, history>>

Migrate(b) == \/ Start(b) \/ Stop(b) \/ Create(b) \/ FindUsers(b) \/ Tag(b) \/ NoServer(b)
              \/ FindRoles(b) \/ AddOwner(b) \/ AddMember(b) \/ RankOwner(b)
              \/ RankOthers(b) \/ Sync(b)

Serve == \/ CreateServer \/ CreateOwnerRole \/ CreateMemberRole \/ CreateMember
         \/ CreateMemberRoles \/ CreateFails
         \/ \E u \in Users : \/ Join(u) \/ JoinWithout(u) \/ Leave(u)
                             \/ \E set \in SUBSET RoleIds : Assign(u, set)
         \/ \E x \in RoleIds : NameRole(x)

Next == Serve \/ \E b \in Backends : Migrate(b)

Spec == Init /\ [][Next]_vars
-----------------------------------------------------------------------------
(* No statement refers to what is not there yet, from whichever version and *)
(* after whichever stops; and a replica serves a complete database, whose   *)
(* users all have a discriminator.                                         *)
NothingMissing == \A b \in Backends : at[b] \in Stages => /\ Needs(at[b]) \subseteq schema
                                                          /\ at[b] = "up" => tagged = Users

(* A replica that is done has left a server with a role "Owner", however     *)
(* far its creation had come, and with one only unless it looked while      *)
(* another replica, or the creation, was about to make it; and its members   *)
(* have a role_id but those who came without since.                         *)
ServerRepaired ==
    /\ \A b \in Backends : at[b] \in {"sync", "late", "up"} /\ known[b].server =>
          /\ Named("Owner") # {}
          /\ \A u \in Users : first[u] = None => u \in unranked
    /\ ~overlapped => \A x, y \in Named("Owner") : x = y

(* A start gives nobody a role but the one they joined with (which it does,  *)
(* though it may have been taken away since), and takes none.               *)
HeldIsGiven == \A u \in Users : /\ given[u] \subseteq held[u]
                                /\ held[u] \ given[u] \subseteq {first[u]}

MigrationHolds == NothingMissing /\ ServerRepaired /\ HeldIsGiven
=============================================================================
