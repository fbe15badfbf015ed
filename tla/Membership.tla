----------------------------- MODULE Membership -----------------------------
(***************************************************************************)
(* backend/src/routes/servers.ts: who is a member of one server.  Joining  *)
(* by an invite and the ban of /bans are transactions; leaving, the kicks  *)
(* and the owner's ban are queries one after the other, each of its own.   *)
(* So is the join of routes/auth.ts: whoever registers or logs in becomes  *)
(* a member of the default server, whose bans are not looked at.           *)
(*                                                                         *)
(* Postgres at READ COMMITTED.  The SELECT ... FOR UPDATE of an accept     *)
(* locks the invite's row, then the server's.  An INSERT that references   *)
(* the server takes a share of its row until its transaction ends; DELETE  *)
(* FROM servers locks the row and then, cascading, the rows of its         *)
(* invites.  Postgres aborts one of the transactions of a deadlock.        *)
(*                                                                         *)
(* Who may kick and ban is left to the caller: some user always may (the   *)
(* owner), so a target is all a request is known by.  The roles of the     *)
(* members are left out (Roles.tla); the query that deletes them is a step *)
(* here, for what other handlers do before it.                             *)
(***************************************************************************)
EXTENDS Integers, FiniteSets

CONSTANTS Users, Owner,
          Default,   \* the server is the one that logging in joins
          Codes,     \* invite codes; a code is never drawn twice
          Reqs,      \* handlers that may be running at once
          NoCode,    \* the code of a request without one
          NoReq,     \* nobody, as the holder of a lock
          MaxMax,    \* bound: the greatest max_uses asked for
          MaxUses    \* bound: how often one invite is used

ASSUME OwnerAssumption == Owner \in Users
ASSUME DefaultAssumption == Default \in BOOLEAN
ASSUME NoCodeAssumption == NoCode \notin Codes
ASSUME NoReqAssumption == NoReq \notin Reqs
ASSUME MaxAssumption == MaxMax \in Nat /\ MaxUses \in Nat

VARIABLES alive,      \* the row of servers exists
          members,    \* server_members
          bans,       \* server_bans
          invites,    \* [Codes -> row]; max 0 is NULL, no limit
          inviteLock, \* inviteLock[c]: who holds the row of invite c
          serverLock, \* who holds the server's row FOR UPDATE, or deletes it
          serverShare,\* who holds a share of it
          req,        \* req[r]: handler r; user is the one it joins, bans, ...
          raced,      \* history: members since they joined within the owner's ban of them
          entered     \* history: members since a login, though banned or being banned

tables == <<alive, members, bans, invites>>
locks == <<inviteLock, serverLock, serverShare>>
history == <<raced, entered>>
vars == <<tables, locks, req, history>>

(* What runs, and the step it is about to take. *)
Kinds == {"accept", "leave", "kick", "ban", "txBan", "mint", "delete", "login"}
Steps == {"invite", "server", "check", "join", "member", "roles", "members", "invites",
          "ban", "insert", "remove", "commit", "drop", "cascade", "enter"}

Running == [kind : Kinds, next : Steps, user : Users, code : Codes \union {NoCode}]
Idle == [kind |-> "idle", next |-> "idle"]

Invite == [state : {"none", "live", "expired"}, max : 0..MaxMax, uses : Nat]

TypeOK == /\ alive \in BOOLEAN
          /\ members \in SUBSET Users
          /\ bans \in SUBSET Users
          /\ invites \in [Codes -> Invite]
          /\ inviteLock \in [Codes -> Reqs \union {NoReq}]
          /\ serverLock \in Reqs \union {NoReq}
          /\ serverShare \in SUBSET Reqs
          /\ req \in [Reqs -> Running \union {Idle}]
          /\ raced \in SUBSET Users
          /\ entered \in SUBSET Users

(* After POST /api/servers. *)
NoInvite == [state |-> "none", max |-> 0, uses |-> 0]

Init == /\ alive = TRUE
        /\ members = {Owner}
        /\ bans = {}
        /\ invites = [c \in Codes |-> NoInvite]
        /\ inviteLock = [c \in Codes |-> NoReq]
        /\ serverLock = NoReq
        /\ serverShare = {}
        /\ req = [r \in Reqs |-> Idle]
        /\ raced = {}
        /\ entered = {}
-----------------------------------------------------------------------------
(* Helpers. *)

At(r, kind, next) == req[r].kind = kind /\ req[r].next = next
Start(r, kind, next, u, c) ==
    /\ req[r] = Idle
    /\ req' = [req EXCEPT ![r] = [kind |-> kind, next |-> next, user |-> u, code |-> c]]
Goto(r, next) == req' = [req EXCEPT ![r].next = next]
End(r) == req' = [req EXCEPT ![r] = Idle]

(* The end of r's transaction: COMMIT or ROLLBACK. *)
Release(r) ==
    /\ inviteLock' = [c \in Codes |-> IF inviteLock[c] = r THEN NoReq ELSE inviteLock[c]]
    /\ serverLock' = IF serverLock = r THEN NoReq ELSE serverLock
    /\ serverShare' = serverShare \ {r}

(* An INSERT that references the server: its row must be there, unlocked. *)
MayReference == alive /\ serverLock = NoReq

(* The owner's ban of u is between its DELETE and its INSERT. *)
OwnerBans(u) == \E s \in Reqs : (At(s, "ban", "roles") \/ At(s, "ban", "ban")) /\ req[s].user = u

(* A transaction of /bans has deleted the row of u, or found none. *)
Removing(u) == \E s \in Reqs : At(s, "txBan", "remove") /\ req[s].user = u
Barring(u) == \E s \in Reqs : At(s, "txBan", "commit") /\ req[s].user = u

(* The history of u as a member ends. *)
Forget(u) == raced' = raced \ {u} /\ entered' = entered \ {u}
-----------------------------------------------------------------------------
(* POST /api/invites/:code/accept *)

Accepting(c) == {r \in Reqs : req[r].kind = "accept" /\ req[r].code = c}

AcceptStart(r, u, c) == /\ Start(r, "accept", "invite", u, c)
                        /\ invites[c].state # "none"
                        /\ invites[c].uses + Cardinality(Accepting(c)) < MaxUses
                        /\ UNCHANGED <<tables, locks, history>>

(* Slip: FOR UPDATE is left out. *)
Bug_AcceptInvite(r) == /\ At(r, "accept", "invite")
                       /\ alive
                       /\ Goto(r, "check")
                       /\ UNCHANGED <<tables, locks, history>>

(* The invite's row is locked; a row that a delete took meanwhile is gone. *)
AcceptInvite(r) == LET c == req[r].code IN
                   /\ At(r, "accept", "invite")
                   /\ inviteLock[c] = NoReq
                   /\ IF alive THEN /\ inviteLock' = [inviteLock EXCEPT ![c] = r]
                                    /\ Goto(r, "server")
                               ELSE End(r) /\ UNCHANGED inviteLock
                   /\ UNCHANGED <<tables, serverLock, serverShare, history>>

(* Slip: FOR UPDATE OF i, the server's row is not locked. *)
Bug_AcceptServer(r) == /\ At(r, "accept", "server")
                       /\ Goto(r, "check")
                       /\ UNCHANGED <<tables, locks, history>>

AcceptServer(r) == /\ At(r, "accept", "server")
                   /\ serverLock = NoReq
                   /\ serverShare = {}
                   /\ serverLock' = r
                   /\ Goto(r, "check")
                   /\ UNCHANGED <<tables, inviteLock, serverShare, history>>

(* Slip: the ban is not looked up. *)
Bug_AcceptCheck(r) == LET i == invites[req[r].code] IN
                      /\ At(r, "accept", "check")
                      /\ IF /\ i.state = "live"
                            /\ i.max > 0 => i.uses < i.max
                            /\ req[r].user \notin members
                         THEN Goto(r, "join") /\ UNCHANGED locks
                         ELSE End(r) /\ Release(r)
                      /\ UNCHANGED <<tables, history>>

(* Expired, used up, banned: ROLLBACK; a member already: COMMIT. *)
AcceptCheck(r) == LET i == invites[req[r].code] IN
                  /\ At(r, "accept", "check")
                  /\ IF /\ i.state = "live"
                        /\ i.max > 0 => i.uses < i.max
                        /\ req[r].user \notin bans \union members
                     THEN Goto(r, "join") /\ UNCHANGED locks
                     ELSE End(r) /\ Release(r)
                  /\ UNCHANGED <<tables, history>>

(* Slip: uses is taken for what is left. *)
Bug_AcceptJoin(r) == /\ At(r, "accept", "join")
                     /\ members' = members \union {req[r].user}
                     /\ invites' = [invites EXCEPT ![req[r].code].uses = @ - 1]
                     /\ End(r)
                     /\ Release(r)
                     /\ UNCHANGED <<alive, bans, history>>

(* The INSERTs, uses + 1 and COMMIT. *)
AcceptJoin(r) ==
    LET u == req[r].user IN
    /\ At(r, "accept", "join")
    /\ members' = members \union {u}
    /\ invites' = [invites EXCEPT ![req[r].code].uses = @ + 1]
    /\ raced' = IF u \notin bans /\ OwnerBans(u) THEN raced \union {u} ELSE raced
    /\ End(r)
    /\ Release(r)
    /\ UNCHANGED <<alive, bans, entered>>
-----------------------------------------------------------------------------
(* POST /api/auth/register, /login and a first /shoo:                       *)
(* ensureDefaultServerMembership.                                          *)

(* The SELECTs of the default server and of its role "Member". *)
LoginStart(r, u) == /\ Default
                    /\ alive
                    /\ Start(r, "login", "enter", u, NoCode)
                    /\ UNCHANGED <<tables, locks, history>>

(* INSERT INTO server_members ... ON CONFLICT DO NOTHING, without a look at *)
(* server_bans.  It waits for a transaction that is deleting that row.  A  *)
(* server that is gone is a foreign key violation, which is only logged.   *)
LoginInsert(r) ==
    LET u == req[r].user
        new == {v \in {u} : alive /\ u \notin members}
    IN  /\ At(r, "login", "enter")
        /\ alive => MayReference
        /\ ~Removing(u)
        /\ members' = members \union new
        /\ raced' = raced \union {v \in new : v \notin bans /\ OwnerBans(v)}
        /\ entered' = entered \union {v \in new : v \in bans \/ Barring(v)}
        /\ End(r)
        /\ UNCHANGED <<alive, bans, invites, locks>>
-----------------------------------------------------------------------------
(* The statements that leaving, kicking and banning share. *)

DeleteMember(r) == /\ req[r].kind \in {"leave", "kick", "ban"}
                   /\ req[r].next = "member"
                   /\ ~Removing(req[r].user)
                   /\ members' = members \ {req[r].user}
                   /\ Forget(req[r].user)
                   /\ Goto(r, "roles")
                   /\ UNCHANGED <<alive, bans, invites, locks>>

(* A kick ends here. *)
DeleteRoles(r) ==
    /\ req[r].kind \in {"leave", "kick", "ban"}
    /\ req[r].next = "roles"
    /\ CASE req[r].kind = "leave" -> Goto(r, "members")
         [] req[r].kind = "ban"   -> Goto(r, "ban")
         [] req[r].kind = "kick"  -> End(r)
    /\ UNCHANGED <<tables, locks, history>>

(* DELETE /api/servers/:id/members/me: the owner only as the last member. *)
LeaveStart(r, u) == /\ u = Owner => Cardinality(members) <= 1
                    /\ alive
                    /\ Start(r, "leave", "member", u, NoCode)
                    /\ UNCHANGED <<tables, locks, history>>

(* Check emptiness: two counts, and the server is deleted if both are 0. *)
CountMembers(r) == /\ At(r, "leave", "members")
                   /\ IF members = {} THEN Goto(r, "invites") ELSE End(r)
                   /\ UNCHANGED <<tables, locks, history>>

CountInvites(r) == /\ At(r, "leave", "invites")
                   /\ IF alive /\ \E c \in Codes : invites[c].state = "live"
                      THEN End(r) ELSE Goto(r, "drop")
                   /\ UNCHANGED <<tables, locks, history>>

(* DELETE /api/servers/:id, of the owner. *)
DeleteStart(r) == /\ alive
                  /\ Start(r, "delete", "drop", Owner, NoCode)
                  /\ UNCHANGED <<tables, locks, history>>

(* DELETE FROM servers: its row ... *)
Drop(r) == /\ req[r].next = "drop"
           /\ serverLock = NoReq
           /\ serverShare = {}
           /\ IF alive THEN serverLock' = r /\ Goto(r, "cascade")
                       ELSE End(r) /\ UNCHANGED serverLock
           /\ UNCHANGED <<tables, inviteLock, serverShare, history>>

(* ... and then every row that references it. *)
Cascade(r) == /\ req[r].next = "cascade"
              /\ \A c \in Codes : inviteLock[c] = NoReq
              /\ alive' = FALSE
              /\ members' = {}
              /\ bans' = {}
              /\ raced' = {}
              /\ entered' = {}
              /\ End(r)
              /\ Release(r)
              /\ UNCHANGED invites
-----------------------------------------------------------------------------
(* Kicks, bans and invites. *)

(* Both kick routes; only the one of the members list spares the owner. *)
KickStart(r, u) == /\ alive
                   /\ Start(r, "kick", "member", u, NoCode)
                   /\ UNCHANGED <<tables, locks, history>>

(* POST .../members/:userId/ban, of the owner. *)
BanStart(r, u) == /\ alive
                  /\ Start(r, "ban", "member", u, NoCode)
                  /\ UNCHANGED <<tables, locks, history>>

(* A server that is gone meanwhile is a foreign key violation. *)
BanInsert(r) == /\ At(r, "ban", "ban")
                /\ alive => MayReference
                /\ ~Removing(req[r].user) /\ ~Barring(req[r].user)
                /\ bans' = IF alive THEN bans \union {req[r].user} ELSE bans
                /\ End(r)
                /\ UNCHANGED <<alive, members, invites, locks, history>>

(* POST /api/servers/:id/bans: a transaction.  "Cannot ban owner" compares   *)
(* strings: the owner's id in another spelling passes.                     *)
TxBanStart(r, u) == /\ alive
                    /\ Start(r, "txBan", "insert", u, NoCode)
                    /\ UNCHANGED <<tables, locks, history>>

(* INSERT INTO server_bans and the DELETEs.  It waits for what another      *)
(* /bans has done about u and not committed.                               *)
TxBanInsert(r) ==
    LET u == req[r].user IN
    /\ At(r, "txBan", "insert")
    /\ alive => MayReference
    /\ ~Removing(u) /\ (u \notin bans => ~Barring(u))
    /\ IF alive THEN /\ serverShare' = serverShare \union {r}
                     /\ Goto(r, IF u \in members THEN "remove" ELSE "commit")
                ELSE End(r) /\ UNCHANGED serverShare
    /\ UNCHANGED <<tables, inviteLock, serverLock, history>>

(* COMMIT of what the DELETE found: a row, or none. *)
TxBanCommit(r) == LET u == req[r].user IN
                  /\ At(r, "txBan", "remove") \/ At(r, "txBan", "commit")
                  /\ bans' = bans \union {u}
                  /\ IF At(r, "txBan", "remove")
                     THEN members' = members \ {u} /\ Forget(u)
                     ELSE UNCHANGED <<members, raced, entered>>
                  /\ End(r)
                  /\ Release(r)
                  /\ UNCHANGED <<alive, invites>>

(* POST /api/servers/:id/invites: the membership is looked up first. *)
MintStart(r, u, c) == /\ u \in members
                      /\ invites[c].state = "none"
                      /\ \A s \in Reqs : ~(req[s].kind = "mint" /\ req[s].code = c)
                      /\ Start(r, "mint", "insert", u, c)
                      /\ UNCHANGED <<tables, locks, history>>

MintInsert(r) == /\ At(r, "mint", "insert")
                 /\ alive => MayReference
                 /\ IF alive
                    THEN \E m \in 0..MaxMax :
                           invites' = [invites EXCEPT ![req[r].code] =
                                         [state |-> "live", max |-> m, uses |-> 0]]
                    ELSE UNCHANGED invites
                 /\ End(r)
                 /\ UNCHANGED <<alive, members, bans, locks, history>>

(* expires_at passes. *)
Expire(c) == /\ invites[c].state = "live"
             /\ invites' = [invites EXCEPT ![c].state = "expired"]
             /\ UNCHANGED <<alive, members, bans, locks, req, history>>
-----------------------------------------------------------------------------
(* Failures. *)

(* Slip: the transaction is neither rolled back nor its client destroyed. *)
Bug_Fail(r) == /\ req[r] # Idle
               /\ End(r)
               /\ UNCHANGED <<tables, locks, history>>

(* An await throws: what was committed stays, a transaction is undone. *)
Fail(r) == /\ req[r] # Idle
           /\ End(r)
           /\ Release(r)
           /\ UNCHANGED <<tables, history>>

(* An accept that holds an invite waits for the server's row, and a DELETE *)
(* that holds this row waits for the invite: Postgres aborts one of them.  *)
Deadlocked(r, s) == /\ At(r, "accept", "server")
                    /\ req[s].next = "cascade"
                    /\ serverLock = s

DeadlockAbort(r) == /\ \E s \in Reqs : Deadlocked(r, s) \/ Deadlocked(s, r)
                    /\ End(r)
                    /\ Release(r)
                    /\ UNCHANGED <<tables, history>>

(* The backend stops and starts. *)
Restart == /\ req' = [r \in Reqs |-> Idle]
           /\ inviteLock' = [c \in Codes |-> NoReq]
           /\ serverLock' = NoReq
           /\ serverShare' = {}
           /\ UNCHANGED <<tables, history>>

Step(r) == \/ AcceptInvite(r) \/ AcceptServer(r) \/ AcceptCheck(r) \/ AcceptJoin(r)
           \/ DeleteMember(r) \/ DeleteRoles(r) \/ CountMembers(r) \/ CountInvites(r)
           \/ Drop(r) \/ Cascade(r)
           \/ BanInsert(r) \/ TxBanInsert(r) \/ TxBanCommit(r)
           \/ MintInsert(r) \/ LoginInsert(r)

Next == \/ \E r \in Reqs, u \in Users, c \in Codes : AcceptStart(r, u, c) \/ MintStart(r, u, c)
        \/ \E r \in Reqs, u \in Users :
             \/ LeaveStart(r, u) \/ KickStart(r, u) \/ BanStart(r, u) \/ TxBanStart(r, u)
             \/ LoginStart(r, u)
        \/ \E r \in Reqs : Step(r) \/ DeleteStart(r) \/ Fail(r) \/ DeadlockAbort(r)
        \/ \E c \in Codes : Expire(c)
        \/ Restart

Spec == Init /\ [][Next]_vars

(***************************************************************************)
(* Fairness.  Postgres grants row locks in the order of the waiters, so a  *)
(* statement that can go on again and again does: strong fairness.  Its    *)
(* deadlock detector runs.                                                 *)
(***************************************************************************)
Fairness == \A r \in Reqs : SF_vars(Step(r)) /\ WF_vars(DeadlockAbort(r))

FairSpec == Spec /\ Fairness
-----------------------------------------------------------------------------
(* An invite lets in at most max_uses users, however many accept it at      *)
(* once (the FOR UPDATE of servers.ts:349).                                 *)
UsesWithinMax == \A c \in Codes :
                    invites[c].max > 0 => invites[c].uses <= invites[c].max

(* Whoever is banned is out for good: neither an accept that was running    *)
(* nor a later one makes them a member.  But the owner's ban route deletes  *)
(* before it bans, without a transaction, so whoever joins in between is a  *)
(* banned member; and so is who logs in to the default server since, or     *)
(* just before the COMMIT of /bans.                                         *)
BannedMembersRaced == bans \intersect members \subseteq raced \union entered

(* Logging in is all that gets a banned user past a ban: elsewhere nobody   *)
(* enters that way.                                                         *)
OnlyByLogin == ~Default => entered = {}

(* Both routes' bans: whoever is banned is out, but for that window and     *)
(* for who logs in to the default server.                                   *)
BansHold == BannedMembersRaced /\ OnlyByLogin

(* Nobody who is banned becomes a member, by either route's ban, unless     *)
(* they log in.                                                             *)
NoBannedJoin == [][\A u \in bans : u \in members' \ members =>
                      \E r \in Reqs : LoginInsert(r) /\ req[r].user = u]_vars

(* What refers to a deleted server is gone with it, and stays gone while    *)
(* the handlers that had found it go on.                                    *)
NothingAfterDelete == ~alive => members \union bans = {}

(* Every request ends, the deadlocks of accept and delete included. *)
RequestsEnd == \A r \in Reqs : req[r] # Idle ~> req[r] = Idle
-----------------------------------------------------------------------------
(* What the repository says and the code does not do. *)

(* servers.ts:234 "Check emptiness": leaving deletes the server only if it  *)
(* has no member left.                                                      *)
LeaveDeletesOnlyEmpty ==
    [][\A r \in Reqs : Cascade(r) /\ req[r].kind = "leave" => members = {}]_vars
=============================================================================
