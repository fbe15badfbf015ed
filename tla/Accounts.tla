------------------------------ MODULE Accounts ------------------------------
(***************************************************************************)
(* backend/src/routes/auth.ts: sign-in with Shoo, registration and login,  *)
(* and the change of one's username in users.ts.  Each looks users up and  *)
(* writes in queries of its own.  The table has unique usernames and       *)
(* unique subjects of Shoo, but not unique emails; since usernames are     *)
(* unique, the discriminators that are drawn beside them decide nothing.   *)
(***************************************************************************)
EXTENDS Integers, FiniteSets

CONSTANTS Rows,          \* the rows that users may get
          Names, Emails, Subs,
          NoEmail, NoSub,
          Reqs

VARIABLES users,   \* users[x]: row x of users
          members, \* server_members of the default server
          req,     \* req[r]: handler r
          creator, \* history: creator[x]: the subject whose sign-in made row x
          taken,   \* history: rows that another subject was linked to since
          raced    \* history: emails that two handlers found free at once, or one
                   \* did not look for (the Rust port)

AccountsAssumption == NoSub \notin Subs /\ Names # {} /\ Rows # {}

vars == <<users, members, req, creator, taken, raced>>
history == <<creator, taken, raced>>

AnyEmail == Emails \union {NoEmail}
AnySub == Subs \union {NoSub}

User == [live : BOOLEAN, name : Names, email : AnyEmail, sub : AnySub]
Kinds == {"idle", "shoo", "register", "login", "rename", "rust register"}
Steps == {"idle", "sub", "email", "link", "name", "exists", "insert", "default", "update"}

TypeOK == /\ users \in [Rows -> User]
          /\ members \in SUBSET Rows
          /\ req \in [Reqs -> [kind : Kinds, next : Steps, name : Names,
                               email : AnyEmail, sub : AnySub, row : Rows]]
          /\ creator \in [Rows -> AnySub]
          /\ taken \in SUBSET Rows
          /\ raced \in SUBSET Emails

SomeName == CHOOSE n \in Names : TRUE
SomeRow == CHOOSE x \in Rows : TRUE
NoUser == [live |-> FALSE, name |-> SomeName, email |-> NoEmail, sub |-> NoSub]
Idle == [kind |-> "idle", next |-> "idle", name |-> SomeName,
         email |-> NoEmail, sub |-> NoSub, row |-> SomeRow]

Init == /\ users = [x \in Rows |-> NoUser]
        /\ members = {}
        /\ req = [r \in Reqs |-> Idle]
        /\ creator = [x \in Rows |-> NoSub]
        /\ taken = {}
        /\ raced = {}
-----------------------------------------------------------------------------
Live == {x \in Rows : users[x].live}
WithSub(s) == {x \in Live : users[x].sub = s}
WithEmail(e) == {x \in Live : users[x].email = e}
WithName(n) == {x \in Live : users[x].name = n}

At(r, next) == req[r].next = next
Goto(r, next) == req' = [req EXCEPT ![r].next = next]
End(r) == req' = [req EXCEPT ![r] = Idle]
Start(r, h) == req[r] = Idle /\ req' = [req EXCEPT ![r] = h]

(* r has found e free; s has too, and has not inserted yet. *)
Race(r, e) == raced' = IF \E s \in Reqs \ {r} : req[s].email = e /\ req[s].next \in {"name", "insert"}
                       THEN raced \union {e} ELSE raced
-----------------------------------------------------------------------------
(* POST /api/auth/shoo: findOrCreateShooUser *)

ShooStart(r, s, e) ==
    /\ Start(r, [Idle EXCEPT !.kind = "shoo", !.next = "sub", !.sub = s, !.email = e])
    /\ UNCHANGED <<users, members, history>>

(* 1) Primary lookup: the user is known and signed in. *)
LookupSub(r) == /\ At(r, "sub")
                /\ IF WithSub(req[r].sub) # {} THEN End(r)
                   ELSE Goto(r, IF req[r].email = NoEmail THEN "name" ELSE "email")
                /\ UNCHANGED <<users, members, history>>

(* Slip: the account of the same email is not looked for. *)
Bug_LookupEmail(r) == /\ At(r, "email")
                      /\ Goto(r, "name")
                      /\ Race(r, req[r].email)
                      /\ UNCHANGED <<users, members, creator, taken>>

(* 2) Fallback by email, to the first row the query finds ... *)
LookupEmail(r) ==
    LET e == req[r].email IN
    /\ At(r, "email")
    /\ IF WithEmail(e) = {}
       THEN Goto(r, "name") /\ Race(r, e)
       ELSE /\ \E x \in WithEmail(e) : req' = [req EXCEPT ![r].next = "link", ![r].row = x]
            /\ UNCHANGED raced
    /\ UNCHANGED <<users, members, creator, taken>>

(* ... which is linked to the subject, whatever it was linked to; not if   *)
(* the subject has got another row since (a unique index).                 *)
Link(r) ==
    LET s == req[r].sub
        x == req[r].row
    IN
    /\ At(r, "link")
    /\ IF WithSub(s) \subseteq {x}
       THEN /\ users' = [users EXCEPT ![x].sub = s]
            /\ taken' = IF users[x].sub = s THEN taken ELSE taken \union {x}
       ELSE UNCHANGED <<users, taken>>
    /\ End(r)
    /\ UNCHANGED <<members, creator, raced>>

(* ensureUniqueUsername: after fifty tries one that was not looked for. *)
PickName(r) ==
    /\ At(r, "name")
    /\ \E n \in Names : /\ WithName(n) = {} \/ \A k \in Names : WithName(k) # {}
                        /\ req' = [req EXCEPT ![r].next = "insert", ![r].name = n]
    /\ UNCHANGED <<users, members, history>>

(* Slip: no unique index on the subject. *)
Bug_Insert(r) ==
    LET h == req[r] IN
    /\ At(r, "insert")
    /\ IF WithName(h.name) = {}
       THEN \E x \in Rows \ Live :
              /\ users' = [users EXCEPT ![x] = [live |-> TRUE, name |-> h.name,
                                                email |-> h.email, sub |-> h.sub]]
              /\ creator' = [creator EXCEPT ![x] = h.sub]
              /\ req' = [req EXCEPT ![r].next = "default", ![r].row = x]
       ELSE End(r) /\ UNCHANGED <<users, creator>>
    /\ UNCHANGED <<members, taken, raced>>

(* INSERT INTO users, of Shoo and of registration: it fails where the name *)
(* or the subject is there by now.                                         *)
Insert(r) ==
    LET h == req[r] IN
    /\ At(r, "insert")
    /\ IF WithName(h.name) = {} /\ (h.sub = NoSub \/ WithSub(h.sub) = {})
       THEN \E x \in Rows \ Live :
              /\ users' = [users EXCEPT ![x] = [live |-> TRUE, name |-> h.name,
                                                email |-> h.email, sub |-> h.sub]]
              /\ creator' = [creator EXCEPT ![x] = h.sub]
              /\ req' = [req EXCEPT ![r].next = "default", ![r].row = x]
       ELSE End(r) /\ UNCHANGED <<users, creator>>
    /\ UNCHANGED <<members, taken, raced>>

(* ensureDefaultServerMembership: bans are not asked for. *)
DefaultMembership(r) == /\ At(r, "default")
                        /\ members' = members \union {req[r].row}
                        /\ End(r)
                        /\ UNCHANGED <<users, history>>
-----------------------------------------------------------------------------
(* POST /api/auth/register, POST /api/auth/login, PATCH /api/me/profile *)

RegisterStart(r, n, e) ==
    /\ Start(r, [Idle EXCEPT !.kind = "register", !.next = "exists", !.name = n, !.email = e])
    /\ UNCHANGED <<users, members, history>>

(* The name's discriminator was drawn to be free; so the email decides. *)
Exists(r) == /\ At(r, "exists")
             /\ IF WithEmail(req[r].email) # {} THEN End(r) /\ UNCHANGED raced
                ELSE Goto(r, "insert") /\ Race(r, req[r].email)
             /\ UNCHANGED <<users, members, creator, taken>>

(* The password is right. *)
Login(r, x) == /\ x \in Live
               /\ Start(r, [Idle EXCEPT !.kind = "login", !.next = "default", !.row = x])
               /\ UNCHANGED <<users, members, history>>

RenameStart(r, x, n) ==
    /\ x \in Live
    /\ WithName(n) \subseteq {x}
    /\ Start(r, [Idle EXCEPT !.kind = "rename", !.next = "update", !.row = x, !.name = n])
    /\ UNCHANGED <<users, members, history>>

Rename(r) == /\ At(r, "update")
             /\ users' = IF WithName(req[r].name) \subseteq {req[r].row}
                         THEN [users EXCEPT ![req[r].row].name = req[r].name] ELSE users
             /\ End(r)
             /\ UNCHANGED <<members, history>>

(* An await throws; what was done stays. *)
Fail(r) == /\ req[r] # Idle
           /\ End(r)
           /\ UNCHANGED <<users, members, history>>

Next == \E r \in Reqs :
          \/ \E s \in Subs, e \in AnyEmail : ShooStart(r, s, e)
          \/ \E n \in Names, e \in Emails : RegisterStart(r, n, e)
          \/ \E x \in Rows : Login(r, x) \/ \E n \in Names : RenameStart(r, x, n)
          \/ LookupSub(r) \/ LookupEmail(r) \/ Link(r) \/ PickName(r) \/ Insert(r)
          \/ DefaultMembership(r) \/ Exists(r) \/ Rename(r) \/ Fail(r)

Spec == Init /\ [][Next]_vars
-----------------------------------------------------------------------------
(* A subject has one account, however many first sign-ins of it run at     *)
(* once: of the rows its sign-ins made there is one, not counting those    *)
(* that an equal email has handed to another subject since.                *)
OneAccountPerSub ==
    \A s \in Subs, x, y \in Rows \ taken : creator[x] = s /\ creator[y] = s => x = y

(* Two accounts share an email only if two handlers found it free at once, *)
(* or the Rust port's lookup of it failed.                                 *)
SharedEmailsRaced ==
    \A x, y \in Live : users[x].email = users[y].email /\ users[x].email # NoEmail
                       => x = y \/ users[x].email \in raced

SignIns == OneAccountPerSub /\ SharedEmailsRaced
=============================================================================
