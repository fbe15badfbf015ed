------------------------------ MODULE RustAccounts ------------------------------
(***************************************************************************)
(* Accounts with the Rust port beside it: rust-backend/api/src/main.rs     *)
(* signs people in on the same table.  Its sign-in with Shoo and its login *)
(* take the steps of auth.ts; registration goes on where its lookup fails, *)
(* and a new username is not looked for before it is set.                  *)
(***************************************************************************)
EXTENDS Accounts

(* auth_shoo, and find_or_create_shoo_user: every query's error ends it. *)
auth_shoo(r) == \E s \in Subs, e \in AnyEmail : ShooStart(r, s, e)

(* The discriminator is drawn beside it, and decides nothing. *)
ensure_unique_username(r) == PickName(r)

find_or_create_shoo_user(r) ==
    /\ req[r].kind = "shoo"
    /\ LookupSub(r) \/ LookupEmail(r) \/ Link(r) \/ ensure_unique_username(r) \/ Insert(r)

(* Its errors are dropped: who signs in does so, a member or not. *)
ensure_default_server_membership(r) == DefaultMembership(r) \/ (At(r, "default") /\ Fail(r))

auth_login(r) == \E x \in Rows : Login(r, x)

(* The lookup fails: matches!(exists, Ok(Some(_))) does not hold, so the   *)
(* account is inserted, whether or not the email is there.                 *)
ExistsFails(r) == /\ At(r, "exists")
                  /\ Goto(r, "insert")
                  /\ raced' = raced \union {req[r].email}
                  /\ UNCHANGED <<users, members, creator, taken>>

auth_register(r) ==
    \/ \E n \in Names, e \in Emails :
         /\ Start(r, [Idle EXCEPT !.kind = "rust register", !.next = "exists",
                                  !.name = n, !.email = e])
         /\ UNCHANGED <<users, members, history>>
    \/ /\ req[r].kind = "rust register"
       /\ Exists(r) \/ ExistsFails(r) \/ Insert(r)

(* update_profile: one UPDATE, which fails where the name is another's. *)
update_profile(x, n) == /\ x \in Live
                        /\ WithName(n) \subseteq {x}
                        /\ users' = [users EXCEPT ![x].name = n]
                        /\ UNCHANGED <<members, req, history>>

(* The steps of either service, the port's own, and the backend's. *)
BothNext ==
    \/ \E r \in Reqs :
         \/ auth_shoo(r) \/ find_or_create_shoo_user(r) \/ auth_login(r)
         \/ ensure_default_server_membership(r) \/ auth_register(r) \/ Fail(r)
         \/ \E n \in Names, e \in Emails : RegisterStart(r, n, e)
         \/ req[r].kind = "register" /\ (Exists(r) \/ Insert(r))
         \/ \E x \in Rows, n \in Names : RenameStart(r, x, n)
         \/ Rename(r)
    \/ \E x \in Rows, n \in Names : update_profile(x, n)

BothSpec == Init /\ [][BothNext]_vars
=============================================================================
