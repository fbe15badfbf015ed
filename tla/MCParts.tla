------------------------------ MODULE MCParts ------------------------------
(* The parts on small sets, for TLC. *)
EXTENDS Parts, TLC

CONSTANTS a1, a2,        \* sockets, requests, notifications, objects, users of a tab
          b1, b2,        \* channels, members, subjects, cleanups, writes
          owner, user,
          ro, rm, r1, r2,\* roles
          manage, other, \* flags
          f1,            \* a fetch, a check, an argument of a call
          x1, x2, nm1, nm2, e1  \* accounts

TwoAs == {a1, a2}
TwoBs == {b1, b2}
ServerRoles == {ro, rm, r1}
TwoFlags == {manage, other}
OwnerAndUser == {owner, user}
ChannelRoles == {r1, r2}
AdminRoles == {r1}
MigratedRoles == {b1, b2, r1}
OneFetch == {f1}
TwoRows == {x1, x2}
TwoNames == {nm1, nm2}
OneEmail == {e1}
FourCalls == {"getRoles", "messages", "socketInfo", "createRole"}

(* The parts never meet, so they may share names: in each of them, those of *)
(* a pair are interchangeable.                                             *)
Symmetry == Permutations(TwoAs) \union Permutations(TwoBs)

(* The server is created without a failure, the channel open or with one    *)
(* role that may view it; the server of an older version has one role, which *)
(* its owner has, and a member without one.                                *)
MCInit == /\ PartsInit
          /\ rHeld[owner] = {ro}
          /\ aPerms \in {{}, {[role |-> r2, view |-> TRUE, send |-> FALSE]}}
          /\ part # "access" => aPerms = {}
          /\ mMade = "yes" => /\ mNames = [x \in mRoleIds |-> IF x = r1 THEN "other" ELSE "free"]
                              /\ mFirst = [u \in mUsers |-> IF u = owner THEN r1 ELSE mNone]
          /\ part # "migration" => mMade = "no"

MCSpec == MCInit /\ [][PartsNext]_partVars
=============================================================================
