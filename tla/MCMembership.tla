---------------------------- MODULE MCMembership ----------------------------
(* The membership of one server on small sets, for TLC. *)
EXTENDS Membership, TLC

CONSTANTS owner, u1, u2, k1, k2, r1, r2, r3

TwoUsers == {owner, u1}
ThreeUsers == {owner, u1, u2}
OneCode == {k1}
TwoCodes == {k1, k2}
TwoReqs == {r1, r2}
ThreeReqs == {r1, r2, r3}

(* Handlers, codes and users but the owner are interchangeable. *)
Symmetry == Permutations(Reqs) \union Permutations(Codes) \union Permutations(Users \ {owner})
=============================================================================
