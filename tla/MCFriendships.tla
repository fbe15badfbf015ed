--------------------------- MODULE MCFriendships ---------------------------
(* The friend routes on small sets, for TLC. *)
EXTENDS RustFriendships, TLC

CONSTANTS u1, u2, u3, r1, r2, r3

TwoUsers == {u1, u2}
ThreeUsers == {u1, u2, u3}
TwoReqs == {r1, r2}
ThreeReqs == {r1, r2, r3}

(* Handlers are interchangeable, and so are users. *)
Symmetry == Permutations(Reqs) \union Permutations(Users)
=============================================================================
