----------------------------- MODULE MCMessages -----------------------------
(* The messages of a channel, with both backends, on small sets, for TLC. *)
EXTENDS RustMessages, TLC

CONSTANTS u1, u2, a, b, r1, r2, r3

TwoUsers == {u1, u2}
TwoTexts == {a, b}
ThreeReqs == {r1, r2, r3}

(* Handlers, users and texts are interchangeable. *)
Symmetry == Permutations(Reqs) \union Permutations(Users) \union Permutations(Texts)
=============================================================================
