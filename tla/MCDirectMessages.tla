-------------------------- MODULE MCDirectMessages --------------------------
(* POST /api/dms on small sets, for TLC. *)
EXTENDS DirectMessages, TLC

CONSTANTS u1, u2, printed, other, r1, r2, r3, i1, i2, i3

TwoUsers == {u1, u2}
(* u2's id in a second spelling *)
ThreeTexts == {[user |-> u1, as |-> printed], [user |-> u2, as |-> printed],
               [user |-> u2, as |-> other]}
ThreeReqs == {r1, r2, r3}
ThreeIds == {i1, i2, i3}
=============================================================================
