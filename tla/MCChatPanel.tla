---------------------------- MODULE MCChatPanel ----------------------------
(* The chat panel on small sets, for TLC. *)
EXTENDS ChatPanel, TLC

CONSTANTS c1, c2, p1, p2, a

TwoChannels == {c1, c2}
TwoPosts == {p1, p2}
OneText == {a}

Symmetry == Permutations(TwoPosts)
=============================================================================
