---------------------------- MODULE MCRealtime ----------------------------
(* The realtime service on small sets, for TLC. *)
EXTENDS Realtime

CONSTANTS w1, w2, c1, c2

TwoSockets == {w1, w2}
TwoChannels == {c1, c2}
=============================================================================
