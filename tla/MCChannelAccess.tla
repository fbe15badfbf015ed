-------------------------- MODULE MCChannelAccess --------------------------
(* The permissions of one channel and two saves of them, for TLC. *)
EXTENDS ChannelAccess

CONSTANTS owner, r1, r2
=============================================================================
