------------------------ MODULE MCRustDirectMessages ------------------------
(* create_dm of the Rust port on small sets, for TLC. *)
EXTENDS RustDirectMessages

CONSTANTS u1, u2, r1, r2, i1, i2, i3

TwoUsers == {u1, u2}
TwoReqs == {r1, r2}
ThreeIds == {i1, i2, i3}
=============================================================================
