------------------------------- MODULE MCCixd -------------------------------
(* Cixd on three connections, for TLC. *)
EXTENDS Cixd

CONSTANTS c1, c2, c3

ThreeConns == {c1, c2, c3}
==============================================================================
