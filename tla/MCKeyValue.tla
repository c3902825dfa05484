------------------------------ MODULE MCKeyValue ------------------------------
(* KeyValue with three keys and two values, for TLC. *)
EXTENDS KeyValue

CONSTANTS n1, n2, n3, v1, v2

ThreeKeys  == 1 .. 3
TwoValues  == {v1, v2}
ThreeNodes == {n1, n2, n3}
==============================================================================
