-------------------------------- MODULE MCYdc --------------------------------
(* Ydc with a few numbers, for TLC. *)
EXTENDS Ydc

Pos(digits) == [neg |-> FALSE, mag |-> digits]
Neg(digits) == [neg |-> TRUE, mag |-> digits]

\* 0, 3, 8, 96, 008, -13 and a minus sign alone.
SomeNumbers ==
  {Pos(<<0>>), Pos(<<3>>), Pos(<<8>>), Pos(<<6, 9>>), Pos(<<8, 0, 0>>), Neg(<<3, 1>>), Neg(<<>>)}

\* 3, 96 and -13.
ThreeNumbers == {Pos(<<3>>), Pos(<<6, 9>>), Neg(<<3, 1>>)}
==============================================================================
