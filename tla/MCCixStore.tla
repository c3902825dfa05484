----------------------------- MODULE MCCixStore -----------------------------
(* CixStore with a few children, names and files, for TLC. *)
EXTENDS CixStore, TLC

CONSTANTS c1, c2, n1, n2, i1, i2, i3, i4, s1, s2, s3

TwoChildren   == {c1, c2}
OneName       == {n1}
TwoNames      == {n1, n2}
ThreeInodes   == {i1, i2, i3}
FourInodes    == {i1, i2, i3, i4}
TwoSources    == {s1, s2}
ThreeSources  == {s1, s2, s3}

\* One file takes up to two writes, one takes one, and one is empty.
Sizes == [s \in Sources |-> IF s = s1 THEN 2 ELSE IF s = s2 THEN 1 ELSE 0]

Symmetry == Permutations(Children) \union Permutations(Inodes) \union Permutations(Names)
==============================================================================
