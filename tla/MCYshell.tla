------------------------------ MODULE MCYshell ------------------------------
\* Two names, paths of one and two parts, and texts of 0 and 100000 characters.
EXTENDS Yshell, TLC

CONSTANTS a, b
TwoNames == {a, b}
Short == [1 .. 1 -> TwoNames \union Dots] \union [1 .. 2 -> TwoNames \union Dots]
FewTexts == {<<>>, <<1, 99998>>}
Symmetry == Permutations(TwoNames)
==============================================================================
