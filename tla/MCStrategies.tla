---------------------------- MODULE MCStrategies ----------------------------
(* Strategies for TLC: two letters, one of them also in a form that is      *)
(* folded to it, a zero-width rune and a ligature of both letters.          *)
EXTENDS Strategies

FiveRunes == 1..5
Forms == << <<1>>, <<2>>, <<1>>, <<>>, <<1, 2>> >>
FourLong == [1..4 -> FiveRunes]

\* Words that overlap each other and themselves, nest and adjoin
NestedWords == {<<1>>, <<1, 2>>, <<2, 1>>, <<1, 2, 1>>, <<2, 2>>}
UpToTwo == {W \in SUBSET NestedWords : Cardinality(W) \in 1..2}
=============================================================================
