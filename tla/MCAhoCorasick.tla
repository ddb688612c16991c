--------------------------- MODULE MCAhoCorasick ---------------------------
(* AhoCorasick for TLC: every automaton of at most MaxWords words of up to  *)
(* three runes over two runes, and every text of five.                      *)
EXTENDS AhoCorasick

TwoRunes == {1, 2}
ShortWords == UNION {[1..k -> TwoRunes] : k \in 0..3}
FiveRunes == [1..5 -> TwoRunes]
=============================================================================
