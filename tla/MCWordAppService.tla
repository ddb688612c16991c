-------------------------- MODULE MCWordAppService --------------------------
(* WordAppService for TLC: the table holds an active and an inactive word   *)
(* at first, or two active ones.                                            *)
EXTENDS WordAppService, TLC

Row(n, t, s) == [id |-> n, text |-> t, meta |-> "m1", status |-> s, upd |-> 0]
OneActive == {Row(1, "t1", WordStatusActive), Row(2, "t2", WordStatusInactive)}
TwoActive == {Row(1, "t1", WordStatusActive), Row(2, "t2", WordStatusActive)}

Symmetry == Permutations(Handlers)
=============================================================================
