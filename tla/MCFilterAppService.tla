------------------------- MODULE MCFilterAppService -------------------------
(* FilterAppService for TLC.                                               *)
EXTENDS FilterAppService, TLC

\* The keys fall into one of two shards, so that late answers can fill it;
\* the other stays empty, so that the clearing of the shards takes two steps.
FirstShard == [k \in Keys |-> 1]

Symmetry == Permutations(Instances) \cup Permutations(Slots)
=============================================================================
