---------------------------- MODULE FreshAnswers ----------------------------
(***************************************************************************)
(* What the filter service of one process promises, without caches, cache  *)
(* keys, versions or rebuilds: the lexicon it has announced only moves     *)
(* forward, and every answer belongs to a generation between the one       *)
(* announced when the question was asked and the newest one in the         *)
(* database.                                                               *)
(***************************************************************************)
EXTENDS Naturals

CONSTANTS Slots, LexLimit

VARIABLES
  newest,      \* generation of the words in the database
  announced,   \* generation the service has announced; 0 while it is down
  question     \* what is going on in each slot

vars == <<newest, announced, question>>

Quiet == [at |-> "quiet"]

Init ==
  /\ newest = 0 /\ announced = 0
  /\ question = [n \in Slots |-> Quiet]

Change ==
  /\ newest < LexLimit
  /\ newest' = newest + 1
  /\ UNCHANGED <<announced, question>>

Announce ==
  /\ announced' \in announced..newest
  /\ UNCHANGED <<newest, question>>

Ask(n) ==
  /\ question[n] = Quiet
  /\ question' = [question EXCEPT ![n] = [at |-> "asked", floor |-> announced]]
  /\ UNCHANGED <<newest, announced>>

Reply(n) ==
  /\ question[n].at = "asked"
  /\ \E lex \in question[n].floor..newest :
       question' = [question EXCEPT ![n] = [at |-> "answered", lex |-> lex]]
  /\ UNCHANGED <<newest, announced>>

Done(n) ==
  /\ question[n].at = "answered"
  /\ question' = [question EXCEPT ![n] = Quiet]
  /\ UNCHANGED <<newest, announced>>

End ==
  /\ announced' = 0
  /\ question' = [n \in Slots |-> Quiet]
  /\ UNCHANGED newest

Next ==
  \/ Change \/ Announce \/ End
  \/ \E n \in Slots : Ask(n) \/ Reply(n) \/ Done(n)

Spec == Init /\ [][Next]_vars
=============================================================================
