------------------------------ MODULE BatchSpec ------------------------------
(***************************************************************************)
(* What BatchDetect promises its caller: one answer, given in one step.     *)
(* There are no workers, no channel and no partial results.                *)
(***************************************************************************)
EXTENDS Naturals, FiniteSets

CONSTANT N   \* number of texts

VARIABLES
  answer,    \* "pending", "ok" or "error"
  slots,     \* the results of the answer
  hits,      \* HitNum of the answer
  gone       \* the client has cancelled the request

vars == <<answer, slots, hits, gone>>

Init ==
  /\ answer = IF N = 0 THEN "ok" ELSE "pending"
  /\ slots = [i \in 1..N |-> "nil"] /\ hits = 0
  /\ gone = FALSE

Cancel ==
  /\ answer = "pending" /\ ~gone
  /\ gone' = TRUE
  /\ UNCHANGED <<answer, slots, hits>>

\* Every text has its result and every hit is counted.
Respond ==
  /\ answer = "pending" /\ ~gone
  /\ answer' = "ok"
  /\ slots' \in [1..N -> {"clean", "hit"}]
  /\ hits' = Cardinality({i \in 1..N : slots'[i] = "hit"})
  /\ UNCHANGED gone

\* Only a cancelled batch fails, and its caller gets no results.
Refuse ==
  /\ answer = "pending" /\ gone
  /\ answer' = "error"
  /\ UNCHANGED <<slots, hits, gone>>

Next == Cancel \/ Respond \/ Refuse

Spec == Init /\ [][Next]_vars
=============================================================================
