-------------------------- MODULE MCCircuitBreaker --------------------------
(* Constants for model-checking CircuitBreaker.                             *)
EXTENDS CircuitBreaker, TLC

Symmetry == Permutations(Requests)
=============================================================================
