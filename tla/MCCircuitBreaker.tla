-------------------------- MODULE MCCircuitBreaker --------------------------
(* Instances of CircuitBreaker for TLC. *)
EXTENDS CircuitBreaker

CONSTANTS c1, c2, c3

\* Only c1 uses call().
OneCall == [c \in Callers |-> IF c = c1 THEN "call" ELSE "block"]
=============================================================================
