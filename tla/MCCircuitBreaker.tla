------------------------- MODULE MCCircuitBreaker -------------------------
(* A small instance of CircuitBreaker: one thread more than there are      *)
(* probes, so that a late result can meet a full HALF_OPEN period.         *)
EXTENDS CircuitBreaker

CONSTANTS c1, c2, c3

MCCallers == {c1, c2, c3}
=============================================================================
