--------------------------- MODULE MCRetryBreaker ---------------------------
(* A small instance of RetryBreakerCalls: one task more than can be probes. *)
EXTENDS RetryBreakerCalls

CONSTANTS t1, t2, t3

MCTasks == {t1, t2, t3}
=============================================================================
