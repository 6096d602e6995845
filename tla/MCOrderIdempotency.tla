------------------------ MODULE MCOrderIdempotency ------------------------
(* Small instances of OrderIdempotency: tasks c1, c2, c4 and c5 of one     *)
(* process, c3 and c6 of another.                                          *)
EXTENDS OrderIdempotency

CONSTANTS c1, c2, c3, c4, c5, c6, p1, p2

MCHome == [c \in Callers |-> IF c \in {c3, c6} THEN p2 ELSE p1]
=============================================================================
