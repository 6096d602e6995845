----------------------------- MODULE MCFailover -----------------------------
(* Small instances of Failover: a primary and two backups. *)
EXTENDS Failover

CONSTANTS a, b, c

MCRank == [i \in Instances |-> IF i = b THEN 1 ELSE IF i = c THEN 2 ELSE 0]
=============================================================================
