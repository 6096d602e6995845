---------------------------- MODULE MCKillSwitch ----------------------------
(* Small instances of KillSwitch: up to two overlapping calls, a position  *)
(* they both find open, operators queueing behind one another.             *)
EXTENDS KillSwitch

CONSTANTS t1, t2, p1

MCTriggers == {t1, t2}
MCPositions == {p1}
=============================================================================
