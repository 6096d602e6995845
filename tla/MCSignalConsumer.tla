-------------------------- MODULE MCSignalConsumer --------------------------
(* A small instance of SignalConsumer: two instances, a signal that is     *)
(* published under a key and on the stream, and one only on the stream.    *)
EXTENDS SignalConsumer

CONSTANTS a, b, message, both

MCManagers == {a, b}

Quiet == [faults |-> "none", loads |-> TRUE, interrupts |-> FALSE,
          switched |-> FALSE, live |-> {a}]

(* One condition at a time, then those that act together. *)
MCConditions ==
  {[Quiet EXCEPT !.live = {a, b}],
   [Quiet EXCEPT !.live = {a, b}, !.interrupts = TRUE],
   [Quiet EXCEPT !.faults = "refused", !.live = {a, b}],
   [Quiet EXCEPT !.faults = "refused", !.interrupts = TRUE],
   [Quiet EXCEPT !.faults = "lost", !.loads = FALSE, !.interrupts = TRUE],
   [Quiet EXCEPT !.switched = TRUE]}
=============================================================================
