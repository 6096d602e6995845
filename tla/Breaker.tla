------------------------------- MODULE Breaker ------------------------------
(***************************************************************************)
(* What a circuit breaker promises, whichever code provides it: the shared *)
(* one (CircuitBreaker) and the kill switch's (RetryBreakerCalls) implement*)
(* this specification.                                                     *)
(*                                                                         *)
(* It opens at the FailureThreshold-th failure in a row, admits nothing    *)
(* for Timeout after that, then at most Slots probes; one failure opens it *)
(* again, the Needed-th success closes it.  Whether the successes of an    *)
(* earlier HALF_OPEN period count, and whether a failure reported while it *)
(* is open starts the wait anew, is left to the implementation.            *)
(***************************************************************************)
EXTENDS Naturals

CONSTANTS FailureThreshold, Timeout, Slots, Needed

VARIABLES
  phase,      \* "closed", "open" or "half_open"
  failures,   \* in a row, while it is closed
  waited,     \* while it is open
  granted,    \* calls admitted in this half_open period
  successes,  \* reported while it was half_open
  silent      \* a probe of this period ended without a report

vars == <<phase, failures, waited, granted, successes, silent>>

Init ==
  /\ phase = "closed"
  /\ failures = 0 /\ waited = 0 /\ granted = 0 /\ successes = 0
  /\ silent = FALSE

CountFailure ==
  /\ phase = "closed" /\ failures + 1 < FailureThreshold
  /\ failures' = failures + 1
  /\ UNCHANGED <<phase, waited, granted, successes, silent>>

ForgetFailures ==
  /\ phase = "closed"
  /\ failures' = 0
  /\ UNCHANGED <<phase, waited, granted, successes, silent>>

(* What every change of phase starts with. *)
Enter(p) ==
  /\ phase' = p
  /\ failures' = 0 /\ waited' = 0
  /\ silent' = FALSE

Open ==
  /\ \/ phase = "closed" /\ failures + 1 >= FailureThreshold
     \/ phase = "half_open"
  /\ Enter("open")
  /\ granted' = 0
  /\ successes' \in {0, successes}

Wait ==
  /\ phase = "open" /\ waited < Timeout
  /\ waited' = waited + 1
  /\ UNCHANGED <<phase, failures, granted, successes, silent>>

WaitAnew ==
  /\ phase = "open"
  /\ waited' = 0
  /\ UNCHANGED <<phase, failures, granted, successes, silent>>

FirstProbe ==
  /\ phase = "open" /\ waited >= Timeout
  /\ Enter("half_open")
  /\ granted' = 1
  /\ successes' \in {0, successes}

Probe ==
  /\ phase = "half_open" /\ granted < Slots
  /\ granted' = granted + 1
  /\ UNCHANGED <<phase, failures, waited, successes, silent>>

Succeed ==
  /\ phase = "half_open" /\ successes + 1 < Needed
  /\ successes' = successes + 1
  /\ UNCHANGED <<phase, failures, waited, granted, silent>>

Close ==
  /\ phase = "half_open" /\ successes + 1 >= Needed
  /\ Enter("closed")
  /\ granted' = 0 /\ successes' = 0

FallSilent ==
  /\ phase = "half_open"
  /\ silent' = TRUE
  /\ UNCHANGED <<phase, failures, waited, granted, successes>>

(* An operator opens or closes it, where there are operators. *)
Command(p) ==
  /\ p \in {"closed", "open"}
  /\ Enter(p)
  /\ granted' = 0 /\ successes' = 0

Next ==
  \/ CountFailure \/ ForgetFailures \/ Open
  \/ Wait \/ WaitAnew
  \/ FirstProbe \/ Probe \/ Succeed \/ Close \/ FallSilent

Spec == Init /\ [][Next]_vars

Admits ==
  \/ phase = "closed"
  \/ phase = "open" /\ waited >= Timeout
  \/ phase = "half_open" /\ granted < Slots

(* It blocks for a time only, as long as probes report. *)
BlocksTemporarily == []<>(Admits \/ silent)

=============================================================================
