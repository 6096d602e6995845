---------------------------- MODULE RetryBreaker ----------------------------
(***************************************************************************)
(* The asyncio circuit breaker of                                          *)
(* src/execution/kill_switch/retry_handler.py, which the kill switch puts  *)
(* in front of the exchange and of its metrics store.  This module holds   *)
(* the object: its state and one operator per method, each run under the   *)
(* breaker's lock without awaiting anything and so one step.               *)
(* RetryBreakerCalls adds the tasks that use it, KillSwitch the executor.  *)
(*                                                                         *)
(* As in CircuitBreaker the clock is the time since the last failure,      *)
(* stopped at RecoveryTimeout, and a counter stops at its threshold.       *)
(***************************************************************************)
EXTENDS Naturals

CONSTANTS
  FailureThreshold,   \* failure_threshold
  RecoveryTimeout,    \* recovery_timeout_seconds, in ticks
  HalfOpenMaxCalls,   \* half_open_max_calls
  SuccessThreshold    \* success_threshold

(* Nothing checks the configuration; every one in the repository satisfies *)
(* the last conjunct, without which HALF_OPEN could never be left.         *)
ASSUME RetryBreakerAssumption ==
  /\ FailureThreshold \in Nat \ {0}
  /\ RecoveryTimeout \in Nat
  /\ HalfOpenMaxCalls \in Nat
  /\ SuccessThreshold \in Nat \ {0}
  /\ SuccessThreshold <= HalfOpenMaxCalls + 1

VARIABLES
  breakerState,   \* _state
  failureCount,   \* _failure_count
  successCount,   \* _success_count
  halfOpenCalls,  \* _half_open_calls
  sinceFailure    \* time() - _last_failure_time, while OPEN

breakerVars == <<breakerState, failureCount, successCount, halfOpenCalls,
                 sinceFailure>>

BreakerTypeOK ==
  /\ breakerState \in {"closed", "open", "half_open"}
  /\ failureCount \in 0..FailureThreshold
  /\ successCount \in 0..SuccessThreshold
  /\ halfOpenCalls \in 0..HalfOpenMaxCalls
  /\ sinceFailure \in 0..RecoveryTimeout

BreakerInit ==
  /\ breakerState = "closed"
  /\ failureCount = 0
  /\ successCount = 0
  /\ halfOpenCalls = 0
  /\ sinceFailure = 0

RecoveryDue == breakerState = "open" /\ sinceFailure >= RecoveryTimeout

(* Mutant: one slot too many. *)
ProbeAllowed_OffByOne ==
  breakerState = "half_open" /\ halfOpenCalls <= HalfOpenMaxCalls

ProbeAllowed == breakerState = "half_open" /\ halfOpenCalls < HalfOpenMaxCalls

(* Mutant: the calls of a HALF_OPEN period are not counted. *)
CanExecute_Uncounted ==
  \/ breakerState = "closed" /\ UNCHANGED breakerVars
  \/ ProbeAllowed /\ UNCHANGED breakerVars
  \/ /\ RecoveryDue
     /\ breakerState' = "half_open"
     /\ halfOpenCalls' = 0
     /\ UNCHANGED <<failureCount, successCount, sinceFailure>>

(* can_execute answers True; the call that finds the timeout over enters   *)
(* HALF_OPEN without being counted there.                                  *)
CanExecute ==
  \/ breakerState = "closed" /\ UNCHANGED breakerVars
  \/ /\ RecoveryDue
     /\ breakerState' = "half_open"
     /\ halfOpenCalls' = 0
     /\ UNCHANGED <<failureCount, successCount, sinceFailure>>
  \/ /\ ProbeAllowed
     /\ halfOpenCalls' = halfOpenCalls + 1
     /\ UNCHANGED <<breakerState, failureCount, successCount, sinceFailure>>

(* can_execute answers False. *)
CannotExecute ==
  /\ breakerState # "closed" /\ ~RecoveryDue /\ ~ProbeAllowed
  /\ UNCHANGED breakerVars

(* Mutant: one success too many. *)
Recovered_OffByOne ==
  breakerState = "half_open" /\ successCount >= SuccessThreshold

Recovered == breakerState = "half_open" /\ successCount + 1 >= SuccessThreshold

(* Mutant: a breaker that recovers keeps its failures. *)
RecordSuccess_KeepsFailures ==
  \/ /\ Recovered
     /\ breakerState' = "closed"
     /\ successCount' = 0
     /\ halfOpenCalls' = 0
     /\ UNCHANGED <<failureCount, sinceFailure>>
  \/ /\ breakerState = "half_open" /\ ~Recovered
     /\ successCount' = successCount + 1
     /\ UNCHANGED <<breakerState, failureCount, halfOpenCalls, sinceFailure>>
  \/ /\ breakerState # "half_open"
     /\ failureCount' = 0
     /\ UNCHANGED <<breakerState, successCount, halfOpenCalls, sinceFailure>>

RecordSuccess ==
  \/ /\ Recovered
     /\ breakerState' = "closed"
     /\ failureCount' = 0
     /\ successCount' = 0
     /\ halfOpenCalls' = 0
     /\ sinceFailure' = 0
  \/ /\ breakerState = "half_open" /\ ~Recovered
     /\ successCount' = successCount + 1
     /\ UNCHANGED <<breakerState, failureCount, halfOpenCalls, sinceFailure>>
  \/ /\ breakerState # "half_open"
     /\ failureCount' = 0
     /\ UNCHANGED <<breakerState, successCount, halfOpenCalls, sinceFailure>>

(* Mutant: a failed probe does not reopen the breaker. *)
RecordFailure_StaysHalfOpen ==
  /\ sinceFailure' = 0
  /\ failureCount' = IF failureCount < FailureThreshold THEN failureCount + 1
                                                        ELSE failureCount
  /\ breakerState' = IF breakerState = "closed" /\ failureCount' >= FailureThreshold
                       THEN "open" ELSE breakerState
  /\ UNCHANGED <<successCount, halfOpenCalls>>

(* A failure restarts the timer in every state, OPEN included, and clears  *)
(* the slots only when it reopens a HALF_OPEN breaker.                     *)
RecordFailure ==
  /\ sinceFailure' = 0
  /\ failureCount' = IF failureCount < FailureThreshold THEN failureCount + 1
                                                        ELSE failureCount
  /\ \/ /\ breakerState = "half_open"
        /\ breakerState' = "open"
        /\ halfOpenCalls' = 0
     \/ /\ breakerState # "half_open"
        /\ breakerState' = IF failureCount' >= FailureThreshold THEN "open"
                                                                ELSE breakerState
        /\ UNCHANGED halfOpenCalls
  /\ UNCHANGED successCount

(* Time counts while the breaker is OPEN: nothing reads it otherwise. *)
BreakerTick ==
  /\ breakerState = "open"
  /\ sinceFailure < RecoveryTimeout
  /\ sinceFailure' = sinceFailure + 1
  /\ UNCHANGED <<breakerState, failureCount, successCount, halfOpenCalls>>

=============================================================================
