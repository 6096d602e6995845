------------------------- MODULE RetryBreakerCalls -------------------------
(***************************************************************************)
(* Tasks that use a RetryBreaker the way RetryHandler.execute_with_retry   *)
(* does: ask can_execute, await the operation with its own retries, report *)
(* one success or one failure.  A task cancelled while it awaits reports   *)
(* nothing: CancelledError is not an Exception.                            *)
(***************************************************************************)
EXTENDS RetryBreaker, FiniteSets

CONSTANT Tasks        \* the tasks that call execute_with_retry

ASSUME TasksAssumption == IsFiniteSet(Tasks)

VARIABLES
  running,      \* what each task awaits: "idle", "call", or a "probe" of this
                \* HALF_OPEN period
  lost          \* history: a probe of this period was cancelled

vars == <<breakerState, failureCount, successCount, halfOpenCalls,
          sinceFailure, running, lost>>

TypeOK ==
  /\ BreakerTypeOK
  /\ running \in [Tasks -> {"idle", "call", "probe"}]
  /\ lost \in BOOLEAN

Init ==
  /\ BreakerInit
  /\ running = [t \in Tasks |-> "idle"]
  /\ lost = FALSE

Probes == {t \in Tasks : running[t] = "probe"}

(* Once the period is over its probes are plain calls. *)
Demoted(r) == [t \in Tasks |-> IF r[t] = "probe" THEN "call" ELSE r[t]]

Start(t) ==
  /\ running[t] = "idle"
  /\ CanExecute
  /\ running' = [running EXCEPT ![t] = IF breakerState' = "half_open"
                                         THEN "probe" ELSE "call"]
  /\ UNCHANGED lost

Ended(t) == [running EXCEPT ![t] = "idle"]

Succeed(t) ==
  /\ running[t] # "idle"
  /\ RecordSuccess
  /\ running' = IF Recovered THEN Demoted(Ended(t)) ELSE Ended(t)
  /\ lost' = (lost /\ ~Recovered)

Fail(t) ==
  /\ running[t] # "idle"
  /\ RecordFailure
  /\ running' = IF breakerState = "half_open" THEN Demoted(Ended(t)) ELSE Ended(t)
  /\ lost' = (lost /\ breakerState # "half_open")

Cancel(t) ==
  /\ running[t] # "idle"
  /\ running' = Ended(t)
  /\ lost' = (lost \/ running[t] = "probe")
  /\ UNCHANGED breakerVars

Tick == BreakerTick /\ UNCHANGED <<running, lost>>

Next ==
  \/ \E t \in Tasks : Start(t) \/ Succeed(t) \/ Fail(t) \/ Cancel(t)
  \/ Tick

Spec == Init /\ [][Next]_vars

(* Time passes, the tasks keep calling, and an operation ends: its retries *)
(* are bounded and each attempt ends in an answer or a client timeout.     *)
Fairness ==
  /\ WF_vars(Tick)
  /\ \A t \in Tasks :
       WF_vars(Start(t)) /\ WF_vars(Succeed(t) \/ Fail(t) \/ Cancel(t))

FairSpec == Spec /\ Fairness

-----------------------------------------------------------------------------
(* Concurrent probes of a recovering dependency: the uncounted call that   *)
(* entered HALF_OPEN comes on top of half_open_max_calls.                  *)
ProbesBounded == Cardinality(Probes) <= HalfOpenMaxCalls + 1

(* Calls pass a CLOSED breaker only below failure_threshold failures in a  *)
(* row, whatever late results arrived while it was OPEN or HALF_OPEN.      *)
FailsFast == breakerState = "closed" => failureCount < FailureThreshold

(* A HALF_OPEN breaker out of slots still waits for a probe, unless one of *)
(* this period was cancelled: even where the successes needed are as many  *)
(* as the calls admitted.                                                  *)
NeverWedged ==
  (breakerState = "half_open" /\ ~ProbeAllowed /\ ~lost) => Probes # {}

(* The abstract breaker; the call that enters HALF_OPEN is one more slot.  *)
B == INSTANCE Breaker WITH
  phase <- breakerState,
  failures <- IF breakerState = "closed" THEN failureCount ELSE 0,
  waited <- IF breakerState = "open" THEN sinceFailure ELSE 0,
  granted <- IF breakerState = "half_open" THEN halfOpenCalls + 1 ELSE 0,
  successes <- successCount,
  silent <- breakerState = "half_open" /\ lost,
  Timeout <- RecoveryTimeout,
  Slots <- HalfOpenMaxCalls + 1,
  Needed <- SuccessThreshold

(* The kill switch's breaker implements Breaker, as the shared one does.   *)
(* It keeps the successes of earlier HALF_OPEN periods, and a late failure *)
(* postpones its recovery.                                                 *)
StepsOfBreaker == B!Spec

(* From every state it some day admits a call again, as long as no probe   *)
(* is cancelled.                                                           *)
NeverBlockedForGood == B!BlocksTemporarily


=============================================================================
