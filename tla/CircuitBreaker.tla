--------------------------- MODULE CircuitBreaker ---------------------------
(***************************************************************************)
(* The shared circuit breaker of src/common/circuit_breaker.py.  Callers   *)
(* are threads: every method runs under the breaker's RLock and is one     *)
(* step, but the protected function runs outside it, so a call is admitted *)
(* in one step and its result is reported in a later one, perhaps after    *)
(* the breaker has changed state.                                          *)
(*                                                                         *)
(* Abstractions.  The clock is read only to compare the time since the     *)
(* last state change with timeout_seconds, so the model keeps that elapsed *)
(* time and stops it at Timeout.  The two consecutive counters are read    *)
(* only against a threshold, so they stop there.  The lifetime counters    *)
(* and last_error guide no decision and are left out; a rejected call      *)
(* changes nothing else and is a stuttering step.                          *)
(***************************************************************************)
EXTENDS Naturals, FiniteSets

CONSTANTS
  Callers,            \* threads that use the breaker
  FailureThreshold,   \* failure_threshold
  HalfOpenMaxCalls,   \* half_open_max_calls
  Timeout             \* timeout_seconds, in ticks

ASSUME BreakerAssumption ==
  /\ IsFiniteSet(Callers)
  /\ FailureThreshold \in Nat \ {0}
  /\ HalfOpenMaxCalls \in Nat \ {0}
  /\ Timeout \in Nat

VARIABLES
  state,                 \* _state
  consecutiveSuccesses,  \* _metrics.consecutive_successes
  consecutiveFailures,   \* _metrics.consecutive_failures
  halfOpenCalls,         \* _half_open_calls
  elapsed,               \* time.time() - _metrics.last_state_change
  running,               \* what each caller is executing outside the lock
  lost                   \* history: a probe of this HALF_OPEN period has ended
                         \* without a report

vars == <<state, consecutiveSuccesses, consecutiveFailures, halfOpenCalls,
          elapsed, running, lost>>

States == {"CLOSED", "OPEN", "HALF_OPEN"}

(* A "probe" was admitted in the current HALF_OPEN period and took one of  *)
(* its slots; every other admitted call, a probe of an earlier period      *)
(* included, is a plain "call".                                            *)
Activities == {"idle", "call", "probe"}

TypeOK ==
  /\ state \in States
  /\ consecutiveSuccesses \in 0..HalfOpenMaxCalls
  /\ consecutiveFailures \in 0..FailureThreshold
  /\ halfOpenCalls \in 0..HalfOpenMaxCalls
  /\ elapsed \in 0..Timeout
  /\ running \in [Callers -> Activities]
  /\ lost \in BOOLEAN

Init ==
  /\ state = "CLOSED"
  /\ consecutiveSuccesses = 0
  /\ consecutiveFailures = 0
  /\ halfOpenCalls = 0
  /\ elapsed = 0
  /\ running = [c \in Callers |-> "idle"]
  /\ lost = FALSE

Probes == {c \in Callers : running[c] = "probe"}

(* What is running when the state changes no longer belongs to it. *)
Demoted(r) == [c \in Callers |-> IF r[c] = "probe" THEN "call" ELSE r[c]]

UpTo(cap, n) == IF n > cap THEN cap ELSE n

(* Mutant: the successes of the period before are kept. *)
RecordStateTransition_KeepsSuccesses ==
  /\ elapsed' = 0
  /\ consecutiveFailures' = 0
  /\ lost' = FALSE
  /\ UNCHANGED consecutiveSuccesses

(* record_state_transition: the period starts afresh. *)
RecordStateTransition ==
  /\ elapsed' = 0
  /\ consecutiveSuccesses' = 0
  /\ consecutiveFailures' = 0
  /\ lost' = FALSE

(***************************************************************************)
(* can_execute, and the guard of call and __enter__.                       *)
(***************************************************************************)
(* Mutant: one slot too many. *)
HasFreeSlot_OffByOne == halfOpenCalls <= HalfOpenMaxCalls

HasFreeSlot == halfOpenCalls < HalfOpenMaxCalls

AdmitClosed(c) ==
  /\ state = "CLOSED"
  /\ running' = [running EXCEPT ![c] = "call"]
  /\ UNCHANGED <<state, consecutiveSuccesses, consecutiveFailures,
                 halfOpenCalls, elapsed, lost>>

(* Mutant: the slots of the period before are still taken. *)
AdmitFirstProbe_KeepsSlots(c) ==
  /\ state = "OPEN"
  /\ elapsed >= Timeout
  /\ state' = "HALF_OPEN"
  /\ RecordStateTransition
  /\ halfOpenCalls' = UpTo(HalfOpenMaxCalls, halfOpenCalls + 1)
  /\ running' = [Demoted(running) EXCEPT ![c] = "probe"]

(* The timeout is over: move to HALF_OPEN and fall through to take a slot. *)
AdmitFirstProbe(c) ==
  /\ state = "OPEN"
  /\ elapsed >= Timeout
  /\ state' = "HALF_OPEN"
  /\ RecordStateTransition
  /\ halfOpenCalls' = 1
  /\ running' = [Demoted(running) EXCEPT ![c] = "probe"]

(* Mutant: the call is admitted without being counted. *)
AdmitProbe_Uncounted(c) ==
  /\ state = "HALF_OPEN"
  /\ HasFreeSlot
  /\ running' = [running EXCEPT ![c] = "probe"]
  /\ UNCHANGED <<state, consecutiveSuccesses, consecutiveFailures,
                 halfOpenCalls, elapsed, lost>>

AdmitProbe(c) ==
  /\ state = "HALF_OPEN"
  /\ HasFreeSlot
  /\ halfOpenCalls' = halfOpenCalls + 1
  /\ running' = [running EXCEPT ![c] = "probe"]
  /\ UNCHANGED <<state, consecutiveSuccesses, consecutiveFailures, elapsed, lost>>

Admit(c) ==
  /\ running[c] = "idle"
  /\ AdmitClosed(c) \/ AdmitFirstProbe(c) \/ AdmitProbe(c)

(***************************************************************************)
(* record_success and record_failure, called when the function returns.    *)
(***************************************************************************)
Returned(c) == [running EXCEPT ![c] = "idle"]

(* Mutant: one success more than there are slots. *)
ClosesAfter_OffByOne(successes) ==
  state = "HALF_OPEN" /\ successes > HalfOpenMaxCalls

ClosesAfter(successes) ==
  state = "HALF_OPEN" /\ successes >= HalfOpenMaxCalls

RecordSuccess(c) ==
  /\ running[c] # "idle"
  /\ \/ /\ ClosesAfter(consecutiveSuccesses + 1)
        /\ state' = "CLOSED"
        /\ RecordStateTransition
        /\ halfOpenCalls' = 0
        /\ running' = Demoted(Returned(c))
     \/ /\ ~ClosesAfter(consecutiveSuccesses + 1)
        /\ consecutiveSuccesses' = UpTo(HalfOpenMaxCalls, consecutiveSuccesses + 1)
        /\ consecutiveFailures' = 0
        /\ running' = Returned(c)
        /\ UNCHANGED <<state, halfOpenCalls, elapsed, lost>>

(* Mutant: one failure too late. *)
OpensAfter_OffByOne(failures) ==
  \/ state = "HALF_OPEN"
  \/ state = "CLOSED" /\ failures > FailureThreshold

OpensAfter(failures) ==
  \/ state = "HALF_OPEN"
  \/ state = "CLOSED" /\ failures >= FailureThreshold

RecordFailure(c) ==
  /\ running[c] # "idle"
  /\ \/ /\ OpensAfter(consecutiveFailures + 1)
        /\ state' = "OPEN"
        /\ RecordStateTransition
        /\ running' = Demoted(Returned(c))
        /\ UNCHANGED halfOpenCalls
     \/ /\ ~OpensAfter(consecutiveFailures + 1)
        /\ consecutiveFailures' = UpTo(FailureThreshold, consecutiveFailures + 1)
        /\ consecutiveSuccesses' = 0
        /\ running' = Returned(c)
        /\ UNCHANGED <<state, halfOpenCalls, elapsed, lost>>

(* The function raised something that is not an expected_exception, or the *)
(* user of can_execute never reports: no method of the breaker is called.  *)
EndUnreported(c) ==
  /\ running[c] # "idle"
  /\ running' = Returned(c)
  /\ lost' = (lost \/ running[c] = "probe")
  /\ UNCHANGED <<state, consecutiveSuccesses, consecutiveFailures,
                 halfOpenCalls, elapsed>>

(***************************************************************************)
(* The operator's commands.  _transition_to ignores a transition to the    *)
(* state the breaker is already in: force_open does not restart the timer. *)
(***************************************************************************)
ForceOpen ==
  /\ state # "OPEN"
  /\ state' = "OPEN"
  /\ RecordStateTransition
  /\ running' = Demoted(running)
  /\ UNCHANGED halfOpenCalls

ForceClose ==
  /\ IF state = "CLOSED"
       THEN UNCHANGED <<state, elapsed, consecutiveSuccesses,
                        consecutiveFailures, running, lost>>
       ELSE /\ state' = "CLOSED"
            /\ RecordStateTransition
            /\ running' = Demoted(running)
  /\ halfOpenCalls' = 0

Reset ==
  /\ state' = "CLOSED"
  /\ RecordStateTransition
  /\ halfOpenCalls' = 0
  /\ running' = Demoted(running)

Tick ==
  /\ elapsed < Timeout
  /\ elapsed' = elapsed + 1
  /\ UNCHANGED <<state, consecutiveSuccesses, consecutiveFailures,
                 halfOpenCalls, running, lost>>

Next ==
  \/ \E c \in Callers : Admit(c) \/ RecordSuccess(c) \/ RecordFailure(c)
                          \/ EndUnreported(c)
  \/ ForceOpen \/ ForceClose \/ Reset
  \/ Tick

Spec == Init /\ [][Next]_vars

(* Time passes, the threads keep calling, and a protected call ends.       *)
Fairness ==
  /\ WF_vars(Tick)
  /\ \A c \in Callers :
       /\ WF_vars(Admit(c))
       /\ WF_vars(RecordSuccess(c) \/ RecordFailure(c) \/ EndUnreported(c))

FairSpec == Spec /\ Fairness

-----------------------------------------------------------------------------
(* A recovering service never has more than half_open_max_calls probes of  *)
(* one HALF_OPEN period in flight, whatever late results, operators and    *)
(* other threads do.                                                       *)
ProbesBounded == Cardinality(Probes) <= HalfOpenMaxCalls

(* A HALF_OPEN breaker starts from clean counters: the results recorded    *)
(* while it was OPEN or CLOSED never count as evidence of recovery, and    *)
(* as no failure survives in HALF_OPEN no success is ever forgotten.       *)
EvidenceIsFresh ==
  state = "HALF_OPEN" =>
    /\ consecutiveFailures = 0
    /\ consecutiveSuccesses < HalfOpenMaxCalls

(* A breaker that has used all its slots still waits for one of them: it   *)
(* is never left in HALF_OPEN, where no timer runs, with nobody to report, *)
(* unless a probe of this very period ended without a report.              *)
NeverWedged ==
  (state = "HALF_OPEN" /\ ~HasFreeSlot /\ ~lost) => Probes # {}

(* Calls that pass through a CLOSED breaker have not failed                *)
(* failure_threshold times in a row, whichever thread reported last.       *)
FailsFast ==
  state = "CLOSED" => consecutiveFailures < FailureThreshold

(* The abstract breaker: its counters are those of the state the breaker   *)
(* is in; what late results count in another state concerns nobody.        *)
Phase ==
  IF state = "CLOSED" THEN "closed"
  ELSE IF state = "OPEN" THEN "open" ELSE "half_open"

B == INSTANCE Breaker WITH
  phase <- Phase,
  failures <- IF state = "CLOSED" THEN consecutiveFailures ELSE 0,
  waited <- IF state = "OPEN" THEN elapsed ELSE 0,
  granted <- IF state = "HALF_OPEN" THEN halfOpenCalls ELSE 0,
  successes <- IF state = "HALF_OPEN" THEN consecutiveSuccesses ELSE 0,
  silent <- state = "HALF_OPEN" /\ lost,
  Slots <- HalfOpenMaxCalls,
  Needed <- HalfOpenMaxCalls

(* The breaker implements Breaker: it opens at the right failure, waits,   *)
(* probes within its slots and closes at the right success, whatever late  *)
(* results arrive; every other step is an operator's command.              *)
StepsOfBreaker ==
  /\ B!Init
  /\ [][ \/ B!Next
         \/ ForceOpen /\ B!Command("open")
         \/ (ForceClose \/ Reset) /\ B!Command("closed") ]_(B!vars)

(* From every state it some day admits a call again; and once nothing      *)
(* opens it any more it closes, whatever late results and idle callers do. *)
(* Both hold as long as the probes report.                                 *)
RecoversWithService ==
  /\ B!BlocksTemporarily
  /\ <>[][~(state # "OPEN" /\ state' = "OPEN")]_vars
       => []<>(state = "CLOSED" \/ lost)

Admits ==
  \/ state = "CLOSED"
  \/ state = "HALF_OPEN" /\ HasFreeSlot
  \/ state = "OPEN" /\ elapsed >= Timeout

(* "Temporarily blocking calls to failing services": the same, whether or  *)
(* not probes report.                                                      *)
BlocksOnlyTemporarily == []<>Admits

=============================================================================
