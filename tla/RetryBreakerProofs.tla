------------------------- MODULE RetryBreakerProofs -------------------------
(***************************************************************************)
(* The safety of the kill switch's circuit breaker and that it implements  *)
(* Breaker, for any tasks, thresholds and timeouts that satisfy            *)
(* RetryBreakerAssumption.                                                 *)
(***************************************************************************)
EXTENDS RetryBreakerCalls, FiniteSetTheorems, TLAPS

LEMMA ProbesFinite == IsFiniteSet(Probes) /\ Cardinality(Probes) \in Nat
<1>1. Probes \subseteq Tasks
  BY DEF Probes
<1>2. IsFiniteSet(Probes)
  BY <1>1, FS_Subset, TasksAssumption DEF TasksAssumption
<1> QED
  BY <1>2, FS_CardinalityType

(* The flag is Boolean, kept apart from the arithmetic. *)
LEMMA LostStep == [Next]_vars /\ lost \in BOOLEAN => lost' \in BOOLEAN
<1> SUFFICES ASSUME [Next]_vars, lost \in BOOLEAN PROVE lost' \in BOOLEAN
  OBVIOUS
<1>1. ASSUME NEW t \in Tasks, Start(t) \/ Succeed(t) \/ Fail(t) \/ Cancel(t)
      PROVE  lost' \in BOOLEAN
  BY <1>1, Zenon DEF Start, Succeed, Fail, Cancel
<1>2. CASE Tick \/ UNCHANGED vars
  BY <1>2, Zenon DEF Tick, vars
<1> QED
  BY <1>1, <1>2, Zenon DEF Next

-----------------------------------------------------------------------------
(* The types; and no counter rests at its threshold: the failure that      *)
(* reaches it opens the breaker, the success that reaches it closes it.    *)
Counters == FailsFast /\ successCount < SuccessThreshold

LEMMA CountersStep ==
  ASSUME TypeOK, Counters, [Next]_vars
  PROVE  TypeOK' /\ Counters'
<1>0. lost \in BOOLEAN /\ lost' \in BOOLEAN
  BY LostStep, Zenon DEF TypeOK
<1> USE <1>0, RetryBreakerAssumption
    DEF RetryBreakerAssumption, TypeOK, BreakerTypeOK, Counters, FailsFast
<1>1. ASSUME NEW t \in Tasks
      PROVE  /\ Ended(t) \in [Tasks -> {"idle", "call", "probe"}]
             /\ Demoted(Ended(t)) \in [Tasks -> {"idle", "call", "probe"}]
  BY DEF Ended, Demoted
<1>2. ASSUME NEW t \in Tasks, Start(t)
      PROVE  TypeOK' /\ Counters'
  BY <1>2 DEF Start, CanExecute, RecoveryDue, ProbeAllowed, breakerVars
<1>3. ASSUME NEW t \in Tasks, Succeed(t)
      PROVE  TypeOK' /\ Counters'
  BY <1>1, <1>3 DEF Succeed, RecordSuccess, Recovered
<1>4. ASSUME NEW t \in Tasks, Fail(t)
      PROVE  TypeOK' /\ Counters'
  BY <1>1, <1>4 DEF Fail, RecordFailure
<1>5. ASSUME NEW t \in Tasks, Cancel(t)
      PROVE  TypeOK' /\ Counters'
  BY <1>1, <1>5 DEF Cancel, breakerVars
<1>6. CASE Tick \/ UNCHANGED vars
  BY <1>6 DEF Tick, BreakerTick, vars
<1> QED
  BY <1>2, <1>3, <1>4, <1>5, <1>6 DEF Next

LEMMA CountersHold == Spec => [](TypeOK /\ Counters)
<1>1. Init => TypeOK /\ Counters
  <2> SUFFICES ASSUME Init PROVE TypeOK /\ Counters
    OBVIOUS
  <2>1. lost \in BOOLEAN
    BY Zenon DEF Init
  <2> QED
    BY <2>1, RetryBreakerAssumption
    DEF RetryBreakerAssumption, Init, BreakerInit, TypeOK, BreakerTypeOK,
        Counters, FailsFast
<1> QED
  BY <1>1, CountersStep, PTL DEF Spec

(* The breaker and its tasks stay within their types and bounds. *)
THEOREM TypeCorrect == Spec => []TypeOK
  BY CountersHold, PTL

-----------------------------------------------------------------------------
(* A probe was admitted in this period, first or in a slot; and, if none   *)
(* was cancelled, whatever was admitted is still running or has succeeded. *)
Slots ==
  /\ breakerState # "half_open" => Probes = {} /\ ~lost
  /\ breakerState = "half_open" =>
       /\ Cardinality(Probes) <= halfOpenCalls + 1
       /\ ~lost => halfOpenCalls + 1 <= successCount + Cardinality(Probes)

LEMMA ProbeAdded ==
  ASSUME TypeOK, NEW t \in Tasks, running[t] = "idle",
         running' = [running EXCEPT ![t] = "probe"]
  PROVE  Cardinality(Probes') = Cardinality(Probes) + 1
<1>1. Probes' = Probes \cup {t} /\ t \notin Probes
  BY DEF TypeOK, Probes
<1> QED
  BY <1>1, ProbesFinite, FS_AddElement

LEMMA ProbeEnded ==
  ASSUME TypeOK, NEW t \in Tasks, running' = Ended(t)
  PROVE  /\ Probes' \subseteq Probes
         /\ Cardinality(Probes') \in {Cardinality(Probes), Cardinality(Probes) - 1}
         /\ running[t] # "probe" => Probes' = Probes
<1>1. Probes' = Probes \ {t}
  BY DEF TypeOK, Probes, Ended
<1>2. CASE t \in Probes
  BY <1>1, <1>2, ProbesFinite, FS_RemoveElement DEF Probes
<1>3. CASE t \notin Probes
  <2>1. Probes' = Probes
    BY <1>1, <1>3
  <2> QED
    BY <2>1
<1> QED
  BY <1>2, <1>3

LEMMA SlotsStep ==
  ASSUME TypeOK, TypeOK', Counters, Slots, [Next]_vars
  PROVE  Slots'
<1> USE RetryBreakerAssumption DEF RetryBreakerAssumption
<1>0. Cardinality(Probes) \in Nat
  BY ProbesFinite
<1>1. ASSUME NEW t \in Tasks, Start(t)
      PROVE  Slots'
  <2>1. CASE breakerState = "closed"
    <3>1. UNCHANGED breakerVars
      BY <1>1, <2>1 DEF Start, CanExecute, RecoveryDue, ProbeAllowed
    <3>2. Probes' = Probes
      BY <1>1, <2>1, <3>1 DEF Start, breakerVars, TypeOK, Probes
    <3>3. lost' <=> lost
      BY <1>1, Zenon DEF Start
    <3>4. ~lost' /\ Probes' = {} /\ breakerState' = "closed"
      BY <2>1, <3>1, <3>2, <3>3 DEF breakerVars, Slots
    <3> QED
      BY <3>4 DEF Slots
  <2>2. CASE RecoveryDue
    <3>1. /\ breakerState' = "half_open" /\ halfOpenCalls' = 0
          /\ running' = [running EXCEPT ![t] = "probe"]
          /\ running[t] = "idle" /\ UNCHANGED successCount
      BY <1>1, <2>2 DEF Start, CanExecute, RecoveryDue, ProbeAllowed, TypeOK
    <3>2. Cardinality(Probes') = 1
      <4>1. Probes = {}
        BY <2>2 DEF RecoveryDue, Slots
      <4>2. Cardinality(Probes') = Cardinality(Probes) + 1
        BY <3>1, ProbeAdded
      <4> QED
        BY <4>1, <4>2, FS_EmptySet
    <3> QED
      BY <3>1, <3>2 DEF Slots, TypeOK, BreakerTypeOK
  <2>3. CASE ProbeAllowed
    <3>1. /\ breakerState' = "half_open" /\ halfOpenCalls' = halfOpenCalls + 1
          /\ running' = [running EXCEPT ![t] = "probe"]
          /\ running[t] = "idle" /\ UNCHANGED <<successCount, lost>>
      BY <1>1, <2>3 DEF Start, CanExecute, RecoveryDue, ProbeAllowed, TypeOK
    <3>2. Cardinality(Probes') = Cardinality(Probes) + 1
      BY <3>1, ProbeAdded
    <3> QED
      BY <1>0, <2>3, <3>1, <3>2 DEF ProbeAllowed, Slots, TypeOK, BreakerTypeOK
  <2> QED
    BY <1>1, <2>1, <2>2, <2>3 DEF Start, CanExecute
<1>2. ASSUME NEW t \in Tasks,
             \/ Succeed(t) /\ Recovered
             \/ Fail(t) /\ breakerState = "half_open"
      PROVE  Slots'
  <2>1. breakerState' # "half_open" /\ running' = Demoted(Ended(t))
    BY <1>2 DEF Succeed, Fail, RecordSuccess, RecordFailure, Recovered
  <2>2. Probes' = {}
    BY <2>1 DEF Probes, Demoted
  <2>3. ~lost'
    BY <1>2, Zenon DEF Succeed, Fail
  <2> QED
    BY <2>1, <2>2, <2>3 DEF Slots
<1>3. ASSUME NEW t \in Tasks, Succeed(t), ~Recovered
      PROVE  Slots'
  <2>1. /\ running' = Ended(t) /\ UNCHANGED <<breakerState, halfOpenCalls>>
        /\ breakerState = "half_open" => successCount' = successCount + 1
    BY <1>3 DEF Succeed, RecordSuccess, Recovered
  <2>2. lost' <=> lost
    BY <1>3, Zenon DEF Succeed
  <2>3. /\ Probes' \subseteq Probes
        /\ Cardinality(Probes') \in {Cardinality(Probes), Cardinality(Probes) - 1}
    BY <2>1, ProbeEnded
  <2> QED
    BY <1>0, <2>1, <2>2, <2>3 DEF Slots, TypeOK, BreakerTypeOK
<1>4. ASSUME NEW t \in Tasks, Fail(t), breakerState # "half_open"
      PROVE  Slots'
  <2>1. running' = Ended(t) /\ breakerState' # "half_open"
    BY <1>4 DEF Fail, RecordFailure
  <2>2. Probes' \subseteq Probes
    BY <2>1, ProbeEnded
  <2>3. lost' => lost
    BY <1>4, Zenon DEF Fail
  <2> QED
    BY <1>4, <2>1, <2>2, <2>3 DEF Slots
<1>5. ASSUME NEW t \in Tasks, Cancel(t)
      PROVE  Slots'
  <2>1. running' = Ended(t) /\ UNCHANGED breakerVars
    BY <1>5 DEF Cancel
  <2>2. /\ Probes' \subseteq Probes
        /\ Cardinality(Probes') \in {Cardinality(Probes), Cardinality(Probes) - 1}
        /\ t \notin Probes => Probes' = Probes
    BY <2>1, ProbeEnded DEF Probes
  <2>3. lost' <=> lost \/ t \in Probes
    BY <1>5, Zenon DEF Cancel, Probes
  <2> QED
    BY <1>0, <2>1, <2>2, <2>3 DEF breakerVars, Slots, TypeOK, BreakerTypeOK
<1>6. CASE Tick \/ UNCHANGED vars
  <2>1. UNCHANGED <<breakerState, halfOpenCalls, successCount, lost, Probes>>
    BY <1>6 DEF Tick, BreakerTick, vars, Probes
  <2> QED
    BY <2>1 DEF Slots
<1> QED
  BY <1>1, <1>2, <1>3, <1>4, <1>5, <1>6 DEF Next

LEMMA SlotsHold == Spec => [](TypeOK /\ Counters /\ Slots)
<1>1. Init => Slots
  BY DEF Init, BreakerInit, Slots, Probes
<1> QED
  BY <1>1, SlotsStep, CountersHold, PTL DEF Spec

(* A recovering dependency never sees more concurrent probes than          *)
(* half_open_max_calls and the call that entered HALF_OPEN.                *)
THEOREM ProbesAreBounded == Spec => []ProbesBounded
<1>1. TypeOK /\ Slots => ProbesBounded
  <2> SUFFICES ASSUME TypeOK, Slots
               PROVE  Cardinality(Probes) <= HalfOpenMaxCalls + 1
    BY DEF ProbesBounded
  <2>1. CASE breakerState = "half_open"
    BY <2>1, ProbesFinite, RetryBreakerAssumption
    DEF RetryBreakerAssumption, TypeOK, BreakerTypeOK, Slots
  <2>2. CASE breakerState # "half_open"
    BY <2>2, FS_EmptySet, RetryBreakerAssumption
    DEF RetryBreakerAssumption, Slots
  <2> QED
    BY <2>1, <2>2
<1> QED
  BY <1>1, SlotsHold, PTL

(* Where success_threshold is at most half_open_max_calls + 1, a breaker   *)
(* out of slots still waits for a probe, unless one was cancelled.         *)
THEOREM NeverStuckHalfOpen == Spec => []NeverWedged
<1>1. TypeOK /\ Counters /\ Slots => NeverWedged
  <2> SUFFICES ASSUME TypeOK, Counters, Slots, breakerState = "half_open",
                      ~ProbeAllowed, ~lost, Probes = {}
               PROVE  FALSE
    BY DEF NeverWedged
  <2>1. Cardinality(Probes) = 0
    BY FS_EmptySet
  <2> QED
    BY <2>1, RetryBreakerAssumption
    DEF RetryBreakerAssumption, TypeOK, BreakerTypeOK, Counters, Slots,
        ProbeAllowed
<1> QED
  BY <1>1, SlotsHold, PTL

-----------------------------------------------------------------------------
(* The refinement. *)

LEMMA RefinementStep ==
  ASSUME TypeOK, TypeOK', Counters, Slots, [Next]_vars
  PROVE  B!Next \/ UNCHANGED B!vars
<1> USE RetryBreakerAssumption
    DEF RetryBreakerAssumption, TypeOK, BreakerTypeOK, Counters, FailsFast
<1>1. ASSUME NEW t \in Tasks, Start(t)
      PROVE  B!FirstProbe \/ B!Probe \/ UNCHANGED B!vars
  <2>1. CASE RecoveryDue
    <3>1. ~(breakerState' = "half_open" /\ lost')
      BY <1>1, <2>1, Zenon DEF Start, RecoveryDue, Slots
    <3> QED
      BY <1>1, <2>1, <3>1 DEF Start, CanExecute, RecoveryDue, ProbeAllowed,
                              B!FirstProbe, B!Enter
  <2>2. lost' <=> lost
    BY <1>1, Zenon DEF Start
  <2>3. CASE ProbeAllowed
    <3>1. /\ breakerState = "half_open" /\ breakerState' = "half_open"
          /\ halfOpenCalls < HalfOpenMaxCalls
          /\ halfOpenCalls' = halfOpenCalls + 1
          /\ UNCHANGED <<failureCount, successCount, sinceFailure>>
      BY <1>1, <2>3 DEF Start, CanExecute, RecoveryDue, ProbeAllowed
    <3>2. (breakerState' = "half_open" /\ lost') = (breakerState = "half_open" /\ lost)
      BY <2>2, <3>1, Zenon
    <3> QED
      BY <3>1, <3>2 DEF B!Probe
  <2>4. CASE UNCHANGED breakerVars
    <3>1. (breakerState' = "half_open" /\ lost') = (breakerState = "half_open" /\ lost)
      BY <2>2, <2>4, Zenon DEF breakerVars
    <3> QED
      BY <2>4, <3>1 DEF breakerVars, B!vars
  <2> QED
    BY <1>1, <2>1, <2>3, <2>4 DEF Start, CanExecute
<1>2. ASSUME NEW t \in Tasks, Succeed(t)
      PROVE  B!Close \/ B!Succeed \/ B!ForgetFailures \/ UNCHANGED B!vars
  <2>1. CASE Recovered
    BY <1>2, <2>1 DEF Succeed, RecordSuccess, Recovered, B!Close, B!Enter
  <2>2. CASE breakerState = "half_open" /\ ~Recovered
    <3>1. lost' <=> lost
      BY <1>2, <2>2, Zenon DEF Succeed
    <3>2. /\ successCount' = successCount + 1 /\ successCount + 1 < SuccessThreshold
          /\ UNCHANGED <<breakerState, failureCount, halfOpenCalls, sinceFailure>>
      BY <1>2, <2>2 DEF Succeed, RecordSuccess, Recovered
    <3>3. (breakerState' = "half_open" /\ lost') = (breakerState = "half_open" /\ lost)
      BY <3>1, <3>2, Zenon
    <3> QED
      BY <2>2, <3>2, <3>3 DEF B!Succeed
  <2>3. CASE breakerState # "half_open"
    BY <1>2, <2>3 DEF Succeed, RecordSuccess, Recovered, B!ForgetFailures,
                      B!vars
  <2> QED
    BY <2>1, <2>2, <2>3
<1>3. ASSUME NEW t \in Tasks, Fail(t)
      PROVE  B!Open \/ B!CountFailure \/ B!WaitAnew
  <2>1. CASE breakerState = "half_open"
    BY <1>3, <2>1 DEF Fail, RecordFailure, B!Open, B!Enter
  <2>2. CASE breakerState = "open"
    BY <1>3, <2>2 DEF Fail, RecordFailure, B!WaitAnew
  <2>3. CASE breakerState = "closed"
    BY <1>3, <2>3 DEF Fail, RecordFailure, B!Open, B!CountFailure, B!Enter
  <2> QED
    BY <2>1, <2>2, <2>3
<1>4. ASSUME NEW t \in Tasks, Cancel(t)
      PROVE  B!FallSilent \/ UNCHANGED B!vars
  BY <1>4 DEF Cancel, breakerVars, B!FallSilent, B!vars
<1>5. ASSUME Tick
      PROVE  B!Wait \/ UNCHANGED B!vars
  BY <1>5 DEF Tick, BreakerTick, B!Wait, B!vars
<1>6. ASSUME UNCHANGED vars
      PROVE  UNCHANGED B!vars
  BY <1>6 DEF vars, B!vars
<1> QED
  BY <1>1, <1>2, <1>3, <1>4, <1>5, <1>6 DEF Next, B!Next

(* The kill switch's breaker implements Breaker: each step is a step of the*)
(* abstract breaker or a stutter.                                          *)
THEOREM ImplementsBreaker == Spec => StepsOfBreaker
<1>1. Init => B!Init
  BY DEF Init, BreakerInit, B!Init
<1>2. TypeOK /\ TypeOK' /\ Counters /\ Slots /\ [Next]_vars
        => [B!Next]_(B!vars)
  BY RefinementStep
<1> QED
  BY <1>1, <1>2, SlotsHold, PTL DEF Spec, StepsOfBreaker, B!Spec

=============================================================================
