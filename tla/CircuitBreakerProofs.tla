------------------------ MODULE CircuitBreakerProofs ------------------------
(***************************************************************************)
(* The safety of the shared circuit breaker for every number of threads,   *)
(* every pair of thresholds and every timeout.                             *)
(***************************************************************************)
EXTENDS CircuitBreaker, FiniteSetTheorems, TLAPS

LEMMA ProbesFinite ==
  ASSUME BreakerAssumption
  PROVE  IsFiniteSet(Probes) /\ Cardinality(Probes) \in Nat
<1>1. Probes \subseteq Callers
  BY DEF Probes
<1>2. IsFiniteSet(Probes)
  BY <1>1, FS_Subset, BreakerAssumption
<1> QED
  BY <1>2, FS_CardinalityType

(* The flag is Boolean, kept apart from the arithmetic. *)
LEMMA LostStep == [Next]_vars /\ lost \in BOOLEAN => lost' \in BOOLEAN
<1> SUFFICES ASSUME [Next]_vars, lost \in BOOLEAN PROVE lost' \in BOOLEAN
  OBVIOUS
<1>1. ASSUME NEW c \in Callers, Admit(c) PROVE lost' \in BOOLEAN
  BY <1>1, Zenon DEF Admit, AdmitClosed, AdmitFirstProbe, AdmitProbe,
                     RecordStateTransition
<1>2. ASSUME NEW c \in Callers, RecordSuccess(c) \/ RecordFailure(c)
      PROVE  lost' \in BOOLEAN
  BY <1>2, Zenon DEF RecordSuccess, RecordFailure, RecordStateTransition
<1>3. ASSUME NEW c \in Callers, EndUnreported(c) PROVE lost' \in BOOLEAN
  <2>1. lost' = (lost \/ running[c] = "probe")
    BY <1>3, Zenon DEF EndUnreported
  <2> QED
    BY <2>1, Zenon
<1>4. CASE ForceOpen \/ ForceClose \/ Reset \/ Tick \/ UNCHANGED vars
  BY <1>4, Zenon DEF ForceOpen, ForceClose, Reset, Tick, vars,
                     RecordStateTransition
<1> QED
  BY <1>1, <1>2, <1>3, <1>4, Zenon DEF Next

(* The variables stay in their types: in particular the slot counter never *)
(* passes half_open_max_calls.                                             *)
THEOREM TypeCorrect == Spec => []TypeOK
<1>1. Init => TypeOK
  <2> SUFFICES ASSUME Init PROVE TypeOK
    OBVIOUS
  <2>1. lost \in BOOLEAN
    BY Zenon DEF Init
  <2> QED
    BY <2>1, BreakerAssumption DEF Init, TypeOK, States, Activities
<1>2. TypeOK /\ [Next]_vars => TypeOK'
  <2> SUFFICES ASSUME TypeOK, [Next]_vars PROVE TypeOK'
    OBVIOUS
  <2>l. lost \in BOOLEAN /\ lost' \in BOOLEAN
    BY LostStep, Zenon DEF TypeOK
  <2> USE BreakerAssumption, <2>l DEF TypeOK, States, Activities
  <2>0. Demoted(running) \in [Callers -> Activities]
    BY DEF Demoted
  <2>1. ASSUME NEW c \in Callers, Admit(c) PROVE TypeOK'
    BY <2>0, <2>1 DEF Admit, AdmitClosed, AdmitFirstProbe, AdmitProbe,
                      HasFreeSlot, RecordStateTransition
  <2>2. ASSUME NEW c \in Callers
        PROVE  /\ Returned(c) \in [Callers -> Activities]
               /\ Demoted(Returned(c)) \in [Callers -> Activities]
    BY DEF Returned, Demoted
  <2>3. ASSUME NEW c \in Callers, RecordSuccess(c) PROVE TypeOK'
    BY <2>2, <2>3 DEF RecordSuccess, RecordStateTransition, UpTo
  <2>4. ASSUME NEW c \in Callers, RecordFailure(c) PROVE TypeOK'
    BY <2>2, <2>4 DEF RecordFailure, RecordStateTransition, UpTo
  <2>5. ASSUME NEW c \in Callers, EndUnreported(c) PROVE TypeOK'
    BY <2>2, <2>5 DEF EndUnreported
  <2>6. CASE ForceOpen \/ ForceClose \/ Reset
    BY <2>0, <2>6 DEF ForceOpen, ForceClose, Reset, RecordStateTransition
  <2>7. CASE Tick
    BY <2>7 DEF Tick
  <2>8. CASE UNCHANGED vars
    BY <2>8 DEF vars
  <2> QED
    BY <2>1, <2>3, <2>4, <2>5, <2>6, <2>7, <2>8 DEF Next
<1> QED
  BY <1>1, <1>2, PTL DEF Spec

-----------------------------------------------------------------------------
(* Late results never leak into the evidence: a HALF_OPEN breaker has only *)
(* counted successes of its own period, fewer than it needs to close.      *)
CountersInv == EvidenceIsFresh /\ FailsFast

THEOREM CountersCorrect == Spec => [](EvidenceIsFresh /\ FailsFast)
<1>1. Init => CountersInv
  BY BreakerAssumption DEF Init, CountersInv, EvidenceIsFresh, FailsFast
<1>2. TypeOK /\ CountersInv /\ [Next]_vars => CountersInv'
  <2> SUFFICES ASSUME TypeOK, CountersInv, [Next]_vars PROVE CountersInv'
    OBVIOUS
  <2> USE BreakerAssumption DEF TypeOK, States, CountersInv, EvidenceIsFresh,
          FailsFast
  <2>1. ASSUME NEW c \in Callers, Admit(c) PROVE CountersInv'
    BY <2>1 DEF Admit, AdmitClosed, AdmitFirstProbe, AdmitProbe,
                RecordStateTransition
  <2>2. ASSUME NEW c \in Callers, RecordSuccess(c) PROVE CountersInv'
    BY <2>2 DEF RecordSuccess, ClosesAfter, RecordStateTransition, UpTo
  <2>3. ASSUME NEW c \in Callers, RecordFailure(c) PROVE CountersInv'
    BY <2>3 DEF RecordFailure, OpensAfter, RecordStateTransition, UpTo
  <2>4. CASE \/ ForceOpen \/ ForceClose \/ Reset \/ Tick \/ UNCHANGED vars
             \/ \E c \in Callers : EndUnreported(c)
    BY <2>4 DEF ForceOpen, ForceClose, Reset, Tick, EndUnreported, vars,
                RecordStateTransition
  <2> QED
    BY <2>1, <2>2, <2>3, <2>4 DEF Next
<1> QED
  BY <1>1, <1>2, TypeCorrect, PTL DEF Spec, CountersInv

-----------------------------------------------------------------------------
(* Each probe holds a slot taken in this period; and, if no probe of the   *)
(* period was lost, each slot is a probe still running or a success.       *)
SlotInv ==
  /\ state # "HALF_OPEN" => Probes = {}
  /\ state = "HALF_OPEN" =>
       /\ Cardinality(Probes) <= halfOpenCalls
       /\ ~lost => halfOpenCalls <= consecutiveSuccesses + Cardinality(Probes)

(* Demoting leaves no probe; admitting one adds one; a return frees one.   *)
LEMMA DemotedHasNoProbe ==
  ASSUME NEW r, running' = Demoted(r) PROVE Probes' = {}
BY DEF Probes, Demoted

LEMMA ProbeAdded ==
  ASSUME BreakerAssumption, TypeOK, NEW c \in Callers, running[c] # "probe",
         running' = [running EXCEPT ![c] = "probe"]
  PROVE  Cardinality(Probes') = Cardinality(Probes) + 1
<1>1. Probes' = Probes \cup {c} /\ c \notin Probes
  BY DEF TypeOK, Probes
<1> QED
  BY <1>1, ProbesFinite, FS_AddElement

LEMMA ProbeReturned ==
  ASSUME BreakerAssumption, TypeOK, NEW c \in Callers,
         running' = Returned(c)
  PROVE  /\ Probes' \subseteq Probes
         /\ Cardinality(Probes') \in {Cardinality(Probes), Cardinality(Probes) - 1}
<1>1. Probes' = Probes \ {c}
  BY DEF TypeOK, Probes, Returned
<1>2. CASE c \in Probes
  BY <1>1, <1>2, ProbesFinite, FS_RemoveElement
<1>3. CASE c \notin Probes
  <2>1. Probes' = Probes
    BY <1>1, <1>3
  <2> QED
    BY <2>1
<1> QED
  BY <1>1, <1>2, <1>3

LEMMA SlotStep ==
  ASSUME TypeOK, TypeOK', CountersInv, SlotInv, [Next]_vars PROVE SlotInv'
<1> USE BreakerAssumption
<1>0. Cardinality(Probes) \in Nat
  BY ProbesFinite
<1>1. ASSUME NEW c \in Callers, Admit(c) PROVE SlotInv'
  <2>1. CASE AdmitClosed(c)
    BY <1>1, <2>1 DEF AdmitClosed, Admit, SlotInv, Probes, TypeOK
  <2>2. CASE AdmitFirstProbe(c)
    <3>1. Probes' = {c}
      BY <2>2 DEF AdmitFirstProbe, Demoted, Probes, TypeOK
    <3>2. Cardinality(Probes') = 1
      BY <3>1, FS_Singleton
    <3> QED
      BY <2>2, <3>2 DEF AdmitFirstProbe, RecordStateTransition, SlotInv
  <2>3. CASE AdmitProbe(c)
    <3>1. Cardinality(Probes') = Cardinality(Probes) + 1
      BY <1>1, <2>3, ProbeAdded DEF Admit, AdmitProbe
    <3> QED
      BY <1>0, <2>3, <3>1 DEF AdmitProbe, SlotInv, TypeOK
  <2> QED
    BY <1>1, <2>1, <2>2, <2>3 DEF Admit
<1>2. ASSUME NEW c \in Callers, RecordSuccess(c) PROVE SlotInv'
  <2>1. CASE ClosesAfter(consecutiveSuccesses + 1)
    <3>1. Probes' = {} /\ state' = "CLOSED"
      BY <1>2, <2>1, DemotedHasNoProbe DEF RecordSuccess
    <3> QED
      BY <3>1 DEF SlotInv
  <2>2. CASE ~ClosesAfter(consecutiveSuccesses + 1)
    <3>1. /\ running' = Returned(c) /\ UNCHANGED <<state, halfOpenCalls, lost>>
          /\ state = "HALF_OPEN" => consecutiveSuccesses' = consecutiveSuccesses + 1
      BY <1>2, <2>2 DEF RecordSuccess, ClosesAfter, UpTo, TypeOK, CountersInv,
                        EvidenceIsFresh
    <3>2. /\ Probes' \subseteq Probes
          /\ Cardinality(Probes') \in {Cardinality(Probes), Cardinality(Probes) - 1}
      BY <3>1, ProbeReturned
    <3> QED
      BY <1>0, <3>1, <3>2 DEF SlotInv, TypeOK
  <2> QED
    BY <2>1, <2>2
<1>3. ASSUME NEW c \in Callers, RecordFailure(c) PROVE SlotInv'
  <2>1. CASE OpensAfter(consecutiveFailures + 1)
    <3>1. Probes' = {} /\ state' = "OPEN"
      BY <1>3, <2>1, DemotedHasNoProbe DEF RecordFailure
    <3> QED
      BY <3>1 DEF SlotInv
  <2>2. CASE ~OpensAfter(consecutiveFailures + 1)
    <3>1. state' # "HALF_OPEN" /\ state # "HALF_OPEN" /\ running' = Returned(c)
      BY <1>3, <2>2 DEF RecordFailure, OpensAfter
    <3> QED
      BY <3>1, ProbeReturned DEF SlotInv
  <2> QED
    BY <2>1, <2>2
<1>4. ASSUME NEW c \in Callers, EndUnreported(c) PROVE SlotInv'
  <2>1. /\ Probes' \subseteq Probes
        /\ Cardinality(Probes') \in {Cardinality(Probes), Cardinality(Probes) - 1}
    BY <1>4, ProbeReturned DEF EndUnreported
  <2>2. UNCHANGED <<state, halfOpenCalls, consecutiveSuccesses>>
    BY <1>4 DEF EndUnreported
  <2>3. CASE running[c] = "probe"
    <3>1. lost'
      BY <1>4, <2>3, Zenon DEF EndUnreported
    <3> QED
      BY <1>0, <2>1, <2>2, <3>1 DEF SlotInv, TypeOK
  <2>4. CASE running[c] # "probe"
    <3>1. ~lost' => ~lost
      BY <1>4, Zenon DEF EndUnreported
    <3>2. Probes' = Probes
      BY <1>4, <2>4 DEF EndUnreported, Returned, Probes, TypeOK
    <3> QED
      BY <2>2, <3>1, <3>2 DEF SlotInv
  <2> QED
    BY <2>3, <2>4
<1>5. CASE ForceOpen \/ Reset
  <2>1. Probes' = {} /\ state' # "HALF_OPEN"
    BY <1>5, DemotedHasNoProbe DEF ForceOpen, Reset
  <2> QED
    BY <2>1 DEF SlotInv
<1>6. CASE ForceClose
  <2>1. CASE state = "CLOSED"
    BY <1>6, <2>1 DEF ForceClose, SlotInv, Probes
  <2>2. CASE state # "CLOSED"
    <3>1. Probes' = {} /\ state' = "CLOSED"
      BY <1>6, <2>2, DemotedHasNoProbe DEF ForceClose
    <3> QED
      BY <3>1 DEF SlotInv
  <2> QED
    BY <2>1, <2>2
<1>7. CASE Tick \/ UNCHANGED vars
  <2>1. /\ Probes' = Probes
        /\ UNCHANGED <<state, halfOpenCalls, consecutiveSuccesses, lost>>
    BY <1>7 DEF Tick, vars, Probes
  <2> QED
    BY <2>1 DEF SlotInv
<1> QED
  BY <1>1, <1>2, <1>3, <1>4, <1>5, <1>6, <1>7 DEF Next

LEMMA SlotsAccounted == Spec => [](TypeOK /\ CountersInv /\ SlotInv)
<1>1. Init => SlotInv
  <2>1. Init => Probes = {} /\ state = "CLOSED"
    BY DEF Init, Probes
  <2> QED
    BY <2>1 DEF SlotInv
<1> QED
  BY <1>1, SlotStep, TypeCorrect, CountersCorrect, PTL DEF Spec, CountersInv

(* A recovering service never sees more concurrent probes than             *)
(* half_open_max_calls.                                                    *)
THEOREM ProbesAreBounded == Spec => []ProbesBounded
<1>1. TypeOK /\ SlotInv => ProbesBounded
  <2> SUFFICES ASSUME TypeOK, SlotInv PROVE Cardinality(Probes) <= HalfOpenMaxCalls
    BY DEF ProbesBounded
  <2>1. CASE state = "HALF_OPEN"
    BY <2>1, ProbesFinite, BreakerAssumption DEF TypeOK, SlotInv
  <2>2. CASE state # "HALF_OPEN"
    BY <2>2, FS_EmptySet, BreakerAssumption DEF SlotInv
  <2> QED
    BY <2>1, <2>2
<1> QED
  BY <1>1, SlotsAccounted, PTL

(* The breaker is never stuck in HALF_OPEN with all its slots spent and no *)
(* probe left to report, unless one of this period ended unreported.       *)
THEOREM NeverStuckHalfOpen == Spec => []NeverWedged
<1>1. TypeOK /\ CountersInv /\ SlotInv => NeverWedged
  <2> SUFFICES ASSUME TypeOK, CountersInv, SlotInv, state = "HALF_OPEN",
                      ~HasFreeSlot, ~lost, Probes = {}
               PROVE  FALSE
    BY DEF NeverWedged
  <2>1. Cardinality(Probes) = 0
    BY FS_EmptySet
  <2> QED
    BY <2>1, BreakerAssumption DEF TypeOK, CountersInv, EvidenceIsFresh, SlotInv,
                                   HasFreeSlot
<1> QED
  BY <1>1, SlotsAccounted, PTL

-----------------------------------------------------------------------------
(* The refinement.  Each method is the step of the abstract breaker that   *)
(* the state calls for, and a stutter where only late results are counted. *)
BStep ==
  \/ B!Next
  \/ ForceOpen /\ B!Command("open")
  \/ (ForceClose \/ Reset) /\ B!Command("closed")
  \/ UNCHANGED B!vars

LEMMA RefinementStep ==
  ASSUME TypeOK, TypeOK', CountersInv, [Next]_vars
  PROVE  BStep
<1> USE BreakerAssumption
    DEF TypeOK, States, CountersInv, EvidenceIsFresh, FailsFast, Phase, BStep,
        RecordStateTransition
<1>1. ASSUME NEW c \in Callers, AdmitClosed(c)
      PROVE  UNCHANGED B!vars
  BY <1>1 DEF AdmitClosed, B!vars
<1>2. ASSUME NEW c \in Callers, AdmitFirstProbe(c)
      PROVE  B!FirstProbe
  BY <1>2 DEF AdmitFirstProbe, B!FirstProbe, B!Enter
<1>3. ASSUME NEW c \in Callers, AdmitProbe(c)
      PROVE  B!Probe
  BY <1>3 DEF AdmitProbe, HasFreeSlot, B!Probe
<1>4. ASSUME NEW c \in Callers, RecordSuccess(c)
      PROVE  B!Close \/ B!Succeed \/ B!ForgetFailures \/ UNCHANGED B!vars
  BY <1>4 DEF RecordSuccess, ClosesAfter, UpTo, B!Close, B!Succeed, B!Enter,
              B!ForgetFailures, B!vars
<1>5. ASSUME NEW c \in Callers, RecordFailure(c)
      PROVE  B!Open \/ B!CountFailure \/ UNCHANGED B!vars
  BY <1>5 DEF RecordFailure, OpensAfter, UpTo, B!Open, B!CountFailure, B!Enter,
              B!vars
<1>6. ASSUME NEW c \in Callers, EndUnreported(c)
      PROVE  B!FallSilent \/ UNCHANGED B!vars
  BY <1>6 DEF EndUnreported, B!FallSilent, B!vars
<1>7. ASSUME ForceOpen
      PROVE  B!Command("open")
  BY <1>7 DEF ForceOpen, B!Command, B!Enter
<1>8. ASSUME ForceClose \/ Reset
      PROVE  B!Command("closed") \/ UNCHANGED B!vars
  BY <1>8 DEF ForceClose, Reset, B!Command, B!Enter, B!vars
<1>9. ASSUME Tick
      PROVE  B!Wait \/ UNCHANGED B!vars
  BY <1>9 DEF Tick, B!Wait, B!vars
<1>10. ASSUME UNCHANGED vars
       PROVE  UNCHANGED B!vars
  BY <1>10 DEF vars, B!vars
<1> QED
  BY <1>1, <1>2, <1>3, <1>4, <1>5, <1>6, <1>7, <1>8, <1>9, <1>10
  DEF Next, Admit, B!Next

(* The shared breaker implements Breaker: for every number of threads,     *)
(* threshold and timeout each step is a step of the abstract breaker, a    *)
(* stutter, or an operator's command.                                      *)
THEOREM ImplementsBreaker == Spec => StepsOfBreaker
<1>1. Init => B!Init
  BY DEF Init, B!Init, Phase
<1>2. TypeOK /\ TypeOK' /\ CountersInv /\ [Next]_vars
        => [ \/ B!Next
             \/ ForceOpen /\ B!Command("open")
             \/ (ForceClose \/ Reset) /\ B!Command("closed") ]_(B!vars)
  BY RefinementStep DEF BStep
<1> QED
  BY <1>1, <1>2, SlotsAccounted, PTL DEF Spec, StepsOfBreaker

=============================================================================
