------------------------ MODULE SignalConsumerProofs ------------------------
(***************************************************************************)
(* Theorems about SignalConsumer, for any instances, signals and           *)
(* conditions: the types; that the lock excludes; that no record is ahead  *)
(* of the orchestrator, a signal of the stream is put at most once and one *)
(* instance never puts a processed signal again, and with these three that *)
(* it implements SignalIntake; and that the kill switch stops polls.       *)
(***************************************************************************)
EXTENDS SignalConsumer, FiniteSetTheorems, TLAPS

WithKey == Section \cup {"ready"}
WithMessage == {"noting", "acking"}

(* Which signals an instance may be looking at, by where it is. *)
Placed ==
  \A i \in Instances :
    /\ pc[i] \in WithKey \cup {"keys"} => batch[i] \subseteq Keyed
    /\ pc[i] \in WithMessage \cup {"messages"} => batch[i] \subseteq Streamed
    /\ pc[i] \in WithKey => current[i] \in Keyed
    /\ pc[i] \in WithMessage => current[i] \in Streamed

(* The types, and what the types of the next state rest on. *)
TInv == TypeOK /\ Placed

LEMMA InitTInv == Init => TInv
BY SwitchAssumption, ConsumerAssumption
   DEF SwitchAssumption, ConsumerAssumption, Init, TInv, TypeOK, Placed,
       SwitchInit, SwitchTypeOK, Stale, Places, Section, WithKey, WithMessage

(* One more submission, and one more tick, stay within their bounds. *)
LEMMA Bounded ==
  ASSUME NEW cap \in Nat, NEW n \in 0..cap
  PROVE  UpTo(cap, n + 1) \in 0..cap
BY DEF UpTo

LEMMA PutTypes ==
  ASSUME TypeOK, NEW s \in Signals, Put(s)
  PROVE  /\ submissions' \in [Signals -> 0..2]
         /\ submissions'[s] > 0
         /\ submissions[s] = 0 => submissions'[s] = 1
         /\ \A r \in Signals : submissions'[r] >= submissions[r]
         /\ \A r \in Signals \ {s} : submissions'[r] = submissions[r]
BY DEF TypeOK, Put, UpTo

LEMMA SwitchTypes ==
  ASSUME SwitchTypeOK
  PROVE  /\ ActivateSwitch \/ DeactivateSwitch \/ SwitchTick => SwitchTypeOK'
         /\ \A m \in Managers : \A answer, mayRaise \in BOOLEAN :
              GetStatus(m, answer, mayRaise) /\ UNCHANGED <<remaining, activeFor>>
                => SwitchTypeOK'
         /\ \A m \in Managers :
              cache' = [cache EXCEPT ![m] = Stale]
                /\ UNCHANGED <<remaining, activeFor>> => SwitchTypeOK'
<1> USE SwitchAssumption DEF SwitchAssumption, SwitchTypeOK
<1>1. ActivateSwitch => SwitchTypeOK'
  BY DEF ActivateSwitch
<1>2. DeactivateSwitch => SwitchTypeOK'
  BY DEF DeactivateSwitch
<1>3. ASSUME SwitchTick PROVE SwitchTypeOK'
  <2>1. remaining' \in 0..SwitchTtl
    BY <1>3 DEF SwitchTick, Active
  <2>2. activeFor' \in 0..CacheTtl
    BY <1>3, Bounded DEF SwitchTick
  <2>3. \A m \in Managers : Aged(cache[m]) \in [active : BOOLEAN, age : 0..CacheTtl]
    BY Bounded DEF Aged
  <2>4. cache' \in [Managers -> [active : BOOLEAN, age : 0..CacheTtl]]
    BY <1>3, <2>3 DEF SwitchTick
  <2> QED BY <2>1, <2>2, <2>4
<1>4. ASSUME NEW m \in Managers, NEW answer \in BOOLEAN, NEW mayRaise \in BOOLEAN,
             GetStatus(m, answer, mayRaise), UNCHANGED <<remaining, activeFor>>
      PROVE  SwitchTypeOK'
  BY <1>4 DEF GetStatus, Active
<1>5. ASSUME NEW m \in Managers, cache' = [cache EXCEPT ![m] = Stale],
             UNCHANGED <<remaining, activeFor>>
      PROVE  SwitchTypeOK'
  BY <1>5 DEF Stale
<1> QED BY <1>1, <1>2, <1>3, <1>4, <1>5

LEMMA NextTInv == TInv /\ [Next]_vars => TInv'
<1> SUFFICES ASSUME TInv, [Next]_vars PROVE TInv'
  OBVIOUS
<1> USE ConsumerAssumption
    DEF ConsumerAssumption, TInv, TypeOK, Placed, Places, Section, WithKey,
        WithMessage, Instances, Signals, Goto, Leave, redisVars, switchVars
<1>0. UNCHANGED switchVars => SwitchTypeOK'
  BY DEF SwitchTypeOK
<1>1. ASSUME NEW i \in Instances, Start(i) PROVE TInv'
  <2>1. SwitchTypeOK'
    BY <1>1, SwitchTypes DEF Start
  <2> QED BY <1>1, <2>1 DEF Start
<1>2. ASSUME NEW i \in Instances, Crash(i) PROVE TInv'
  BY <1>0, <1>2 DEF Crash
<1>3. ASSUME NEW i \in Instances, Stop(i) PROVE TInv'
  BY <1>0, <1>3 DEF Stop
<1>4. ASSUME NEW i \in Instances, Poll(i) PROVE TInv'
  <2>1. PICK answer \in BOOLEAN : GetStatus(i, answer, env.faults # "none")
    BY <1>4 DEF Poll
  <2>2. (env.faults # "none") \in BOOLEAN /\ UNCHANGED <<remaining, activeFor>>
    BY <1>4 DEF Poll
  <2>3. SwitchTypeOK'
    BY <2>1, <2>2, SwitchTypes
  <2> QED BY <1>4, <2>3 DEF Poll
<1>5. ASSUME NEW i \in Instances, ReadStream(i) PROVE TInv'
  <2>1. stream' \in [Streamed -> {"unsent", "new", "pending", "acked"}]
    BY <1>5 DEF ReadStream, Effect, Delivered
  <2>2. NewMessages \subseteq Streamed
    BY DEF NewMessages
  <2>3. \/ Goto(i, "messages") /\ batch' = [batch EXCEPT ![i] = NewMessages]
        \/ Goto(i, "keys") /\ batch' = [batch EXCEPT ![i] = Keyed]
    BY <1>5 DEF ReadStream
  <2> QED BY <1>0, <1>5, <2>1, <2>2, <2>3 DEF ReadStream
<1>6. ASSUME NEW i \in Instances, EndBatch(i) PROVE TInv'
  BY <1>0, <1>6 DEF EndBatch
<1>7. ASSUME NEW i \in Instances, NEW s \in Signals, SkipKey(i, s) PROVE TInv'
  BY <1>0, <1>7 DEF SkipKey, Skip
<1>8. ASSUME NEW i \in Instances, NEW s \in Signals, ReadKey(i, s) PROVE TInv'
  BY <1>0, <1>8 DEF ReadKey
<1>9. ASSUME NEW i \in Instances, NEW s \in Signals, SubmitMessage(i, s)
      PROVE  TInv'
  BY <1>0, <1>9, PutTypes DEF SubmitMessage
<1>10. ASSUME NEW i \in Instances, NEW s \in Signals, SkipMessage(i, s)
       PROVE  TInv'
  BY <1>0, <1>10 DEF SkipMessage
<1>11. ASSUME NEW i \in Instances, Acquire(i) PROVE TInv'
  BY <1>0, <1>11 DEF Acquire
<1>12. ASSUME NEW i \in Instances, GiveUpLock(i) PROVE TInv'
  <2>1. locks' \subseteq Keyed
    BY <1>12 DEF GiveUpLock, Effect
  <2> QED BY <1>0, <1>12, <2>1 DEF GiveUpLock
<1>13. ASSUME NEW i \in Instances, SubmitKeyed(i) PROVE TInv'
  <2>1. current[i] \in Signals
    BY <1>13 DEF SubmitKeyed
  <2> QED BY <1>0, <1>13, <2>1, PutTypes DEF SubmitKeyed
<1>14. ASSUME NEW i \in Instances, MarkConsumed(i) PROVE TInv'
  BY <1>0, <1>14 DEF MarkConsumed, Effect
<1>15. ASSUME NEW i \in Instances, MarkProcessed(i) PROVE TInv'
  <2>1. current[i] \in Signals
    BY <1>15 DEF MarkProcessed
  <2>2. processed' \subseteq Signals /\ known' \in [Instances -> SUBSET Signals]
    BY <1>15, <2>1 DEF MarkProcessed, Effect
  <2> QED BY <1>0, <1>15, <2>2 DEF MarkProcessed
<1>16. ASSUME NEW i \in Instances, Release(i) PROVE TInv'
  <2>1. locks' \subseteq Keyed
    BY <1>16 DEF Release, Effect
  <2>2. UNCHANGED <<switchVars, processed, consumed, stream, known,
                    submissions, env>>
    BY <1>16 DEF Release
  <2>3. \/ Leave(i, current[i], "keys")
        \/ /\ batch' = [batch EXCEPT ![i] = {}]
           /\ current' = [current EXCEPT ![i] = NoSignal]
           /\ Goto(i, "down")
    BY <1>16 DEF Release
  <2>4. /\ pc' \in [Instances -> Places]
        /\ batch' \in [Instances -> SUBSET Signals]
        /\ current' \in [Instances -> Signals \cup {NoSignal}]
        /\ \A j \in Instances :
             current'[j] # NoSignal
               <=> pc'[j] \in Section \cup {"ready", "noting", "acking"}
    BY <2>3
  <2>5. Placed'
    BY <1>16, <2>3 DEF Release
  <2> QED BY <1>0, <2>1, <2>2, <2>4, <2>5
<1>17. ASSUME NEW i \in Instances, Acknowledge(i) PROVE TInv'
  <2>1. stream' \in [Streamed -> {"unsent", "new", "pending", "acked"}]
    BY <1>17 DEF Acknowledge, Effect
  <2> QED BY <1>0, <1>17, <2>1 DEF Acknowledge
<1>18. ASSUME NEW s \in Streamed, Publish(s) PROVE TInv'
  BY <1>0, <1>18 DEF Publish
<1>19. ASSUME NEW s \in Keyed, LockExpires(s) PROVE TInv'
  BY <1>0, <1>19 DEF LockExpires
<1>20. ASSUME Operate PROVE TInv'
  BY <1>20, SwitchTypes DEF Operate
<1>21. ASSUME Tick PROVE TInv'
  BY <1>21, SwitchTypes DEF Tick
<1>22. CASE UNCHANGED vars
  BY <1>0, <1>22 DEF vars
<1> QED
  BY <1>1, <1>2, <1>3, <1>4, <1>5, <1>6, <1>7, <1>8, <1>9, <1>10, <1>11, <1>12,
     <1>13, <1>14, <1>15, <1>16, <1>17, <1>18, <1>19, <1>20, <1>21, <1>22
  DEF Next, Work

(* TypeOK: every variable stays within its type, an instance has a signal  *)
(* at hand exactly where the code has one.                                 *)
THEOREM TypeCorrect == Spec => []TypeOK
<1>1. TInv => TypeOK
  BY DEF TInv
<1> QED BY <1>1, InitTInv, NextTInv, PTL DEF Spec

-----------------------------------------------------------------------------
(* The processing lock: whoever is in the section of a signal has set its  *)
(* key, and nobody else is there.                                          *)
LInv ==
  \A i \in Instances : pc[i] \in Section =>
    /\ current[i] \in locks
    /\ \A j \in Instances :
         pc[j] \in Section /\ current[j] = current[i] => j = i

LEMMA NextLInv == TInv /\ LInv /\ [Next]_vars => LInv'
<1> SUFFICES ASSUME TInv, LInv, [Next]_vars PROVE LInv'
  OBVIOUS
<1> USE DEF TInv, TypeOK, Instances, LInv, Section, Goto, Leave, redisVars
<1>1. ASSUME NEW i \in Instances, Start(i) PROVE LInv'
  BY <1>1 DEF Start
<1>2. ASSUME NEW i \in Instances, Crash(i) PROVE LInv'
  BY <1>2 DEF Crash
<1>3. ASSUME NEW i \in Instances, Stop(i) PROVE LInv'
  BY <1>3 DEF Stop
<1>4. ASSUME NEW i \in Instances, Poll(i) PROVE LInv'
  BY <1>4 DEF Poll
<1>5. ASSUME NEW i \in Instances, ReadStream(i) PROVE LInv'
  BY <1>5 DEF ReadStream
<1>6. ASSUME NEW i \in Instances, EndBatch(i) PROVE LInv'
  BY <1>6 DEF EndBatch
<1>7. ASSUME NEW i \in Instances, NEW s \in Signals, SkipKey(i, s) PROVE LInv'
  BY <1>7 DEF SkipKey, Skip
<1>8. ASSUME NEW i \in Instances, NEW s \in Signals, ReadKey(i, s) PROVE LInv'
  BY <1>8 DEF ReadKey
<1>9. ASSUME NEW i \in Instances, NEW s \in Signals, SubmitMessage(i, s)
      PROVE  LInv'
  BY <1>9 DEF SubmitMessage
<1>10. ASSUME NEW i \in Instances, NEW s \in Signals, SkipMessage(i, s)
       PROVE  LInv'
  BY <1>10 DEF SkipMessage
<1>11. ASSUME NEW i \in Instances, Acquire(i) PROVE LInv'
  BY <1>11 DEF Acquire
<1>12. ASSUME NEW i \in Instances, GiveUpLock(i) PROVE LInv'
  <2>1. locks \subseteq locks'
    BY <1>12 DEF GiveUpLock, Effect
  <2> QED BY <1>12, <2>1 DEF GiveUpLock
<1>13. ASSUME NEW i \in Instances, SubmitKeyed(i) PROVE LInv'
  BY <1>13 DEF SubmitKeyed
<1>14. ASSUME NEW i \in Instances, MarkConsumed(i) PROVE LInv'
  BY <1>14 DEF MarkConsumed
<1>15. ASSUME NEW i \in Instances, MarkProcessed(i) PROVE LInv'
  BY <1>15 DEF MarkProcessed
<1>16. ASSUME NEW i \in Instances, Release(i) PROVE LInv'
  <2>1. pc[i] \in Section /\ locks \ {current[i]} \subseteq locks'
    BY <1>16 DEF Release, Effect
  <2>2. /\ pc'[i] \notin Section
        /\ \A j \in Instances \ {i} : pc'[j] = pc[j] /\ current'[j] = current[j]
    BY <1>16 DEF Release
  <2>3. \A j \in Instances \ {i} :
          pc[j] \in Section => current[j] # current[i] /\ current[j] \in locks
    BY <2>1
  <2> QED BY <2>1, <2>2, <2>3
<1>17. ASSUME NEW i \in Instances, Acknowledge(i) PROVE LInv'
  BY <1>17 DEF Acknowledge
<1>18. ASSUME NEW s \in Streamed, Publish(s) PROVE LInv'
  BY <1>18 DEF Publish
<1>19. ASSUME NEW s \in Keyed, LockExpires(s) PROVE LInv'
  BY <1>19 DEF LockExpires, InSection
<1>20. CASE Operate \/ Tick \/ UNCHANGED vars
  BY <1>20 DEF Operate, Tick, vars
<1> QED
  BY <1>1, <1>2, <1>3, <1>4, <1>5, <1>6, <1>7, <1>8, <1>9, <1>10, <1>11, <1>12,
     <1>13, <1>14, <1>15, <1>16, <1>17, <1>18, <1>19, <1>20
  DEF Next, Work

(* LockExcludes: at most one instance is between the acquisition and the   *)
(* release of a signal's lock, whatever raises and whoever ends.           *)
THEOREM LockIsExclusive == Spec => []LockExcludes
<1>1. Init => LInv
  BY DEF Init, LInv, Section
<1>2. ASSUME LInv, NEW s \in Keyed PROVE Cardinality(InSection(s)) <= 1
  <2>1. CASE InSection(s) = {}
    <3>1. Cardinality({}) = 0
      BY FS_EmptySet
    <3> QED BY <2>1, <3>1
  <2>2. CASE InSection(s) # {}
    <3>1. PICK i \in Instances : i \in InSection(s)
      BY <2>2 DEF InSection
    <3>2. InSection(s) = {i}
      BY <3>1, <1>2 DEF InSection, LInv
    <3>3. Cardinality({i}) = 1
      BY FS_Singleton, Zenon
    <3> QED BY <3>2, <3>3
  <2> QED BY <2>1, <2>2
<1>3. LInv => LockExcludes
  BY <1>2 DEF LockExcludes
<1> QED BY <1>1, <1>3, InitTInv, NextTInv, NextLInv, PTL DEF Spec

-----------------------------------------------------------------------------
(* The records follow the submission: so does the place of an instance     *)
(* that has put the signal it has at hand.                                 *)
Recorded(s) ==
  \/ s \in processed \cup consumed \cup UNION {known[i] : i \in Instances}
  \/ s \in Streamed /\ stream[s] = "acked"
  \/ \E i \in Instances :
       pc[i] \in {"marking", "recording", "noting", "acking"} /\ current[i] = s

RInv == \A s \in Signals : Recorded(s) => submissions[s] > 0

LEMMA NextRInv == TInv /\ RInv /\ [Next]_vars => RInv'
<1> SUFFICES ASSUME TInv, RInv, [Next]_vars, NEW s \in Signals, Recorded(s)'
             PROVE  submissions'[s] > 0
  BY DEF RInv
<1> USE DEF TInv, TypeOK, Instances, RInv, Recorded, Goto, Leave, redisVars
<1>0. ASSUME Recorded(s), submissions' = submissions PROVE submissions'[s] > 0
  BY <1>0
<1>1. ASSUME NEW i \in Instances, Start(i) PROVE Recorded(s)
  BY <1>1 DEF Start
<1>2. ASSUME NEW i \in Instances, Crash(i) PROVE Recorded(s)
  BY <1>2 DEF Crash
<1>3. ASSUME NEW i \in Instances, Stop(i) PROVE Recorded(s)
  BY <1>3 DEF Stop
<1>4. ASSUME NEW i \in Instances, Poll(i) PROVE Recorded(s)
  BY <1>4 DEF Poll
<1>5. ASSUME NEW i \in Instances, ReadStream(i) PROVE Recorded(s)
  <2>1. s \in Streamed /\ stream'[s] = "acked" => stream[s] = "acked"
    BY <1>5 DEF ReadStream, Effect, Delivered
  <2> QED BY <1>5, <2>1 DEF ReadStream
<1>6. ASSUME NEW i \in Instances, EndBatch(i) PROVE Recorded(s)
  BY <1>6 DEF EndBatch
<1>7. ASSUME NEW i \in Instances, NEW r \in Signals, SkipKey(i, r)
      PROVE  Recorded(s)
  BY <1>7 DEF SkipKey, Skip
<1>8. ASSUME NEW i \in Instances, NEW r \in Signals, ReadKey(i, r)
      PROVE  Recorded(s)
  BY <1>8 DEF ReadKey
<1>9. ASSUME NEW i \in Instances, NEW r \in Signals, SubmitMessage(i, r)
      PROVE  submissions'[s] > 0
  <2>1. s = r \/ Recorded(s)
    BY <1>9 DEF SubmitMessage
  <2>2. Put(r)
    BY <1>9 DEF SubmitMessage
  <2>3. Recorded(s) => submissions[s] > 0
    OBVIOUS
  <2> HIDE DEF Recorded, RInv
  <2> QED BY <2>1, <2>2, <2>3, PutTypes
<1>10. ASSUME NEW i \in Instances, NEW r \in Signals, SkipMessage(i, r)
       PROVE  Recorded(s)
  BY <1>10 DEF SkipMessage
<1>11. ASSUME NEW i \in Instances, Acquire(i) PROVE Recorded(s)
  BY <1>11 DEF Acquire
<1>12. ASSUME NEW i \in Instances, GiveUpLock(i) PROVE Recorded(s)
  BY <1>12 DEF GiveUpLock
<1>13. ASSUME NEW i \in Instances, SubmitKeyed(i) PROVE submissions'[s] > 0
  <2>1. current[i] \in Signals
    BY <1>13 DEF SubmitKeyed, Placed, WithKey, Section, Signals
  <2>2. s = current[i] \/ Recorded(s)
    BY <1>13 DEF SubmitKeyed
  <2>3. Put(current[i])
    BY <1>13 DEF SubmitKeyed
  <2>4. Recorded(s) => submissions[s] > 0
    OBVIOUS
  <2> HIDE DEF Recorded, RInv
  <2> QED BY <2>1, <2>2, <2>3, <2>4, PutTypes
<1>14. ASSUME NEW i \in Instances, MarkConsumed(i) PROVE Recorded(s)
  <2>1. s \in consumed' => s \in consumed \/ s = current[i]
    BY <1>14 DEF MarkConsumed, Effect
  <2> QED BY <1>14, <2>1 DEF MarkConsumed
<1>15. ASSUME NEW i \in Instances, MarkProcessed(i) PROVE Recorded(s)
  <2>1. s \in processed' => s \in processed \/ s = current[i]
    BY <1>15 DEF MarkProcessed, Effect
  <2>2. \A j \in Instances : s \in known'[j] => s \in known[j] \/ s = current[i]
    BY <1>15 DEF MarkProcessed
  <2> QED BY <1>15, <2>1, <2>2 DEF MarkProcessed
<1>16. ASSUME NEW i \in Instances, Release(i) PROVE Recorded(s)
  BY <1>16 DEF Release
<1>17. ASSUME NEW i \in Instances, Acknowledge(i) PROVE Recorded(s)
  <2>1. s \in Streamed /\ stream'[s] = "acked"
          => stream[s] = "acked" \/ s = current[i]
    BY <1>17 DEF Acknowledge, Effect
  <2> QED BY <1>17, <2>1 DEF Acknowledge
<1>18. ASSUME NEW r \in Streamed, Publish(r) PROVE Recorded(s)
  BY <1>18 DEF Publish
<1>19. ASSUME NEW r \in Keyed, LockExpires(r) PROVE Recorded(s)
  BY <1>19 DEF LockExpires
<1>20. CASE Operate \/ Tick \/ UNCHANGED vars
  <2>1. Recorded(s) /\ submissions' = submissions
    BY <1>20 DEF Operate, Tick, vars
  <2> QED BY <2>1
<1>21. ASSUME NEW i \in Instances,
              \/ Start(i) \/ Crash(i) \/ Stop(i) \/ Poll(i) \/ ReadStream(i)
              \/ EndBatch(i) \/ Acquire(i) \/ GiveUpLock(i) \/ MarkConsumed(i)
              \/ MarkProcessed(i) \/ Release(i) \/ Acknowledge(i)
       PROVE  submissions'[s] > 0
  <2>1. submissions' = submissions
    BY <1>21 DEF Start, Crash, Stop, Poll, ReadStream, EndBatch, Acquire,
         GiveUpLock, MarkConsumed, MarkProcessed, Release, Acknowledge
  <2>2. Recorded(s)
    BY <1>1, <1>2, <1>3, <1>4, <1>5, <1>6, <1>11, <1>12, <1>14, <1>15, <1>16,
       <1>17, <1>21
  <2> QED BY <2>1, <2>2
<1>22. ASSUME NEW i \in Instances, NEW r \in Signals,
              SkipKey(i, r) \/ ReadKey(i, r) \/ SkipMessage(i, r)
       PROVE  submissions'[s] > 0
  <2>1. submissions' = submissions
    BY <1>22 DEF SkipKey, Skip, ReadKey, SkipMessage
  <2>2. Recorded(s)
    BY <1>7, <1>8, <1>10, <1>22
  <2> QED BY <2>1, <2>2
<1>23. ASSUME NEW r \in Streamed, Publish(r) PROVE submissions'[s] > 0
  BY <1>18, <1>23, <1>0 DEF Publish
<1>24. ASSUME NEW r \in Keyed, LockExpires(r) PROVE submissions'[s] > 0
  BY <1>19, <1>24, <1>0 DEF LockExpires
<1> HIDE DEF TInv, TypeOK, Instances, RInv, Recorded, Goto, Leave
<1> QED
  BY <1>9, <1>13, <1>20, <1>21, <1>22, <1>23, <1>24 DEF Next, Work

(* No record gets ahead of the orchestrator: a signal is in the processed  *)
(* set, a copy of it, consumed or acknowledged only if it was put.         *)
RecordedIsSubmitted ==
  \A s \in Signals :
    \/ s \in processed \cup consumed \cup UNION {known[i] : i \in Instances}
    \/ s \in Streamed /\ stream[s] = "acked"
    => submissions[s] > 0

(* No record of a signal is ahead of the queue, whatever raises.           *)
THEOREM RecordsFollowSubmission == Spec => []RecordedIsSubmitted
<1>1. Init => RInv
  BY DEF Init, RInv, Recorded
<1>2. RInv => RecordedIsSubmitted
  BY DEF RInv, Recorded, RecordedIsSubmitted
<1> QED BY <1>1, <1>2, InitTInv, NextTInv, NextRInv, PTL DEF Spec

-----------------------------------------------------------------------------
(* A signal only on the stream is in one batch at a time, and only before  *)
(* it is put or while its instance still has it at hand.                   *)
Once(s) ==
  /\ submissions[s] <= 1
  /\ stream[s] \in {"unsent", "new"} =>
       submissions[s] = 0 /\ \A i \in Instances : s \notin batch[i]
  /\ \A i \in Instances : s \in batch[i] =>
       /\ submissions[s] = 0 \/ current[i] = s
       /\ \A j \in Instances : s \in batch[j] => j = i

SInv == \A s \in Streamed \ Keyed : Once(s)

LEMMA NextSInv == TInv /\ SInv /\ [Next]_vars => SInv'
<1> SUFFICES ASSUME TInv, [Next]_vars, NEW s \in Streamed \ Keyed, Once(s)
             PROVE  Once(s)'
  BY DEF SInv
<1> USE DEF TInv, TypeOK, Placed, WithKey, WithMessage, Section, Instances,
            Once, Goto, Leave, redisVars
<1>1. ASSUME NEW i \in Instances, Start(i) PROVE Once(s)'
  BY <1>1 DEF Start
<1>2. ASSUME NEW i \in Instances, Crash(i) PROVE Once(s)'
  BY <1>2 DEF Crash
<1>3. ASSUME NEW i \in Instances, Stop(i) PROVE Once(s)'
  BY <1>3 DEF Stop
<1>4. ASSUME NEW i \in Instances, Poll(i) PROVE Once(s)'
  BY <1>4 DEF Poll
<1>5. ASSUME NEW i \in Instances, ReadStream(i) PROVE Once(s)'
  <2>1. stream' = stream \/ stream' = Delivered
    BY <1>5 DEF ReadStream, Effect
  <2>2. \/ stream'[s] = stream[s]
        \/ stream[s] = "new" /\ stream'[s] = "pending"
    <3>1. s \in NewMessages => stream[s] = "new"
      BY DEF NewMessages
    <3>2. Delivered[s] = IF s \in NewMessages THEN "pending" ELSE stream[s]
      BY DEF Delivered
    <3> QED BY <2>1, <3>1, <3>2
  <2>3. stream[s] = "new" /\ stream'[s] = "new" => s \notin batch'[i]
    BY <1>5 DEF ReadStream, Effect, Delivered, NewMessages
  <2>4. s \in batch'[i] => stream[s] = "new"
    BY <1>5 DEF ReadStream, NewMessages
  <2>5. /\ \A j \in Instances \ {i} : batch'[j] = batch[j]
        /\ UNCHANGED <<submissions, current>>
    BY <1>5 DEF ReadStream
  <2> QED BY <2>2, <2>3, <2>4, <2>5
<1>6. ASSUME NEW i \in Instances, EndBatch(i) PROVE Once(s)'
  BY <1>6 DEF EndBatch
<1>7. ASSUME NEW i \in Instances, NEW r \in Signals, SkipKey(i, r)
      PROVE  Once(s)'
  BY <1>7 DEF SkipKey, Skip
<1>8. ASSUME NEW i \in Instances, NEW r \in Signals, ReadKey(i, r)
      PROVE  Once(s)'
  BY <1>8 DEF ReadKey
<1>9. ASSUME NEW i \in Instances, NEW r \in Signals, SubmitMessage(i, r)
      PROVE  Once(s)'
  <2>1. current[i] = NoSignal /\ s # NoSignal /\ s \in Signals
    BY <1>9, ConsumerAssumption DEF SubmitMessage, ConsumerAssumption, Signals
  <2>2. r # s => submissions'[s] = submissions[s]
    BY <1>9, <2>1, PutTypes DEF SubmitMessage
  <2>3. r = s => submissions[s] = 0 /\ submissions'[s] = 1
    BY <1>9, <2>1, PutTypes DEF SubmitMessage
  <2>4. /\ UNCHANGED <<stream, batch>>
        /\ current'[i] = r
        /\ r \in batch[i]
        /\ \A j \in Instances \ {i} : current'[j] = current[j]
    BY <1>9 DEF SubmitMessage
  <2> QED BY <2>1, <2>2, <2>3, <2>4
<1>10. ASSUME NEW i \in Instances, NEW r \in Signals, SkipMessage(i, r)
       PROVE  Once(s)'
  <2>1. current[i] = NoSignal /\ s # NoSignal
    BY <1>10, ConsumerAssumption DEF SkipMessage, ConsumerAssumption, Signals
  <2> QED BY <1>10, <2>1 DEF SkipMessage
<1>11. ASSUME NEW i \in Instances, Acquire(i) PROVE Once(s)'
  BY <1>11 DEF Acquire
<1>12. ASSUME NEW i \in Instances, GiveUpLock(i) PROVE Once(s)'
  BY <1>12 DEF GiveUpLock
<1>13. ASSUME NEW i \in Instances, SubmitKeyed(i) PROVE Once(s)'
  <2>1. current[i] \in Keyed /\ s \in Signals
    BY <1>13 DEF SubmitKeyed, Signals
  <2>2. current[i] \in Signals
    BY <2>1 DEF Signals
  <2>3. submissions'[s] = submissions[s]
    BY <1>13, <2>1, <2>2, PutTypes DEF SubmitKeyed
  <2> QED BY <1>13, <2>3 DEF SubmitKeyed
<1>14. ASSUME NEW i \in Instances, MarkConsumed(i) PROVE Once(s)'
  BY <1>14 DEF MarkConsumed
<1>15. ASSUME NEW i \in Instances, MarkProcessed(i) PROVE Once(s)'
  BY <1>15 DEF MarkProcessed
<1>16. ASSUME NEW i \in Instances, Release(i) PROVE Once(s)'
  BY <1>16 DEF Release
<1>17. ASSUME NEW i \in Instances, Acknowledge(i) PROVE Once(s)'
  <2>1. \/ stream'[s] = stream[s]
        \/ current[i] = s /\ stream'[s] = "acked"
    BY <1>17 DEF Acknowledge, Effect
  <2>2. /\ batch'[i] = batch[i] \ {current[i]}
        /\ UNCHANGED submissions
        /\ \A j \in Instances \ {i} :
             batch'[j] = batch[j] /\ current'[j] = current[j]
    BY <1>17 DEF Acknowledge
  <2> QED BY <2>1, <2>2
<1>18. ASSUME NEW r \in Streamed, Publish(r) PROVE Once(s)'
  BY <1>18 DEF Publish
<1>19. ASSUME NEW r \in Keyed, LockExpires(r) PROVE Once(s)'
  BY <1>19 DEF LockExpires
<1>20. CASE Operate \/ Tick \/ UNCHANGED vars
  BY <1>20 DEF Operate, Tick, vars
<1> QED
  BY <1>1, <1>2, <1>3, <1>4, <1>5, <1>6, <1>7, <1>8, <1>9, <1>10, <1>11, <1>12,
     <1>13, <1>14, <1>15, <1>16, <1>17, <1>18, <1>19, <1>20
  DEF Next, Work

StreamedOnce == \A s \in Streamed \ Keyed : submissions[s] <= 1

(* A message is given to one instance, which puts it once, without a lock. *)
THEOREM MessagesPutOnce == Spec => []StreamedOnce
<1>1. Init => SInv
  BY DEF Init, SInv, Once, Signals, Instances
<1>2. SInv => StreamedOnce
  BY DEF SInv, Once, StreamedOnce
<1> QED BY <1>1, <1>2, InitTInv, NextTInv, NextSInv, PTL DEF Spec

-----------------------------------------------------------------------------
(* One instance, whose copy of the processed set is loaded at each start   *)
(* and then follows its own writes, the only ones there are.               *)
LEMMA LoneIsOne ==
  ASSUME TypeOK, Lone
  PROVE  \A i, j \in env.live : i = j
<1>1. env.live \in SUBSET Instances
  BY DEF TypeOK, Environments
<1>2. IsFiniteSet(env.live)
  BY <1>1, FS_Subset, ConsumerAssumption DEF ConsumerAssumption
<1>3. PICK x : env.live = {x}
  BY <1>2, FS_Singleton DEF Lone
<1> QED BY <1>3

AInv ==
  Lone =>
    \A i \in Instances :
      /\ i \notin env.live => pc[i] = "down"
      /\ pc[i] # "down" => processed \subseteq known[i]
      /\ pc[i] \in {"ready", "locked"} => current[i] \notin processed

LEMMA ConditionsStay == [Next]_vars => env' = env
BY DEF Next, Work, Start, Crash, Stop, Poll, ReadStream, EndBatch, SkipKey,
       Skip, ReadKey, SubmitMessage, SkipMessage, Acquire, GiveUpLock,
       SubmitKeyed, MarkConsumed, MarkProcessed, Release, Acknowledge,
       Publish, LockExpires, Operate, Tick, vars

LEMMA NextAInv == TInv /\ AInv /\ [Next]_vars => AInv'
<1> SUFFICES ASSUME TInv, AInv, [Next]_vars, Lone, Lone' PROVE AInv'
  BY ConditionsStay DEF AInv, Lone
<1> USE DEF TInv, TypeOK, Instances, AInv, Lone, Goto, Leave, redisVars
<1>1. ASSUME NEW i \in Instances, Start(i) PROVE AInv'
  BY <1>1 DEF Start
<1>2. ASSUME NEW i \in Instances, Crash(i) PROVE AInv'
  BY <1>2 DEF Crash
<1>3. ASSUME NEW i \in Instances, Stop(i) PROVE AInv'
  BY <1>3 DEF Stop
<1>4. ASSUME NEW i \in Instances, Poll(i) PROVE AInv'
  BY <1>4 DEF Poll
<1>5. ASSUME NEW i \in Instances, ReadStream(i) PROVE AInv'
  BY <1>5 DEF ReadStream
<1>6. ASSUME NEW i \in Instances, EndBatch(i) PROVE AInv'
  BY <1>6 DEF EndBatch
<1>7. ASSUME NEW i \in Instances, NEW r \in Signals, SkipKey(i, r)
      PROVE  AInv'
  BY <1>7 DEF SkipKey, Skip
<1>8. ASSUME NEW i \in Instances, NEW r \in Signals, ReadKey(i, r)
      PROVE  AInv'
  BY <1>8 DEF ReadKey
<1>9. ASSUME NEW i \in Instances, NEW r \in Signals, SubmitMessage(i, r)
      PROVE  AInv'
  BY <1>9 DEF SubmitMessage
<1>10. ASSUME NEW i \in Instances, NEW r \in Signals, SkipMessage(i, r)
       PROVE  AInv'
  BY <1>10 DEF SkipMessage
<1>11. ASSUME NEW i \in Instances, Acquire(i) PROVE AInv'
  BY <1>11 DEF Acquire
<1>12. ASSUME NEW i \in Instances, GiveUpLock(i) PROVE AInv'
  BY <1>12 DEF GiveUpLock
<1>13. ASSUME NEW i \in Instances, SubmitKeyed(i) PROVE AInv'
  BY <1>13 DEF SubmitKeyed
<1>14. ASSUME NEW i \in Instances, MarkConsumed(i) PROVE AInv'
  BY <1>14 DEF MarkConsumed
<1>15. ASSUME NEW i \in Instances, MarkProcessed(i) PROVE AInv'
  <2>1. \A j \in Instances \ {i} : pc[j] = "down"
    BY <1>15, LoneIsOne DEF MarkProcessed
  <2>2. \/ UNCHANGED <<processed, known>>
        \/ /\ processed' = processed \cup {current[i]}
           /\ known' = [known EXCEPT ![i] = @ \cup {current[i]}]
    BY <1>15 DEF MarkProcessed, Effect, Outcomes, Environments
  <2>3. /\ pc[i] # "down" /\ pc'[i] \notin {"down", "ready", "locked"}
        /\ \A j \in Instances \ {i} : pc'[j] = pc[j] /\ known'[j] = known[j]
        /\ UNCHANGED env
    BY <1>15 DEF MarkProcessed
  <2>4. processed' \subseteq known'[i]
    BY <2>2, <2>3
  <2> QED BY <2>1, <2>3, <2>4
<1>16. ASSUME NEW i \in Instances, Release(i) PROVE AInv'
  BY <1>16 DEF Release
<1>17. ASSUME NEW i \in Instances, Acknowledge(i) PROVE AInv'
  BY <1>17 DEF Acknowledge
<1>18. ASSUME NEW r \in Streamed, Publish(r) PROVE AInv'
  BY <1>18 DEF Publish
<1>19. ASSUME NEW r \in Keyed, LockExpires(r) PROVE AInv'
  BY <1>19 DEF LockExpires
<1>20. CASE Operate \/ Tick \/ UNCHANGED vars
  BY <1>20 DEF Operate, Tick, vars
<1> QED
  BY <1>1, <1>2, <1>3, <1>4, <1>5, <1>6, <1>7, <1>8, <1>9, <1>10, <1>11, <1>12,
     <1>13, <1>14, <1>15, <1>16, <1>17, <1>18, <1>19, <1>20
  DEF Next, Work

NotReprocessed ==
  [][Lone => \A s \in processed : submissions'[s] = submissions[s]]_vars

(* Whatever is in the processed set is in the instance's copy, so neither  *)
(* a key nor a message of it gets to the queue again.                      *)
THEOREM ProcessedNotPutAgain == Spec => NotReprocessed
<1>1. Init => AInv
  BY DEF Init, AInv
<1>2. ASSUME TInv, AInv, Lone, [Next]_vars, NEW s \in processed
      PROVE  submissions'[s] = submissions[s]
  <2> USE <1>2 DEF TInv, AInv
  <2>1. s \in Signals
    BY DEF TypeOK
  <2>2. ASSUME NEW i \in Instances, SubmitKeyed(i)
        PROVE  submissions'[s] = submissions[s]
    <3>1. current[i] # s /\ current[i] \in Signals /\ Put(current[i])
      BY <2>2 DEF SubmitKeyed, Placed, WithKey, Section, Signals
    <3> QED BY <2>1, <3>1, PutTypes
  <2>3. ASSUME NEW i \in Instances, NEW r \in Signals, SubmitMessage(i, r)
        PROVE  submissions'[s] = submissions[s]
    <3>1. r # s /\ Put(r)
      BY <2>3 DEF SubmitMessage
    <3> QED BY <2>1, <3>1, PutTypes
  <2> QED
    BY <2>2, <2>3
    DEF Next, Work, Start, Crash, Stop, Poll, ReadStream, EndBatch, SkipKey,
        Skip, ReadKey, SkipMessage, Acquire, GiveUpLock, MarkConsumed,
        MarkProcessed, Release, Acknowledge, Publish, LockExpires, Operate,
        Tick, vars
<1>3. TInv /\ AInv /\ [Next]_vars =>
        [Lone => \A s \in processed : submissions'[s] = submissions[s]]_vars
  BY <1>2
<1> QED
  BY <1>1, <1>3, InitTInv, NextTInv, NextAInv, PTL DEF Spec, NotReprocessed

-----------------------------------------------------------------------------
(***************************************************************************)
(* The refinement of SignalIntake.  Its guards are what RInv, SInv and     *)
(* AInv say; what is left is that a copy of the processed set is never     *)
(* ahead of it.                                                            *)
(***************************************************************************)
KInv == \A i \in Instances : known[i] \subseteq processed

(* Steps that put nothing: what they do to the records. *)
LEMMA RecordSteps ==
  ASSUME [Next]_vars
  PROVE  \/ UNCHANGED <<submissions, processed, known, consumed, stream>>
         \/ \E i \in Instances :
              \/ Start(i) \/ ReadStream(i) \/ SubmitKeyed(i) \/ MarkConsumed(i)
              \/ MarkProcessed(i) \/ Acknowledge(i)
              \/ \E s \in Signals : SubmitMessage(i, s)
         \/ \E s \in Streamed : Publish(s)
<1> DEFINE Kept == UNCHANGED <<submissions, processed, known, consumed, stream>>
<1>1. ASSUME NEW i \in Instances, Crash(i) \/ Stop(i) \/ Poll(i) \/ EndBatch(i)
      PROVE  Kept
  BY <1>1 DEF Crash, Stop, Poll, EndBatch, redisVars
<1>2. ASSUME NEW i \in Instances, NEW s \in Signals,
             SkipKey(i, s) \/ ReadKey(i, s) \/ SkipMessage(i, s)
      PROVE  Kept
  BY <1>2 DEF SkipKey, Skip, ReadKey, SkipMessage, redisVars
<1>3. ASSUME NEW i \in Instances, Acquire(i) \/ GiveUpLock(i) \/ Release(i)
      PROVE  Kept
  BY <1>3 DEF Acquire, GiveUpLock, Release
<1>4. ASSUME (\E s \in Keyed : LockExpires(s)) \/ Operate \/ Tick \/ UNCHANGED vars
      PROVE  Kept
  BY <1>4 DEF LockExpires, Operate, Tick, vars, redisVars
<1> HIDE DEF Kept
<1> DEFINE Records(i) ==
             \/ Start(i) \/ ReadStream(i) \/ SubmitKeyed(i) \/ MarkConsumed(i)
             \/ MarkProcessed(i) \/ Acknowledge(i)
             \/ \E s \in Signals : SubmitMessage(i, s)
<1>5. ASSUME NEW i \in Instances, Work(i)
      PROVE  Kept \/ Records(i)
  <2>1. CASE \E s \in Signals :
               SkipKey(i, s) \/ ReadKey(i, s) \/ SkipMessage(i, s)
    BY <2>1, <1>2
  <2>2. CASE Poll(i) \/ EndBatch(i) \/ Acquire(i) \/ GiveUpLock(i) \/ Release(i)
    BY <2>2, <1>1, <1>3
  <2>3. CASE \E s \in Signals : SubmitMessage(i, s)
    BY <2>3
  <2>4. CASE \/ ReadStream(i) \/ SubmitKeyed(i) \/ MarkConsumed(i)
             \/ MarkProcessed(i) \/ Acknowledge(i)
    BY <2>4
  <2> QED BY <2>1, <2>2, <2>3, <2>4, <1>5 DEF Work
<1>6. ASSUME NEW i \in Instances, Start(i) \/ Crash(i) \/ Stop(i) \/ Work(i)
      PROVE  Kept \/ Records(i)
  BY <1>6, <1>1, <1>5
<1> HIDE DEF Records
<1>7. Kept \/ (\E i \in Instances : Records(i)) \/ \E s \in Streamed : Publish(s)
  BY <1>4, <1>6 DEF Next
<1> QED BY <1>7 DEF Kept, Records

LEMMA NextKInv == TInv /\ KInv /\ [Next]_vars => KInv'
<1> SUFFICES ASSUME TInv, KInv, [Next]_vars PROVE KInv'
  OBVIOUS
<1> USE DEF TInv, TypeOK, KInv, Instances
<1>1. ASSUME NEW i \in Instances, Start(i) PROVE KInv'
  BY <1>1 DEF Start, redisVars
<1>2. ASSUME NEW i \in Instances, MarkProcessed(i) PROVE KInv'
  BY <1>2 DEF MarkProcessed, Effect
<1>3. ASSUME NEW i \in Instances,
             \/ ReadStream(i) \/ SubmitKeyed(i) \/ MarkConsumed(i) \/ Acknowledge(i)
             \/ \E s \in Signals : SubmitMessage(i, s)
      PROVE  KInv'
  BY <1>3 DEF ReadStream, SubmitKeyed, MarkConsumed, Acknowledge, SubmitMessage,
              redisVars
<1>4. CASE (\E s \in Streamed : Publish(s))
           \/ UNCHANGED <<submissions, processed, known, consumed, stream>>
  BY <1>4 DEF Publish
<1> QED BY <1>1, <1>2, <1>3, <1>4, RecordSteps

LEMMA ProcessedIsSet == KInv => Processed = processed
BY DEF KInv, Processed

(* Putting a signal. *)
LEMMA PutRefines ==
  ASSUME TInv, SInv, AInv, KInv, NEW i \in Instances, NEW s \in Signals,
         Put(s),
         \/ pc[i] = "locked" /\ current[i] = s
         \/ pc[i] = "messages" /\ s \in batch[i] /\ s \notin known[i]
              /\ current[i] = NoSignal,
         UNCHANGED <<redisVars, known, env>>
  PROVE  I!Put(s)
<1> USE DEF TInv, TypeOK
<1>1. s \in Streamed \ Keyed => submissions[s] = 0
  BY ConsumerAssumption
  DEF ConsumerAssumption, SInv, Once, Placed, WithKey, Section, Signals
<1>2. Lone => s \notin Processed
  <2>1. Lone => s \notin processed
    BY DEF AInv
  <2> QED BY <2>1, ProcessedIsSet
<1>3. submissions' = [submissions EXCEPT ![s] = IF @ = 0 THEN 1 ELSE 2]
  <2>1. submissions[s] \in 0..2
    OBVIOUS
  <2>2. UpTo(2, submissions[s] + 1) = IF submissions[s] = 0 THEN 1 ELSE 2
    BY <2>1 DEF UpTo
  <2> QED BY <2>2, Zenon DEF Put
<1>4. UNCHANGED <<Processed, Settled>> /\ (Lone' <=> Lone)
  BY DEF Processed, Settled, Lone, redisVars
<1> QED BY <1>1, <1>2, <1>3, <1>4 DEF I!Put

LEMMA IntakeStep ==
  ASSUME TInv, TInv', RInv, SInv, AInv, KInv, KInv', [Next]_vars
  PROVE  [I!Next]_(I!vars)
<1>1. Processed = processed /\ Processed' = processed'
  BY DEF KInv, Processed
<1>2. Lone' = Lone
  BY ConditionsStay DEF Lone
<1>3. ASSUME NEW i \in Instances, SubmitKeyed(i) PROVE [I!Next]_(I!vars)
  <2>1. current[i] \in Signals
    BY <1>3 DEF SubmitKeyed, TInv, Placed, WithKey, Section, Signals
  <2>2. I!Put(current[i])
    BY <1>3, <2>1, PutRefines DEF SubmitKeyed
  <2> QED BY <2>1, <2>2 DEF I!Next
<1>4. ASSUME NEW i \in Instances, NEW s \in Signals, SubmitMessage(i, s)
      PROVE  [I!Next]_(I!vars)
  <2>1. current[i] = NoSignal
    BY <1>4 DEF SubmitMessage, TInv, TypeOK, Section
  <2>2. I!Put(s)
    BY <1>4, <2>1, PutRefines DEF SubmitMessage
  <2> QED BY <2>2 DEF I!Next
<1>5. ASSUME NEW i \in Instances, MarkProcessed(i) PROVE [I!Next]_(I!vars)
  <2> DEFINE s == current[i]
  <2>1. s \in Signals /\ submissions[s] > 0
    BY <1>5 DEF MarkProcessed, TInv, TypeOK, Placed, WithKey, WithMessage,
                Section, Signals, RInv, Recorded
  <2>2. processed' = processed \/ processed' = processed \cup {s}
    BY <1>5 DEF MarkProcessed, Effect
  <2>3. UNCHANGED <<submissions, Settled>>
    BY <1>5 DEF MarkProcessed, Settled
  <2>4. I!Process(s) \/ UNCHANGED I!vars
    BY <1>1, <1>2, <2>1, <2>2, <2>3 DEF I!Process, I!vars
  <2> QED BY <2>1, <2>4 DEF I!Next
<1>6. ASSUME NEW i \in Instances, MarkConsumed(i) \/ Acknowledge(i)
      PROVE  [I!Next]_(I!vars)
  <2> DEFINE s == current[i]
  <2>1. s \in Signals /\ submissions[s] > 0
    BY <1>6 DEF MarkConsumed, Acknowledge, TInv, TypeOK, Placed, WithKey,
                WithMessage, Section, Signals, RInv, Recorded
  <2>2. UNCHANGED <<submissions, processed>>
    BY <1>6 DEF MarkConsumed, Acknowledge
  <2>3. Settled' = Settled \/ Settled' = Settled \cup {s}
    <3>1. CASE MarkConsumed(i)
      BY <3>1 DEF MarkConsumed, Effect, Settled
    <3>2. CASE Acknowledge(i)
      <4>1. s \in Streamed
        BY <3>2 DEF Acknowledge, TInv, Placed, WithMessage
      <4>2. stream' = stream \/ stream' = [stream EXCEPT ![s] = "acked"]
        BY <3>2 DEF Acknowledge, Effect
      <4>3. consumed' = consumed
        BY <3>2 DEF Acknowledge
      <4> QED BY <4>1, <4>2, <4>3 DEF Settled, TInv, TypeOK
    <3> QED BY <1>6, <3>1, <3>2
  <2>4. I!Settle(s) \/ UNCHANGED I!vars
    BY <1>1, <1>2, <2>1, <2>2, <2>3 DEF I!Settle, I!vars
  <2> QED BY <2>1, <2>4 DEF I!Next
<1>7. ASSUME NEW i \in Instances, Start(i) \/ ReadStream(i)
      PROVE  UNCHANGED I!vars
  <2>1. UNCHANGED <<submissions, processed, consumed>>
    BY <1>7 DEF Start, ReadStream, redisVars
  <2>2. \A s \in Streamed : stream'[s] = "acked" <=> stream[s] = "acked"
    BY <1>7 DEF Start, ReadStream, redisVars, Effect, Delivered, NewMessages
  <2>3. UNCHANGED Settled
    BY <2>1, <2>2 DEF Settled
  <2> QED BY <1>1, <1>2, <2>1, <2>3 DEF I!vars
<1>8. ASSUME NEW r \in Streamed, Publish(r) PROVE UNCHANGED I!vars
  <2>1. \A s \in Streamed : stream'[s] = "acked" <=> stream[s] = "acked"
    BY <1>8 DEF Publish, TInv, TypeOK
  <2>2. UNCHANGED <<submissions, processed, consumed>>
    BY <1>8 DEF Publish
  <2>3. UNCHANGED Settled
    BY <2>1, <2>2 DEF Settled
  <2> QED BY <1>1, <1>2, <2>2, <2>3 DEF I!vars
<1>9. CASE UNCHANGED <<submissions, processed, known, consumed, stream>>
  BY <1>1, <1>2, <1>9 DEF Settled, I!vars
<1> QED
  BY <1>3, <1>4, <1>5, <1>6, <1>7, <1>8, <1>9, RecordSteps

(* The consumers implement the intake: locks, statuses, sets and copies,   *)
(* with every crash, restart and lost reply, hand out, remember and record *)
(* as SignalIntake does.                                                   *)
THEOREM ImplementsIntake == Spec => TakesIn
<1>1. Init => RInv /\ SInv /\ AInv /\ KInv
  BY DEF Init, RInv, Recorded, SInv, Once, Signals, AInv, KInv, Instances
<1>2. Init => I!Init
  <2> SUFFICES ASSUME Init PROVE I!Init
    OBVIOUS
  <2>1. Processed = {} /\ Settled = {}
    BY DEF Init, Processed, Settled
  <2>2. Lone \in BOOLEAN
    BY DEF Lone
  <2> QED BY <2>1, <2>2 DEF Init, I!Init
<1>3. TInv /\ TInv' /\ RInv /\ SInv /\ AInv /\ KInv /\ KInv' /\ [Next]_vars
        => [I!Next]_(I!vars)
  BY IntakeStep
<1> QED
  BY <1>1, <1>2, <1>3, InitTInv, NextTInv, NextRInv, NextSInv, NextAInv,
     NextKInv, PTL DEF Spec, TakesIn, I!Spec

-----------------------------------------------------------------------------
(* The kill switch: an instance that believes it off has asked no longer   *)
(* ago than the switch is on.                                              *)
WInv ==
  /\ Active \/ activeFor = 0
  /\ \A i \in Instances :
       Fresh(i) /\ ~cache[i].active => activeFor <= cache[i].age

LEMMA TickWInv == TypeOK /\ WInv /\ SwitchTick => WInv'
<1> SUFFICES ASSUME TypeOK, WInv, SwitchTick PROVE WInv'
  OBVIOUS
<1> USE SwitchAssumption
    DEF SwitchAssumption, TypeOK, SwitchTypeOK, Instances, WInv, Active, Fresh
<1>1. Active' \/ activeFor' = 0
  BY DEF SwitchTick
<1>2. ASSUME NEW i \in Instances, Fresh(i)', ~cache'[i].active
      PROVE  activeFor' <= cache'[i].age
  <2>1. /\ cache'[i].active = cache[i].active
        /\ cache'[i].age = UpTo(CacheTtl, cache[i].age + 1)
    BY DEF SwitchTick, Aged
  <2>2. cache[i].age < CacheTtl /\ cache'[i].age = cache[i].age + 1
    BY <1>2, <2>1 DEF UpTo
  <2>3. activeFor <= cache[i].age
    BY <1>2, <2>1, <2>2
  <2>4. activeFor' \in {0, UpTo(CacheTtl, activeFor + 1)}
    BY DEF SwitchTick
  <2> QED BY <2>2, <2>3, <2>4 DEF UpTo
<1> QED BY <1>1, <1>2

(* Who touches the switch and the cached answers. *)
LEMMA SwitchSteps ==
  ASSUME [Next]_vars
  PROVE  \/ UNCHANGED switchVars \/ Operate \/ Tick
         \/ \E i \in Instances : Start(i) \/ Poll(i)
BY DEF Next, Work, Crash, Stop, ReadStream, EndBatch, SkipKey, Skip, ReadKey,
       SubmitMessage, SkipMessage, Acquire, GiveUpLock, SubmitKeyed,
       MarkConsumed, MarkProcessed, Release, Acknowledge, Publish, LockExpires,
       vars

(* Only a poll takes an instance from its sleep to the stream.             *)
LEMMA BatchesBeginAtPoll ==
  ASSUME TypeOK, [Next]_vars, NEW i \in Instances,
         pc[i] = "idle", pc'[i] = "polling"
  PROVE  Poll(i)
<1> USE DEF TypeOK, Goto
<1>1. ASSUME NEW j \in Instances, Start(j) \/ Crash(j) \/ Stop(j) PROVE FALSE
  BY <1>1 DEF Start, Crash, Stop
<1>2. ASSUME NEW j \in Instances, Poll(j), j # i PROVE FALSE
  BY <1>2 DEF Poll
<1>3. ASSUME NEW j \in Instances, ReadStream(j) \/ EndBatch(j) PROVE FALSE
  BY <1>3 DEF ReadStream, EndBatch
<1>4. ASSUME NEW j \in Instances, NEW s \in Signals,
             SkipKey(j, s) \/ ReadKey(j, s) \/ SubmitMessage(j, s) \/ SkipMessage(j, s)
      PROVE  FALSE
  BY <1>4 DEF SkipKey, Skip, Leave, ReadKey, SubmitMessage, SkipMessage
<1>5. ASSUME NEW j \in Instances,
             \/ Acquire(j) \/ GiveUpLock(j) \/ SubmitKeyed(j) \/ MarkConsumed(j)
             \/ MarkProcessed(j) \/ Release(j) \/ Acknowledge(j)
      PROVE  FALSE
  BY <1>5 DEF Acquire, GiveUpLock, Leave, SubmitKeyed, MarkConsumed,
              MarkProcessed, Release, Acknowledge
<1>6. CASE (\E s \in Streamed : Publish(s)) \/ (\E s \in Keyed : LockExpires(s))
           \/ Operate \/ Tick \/ UNCHANGED vars
  BY <1>6 DEF Publish, LockExpires, Operate, Tick, vars
<1> QED
  BY <1>1, <1>2, <1>3, <1>4, <1>5, <1>6 DEF Next, Work

LEMMA NextWInv == TInv /\ WInv /\ [Next]_vars => WInv'
<1> SUFFICES ASSUME TInv, WInv, [Next]_vars PROVE WInv'
  OBVIOUS
<1> USE DEF TInv, TypeOK, SwitchTypeOK, Instances, WInv, Active, Fresh, switchVars
<1>1. ASSUME NEW i \in Instances, Start(i) PROVE WInv'
  BY <1>1 DEF Start, Stale
<1>2. ASSUME NEW i \in Instances, Poll(i) PROVE WInv'
  <2>1. PICK answer \in BOOLEAN : GetStatus(i, answer, env.faults # "none")
    BY <1>2 DEF Poll
  <2>2. UNCHANGED <<remaining, activeFor>>
    BY <1>2 DEF Poll
  <2>3. \/ UNCHANGED cache
        \/ cache' = [cache EXCEPT ![i] = [active |-> Active, age |-> 0]]
    BY <2>1 DEF GetStatus
  <2>4. CASE UNCHANGED cache
    BY <2>2, <2>4
  <2>5. CASE cache' = [cache EXCEPT ![i] = [active |-> TRUE, age |-> 0]]
    BY <2>2, <2>5
  <2>6. CASE cache' = [cache EXCEPT ![i] = [active |-> FALSE, age |-> 0]] /\ ~Active
    BY <2>2, <2>6
  <2>7. (Active = TRUE) \/ (Active = FALSE)
    OBVIOUS
  <2> QED BY <2>3, <2>4, <2>5, <2>6, <2>7
<1>3. CASE Operate
  <2>1. ActivateSwitch \/ DeactivateSwitch
    BY <1>3 DEF Operate
  <2> QED
    BY <2>1, SwitchAssumption DEF SwitchAssumption, ActivateSwitch, DeactivateSwitch
<1>4. CASE Tick
  BY <1>4, TickWInv DEF Tick
<1>5. CASE UNCHANGED switchVars
  BY <1>5
<1> QED
  BY <1>1, <1>2, <1>3, <1>4, <1>5, SwitchSteps

(* SwitchStopsPolls: as long as Redis answers, an instance that begins a   *)
(* batch has an answer younger than CACHE_TTL_SECONDS, and the switch has  *)
(* not been on for longer than that.                                       *)
THEOREM SwitchStopsBatches == Spec => SwitchStopsPolls
<1>1. Init => WInv
  BY SwitchAssumption
  DEF SwitchAssumption, Init, WInv, SwitchInit, Stale, Fresh, Active, Instances
<1>2. ASSUME TInv, WInv, [Next]_vars, env.faults = "none",
             NEW i \in Instances, pc[i] = "idle", pc'[i] = "polling"
      PROVE  activeFor < CacheTtl
  <2>1. Poll(i)
    BY <1>2, BatchesBeginAtPoll DEF TInv
  <2>2. GetStatus(i, FALSE, FALSE)
    <3>1. PICK answer \in BOOLEAN :
            /\ GetStatus(i, answer, env.faults # "none")
            /\ pc' = [pc EXCEPT ![i] = IF answer THEN "idle" ELSE "polling"]
      BY <2>1 DEF Poll, Goto
    <3>2. answer = FALSE
      BY <1>2, <3>1 DEF TInv, TypeOK
    <3> QED BY <1>2, <3>1, <3>2
  <2> USE SwitchAssumption
      DEF SwitchAssumption, TInv, TypeOK, SwitchTypeOK, Instances, GetStatus,
          WInv, Fresh, Active
  <2>3. CASE Fresh(i)
    BY <1>2, <2>2, <2>3
  <2>4. CASE ~Fresh(i)
    BY <1>2, <2>2, <2>4
  <2> QED BY <2>3, <2>4
<1>3. TInv /\ WInv /\ [Next]_vars =>
        [env.faults = "none" =>
           \A i \in Instances :
             pc[i] = "idle" /\ pc'[i] = "polling" => activeFor < CacheTtl]_vars
  BY <1>2
<1>4. SwitchStopsPolls <=>
        [][env.faults = "none" =>
             \A i \in Instances :
               pc[i] = "idle" /\ pc'[i] = "polling" => activeFor < CacheTtl]_vars
  BY DEF SwitchStopsPolls
<1> QED BY <1>1, <1>3, <1>4, InitTInv, NextTInv, NextWInv, PTL DEF Spec

=============================================================================
