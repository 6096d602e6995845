-------------------------- MODULE KillSwitchProofs --------------------------
(***************************************************************************)
(* The safety of the kill switch for every set of callers and positions,   *)
(* every retry limit, every number of orders the exchange keeps and every  *)
(* configuration of the exchange breaker.                                  *)
(*                                                                         *)
(* First the types, with what they need of the locks: who holds            *)
(* _trigger_lock leads its queue, so the call that writes the TRIGGERED    *)
(* state is the one that set it.  On them rests the invariant about the    *)
(* positions, which relates the exchange, the books and the progress of    *)
(* each call.  Then the queues of the locks, the refinement of Liquidation *)
(* and the exchange breaker.                                               *)
(***************************************************************************)
EXTENDS KillSwitch, SequenceTheorems, FiniteSetTheorems, TLAPS

InOrder == Closing \ {"closing"}

(* The parts of TypeOK. *)
CoreType ==
  /\ state \in {"armed", "triggered", "disabled"}
  /\ pc \in [Triggers -> Places]
  /\ todo \in [Triggers -> SUBSET Positions]
  /\ current \in [Triggers -> Positions \cup {NoPosition}]
  /\ listed \in SUBSET Positions
  /\ failed \in SUBSET Positions

MarketType ==
  /\ tracked \in [Positions -> {"none", "open", "closed"}]
  /\ market \in [Positions -> Holdings]
  /\ working \in [Positions -> 0..MaxWorking]

(* A call that hands _trigger_lock on holds it: it is at the head of the   *)
(* queue until it returns or starts closing.                               *)
HoldersLead ==
  \A t \in Triggers : pc[t] \in {"waiting", "logging"} => HoldsTriggerLock(t)

(* So nobody else triggers while the TRIGGERED state is being written. *)
LoggerTriggered == \A t \in Triggers : pc[t] = "logging" => triggeredBy = t

LockType ==
  /\ triggeredBy \in Triggers \cup {"none"}
  /\ triggerQueue \in Seq(Triggers)
  /\ stateQueue \in Seq(Commands \cup Triggers)
  /\ HoldersLead
  /\ LoggerTriggered

OrderType ==
  /\ attempt \in [Triggers -> 0..MaxCloseRetries]
  /\ \A t \in Triggers : current[t] = NoPosition <=> pc[t] \notin InOrder

WriterType == stateWriter \in BOOLEAN

Types ==
  CoreType /\ MarketType /\ LockType /\ OrderType /\ BreakerTypeOK /\ WriterType

(* The steps of a trigger call before it starts closing, those after, and  *)
(* those of the world around it.                                           *)
Entering(t) ==
  \/ CallTrigger(t) \/ Refuse(t) \/ PassChecks(t) \/ GrantTrigger(t)
  \/ StartClosing(t)

Unsent(t, p) == RefusedByBreaker(t, p) \/ NotSent(t, p)

Working(t) ==
  \/ Complete(t)
  \/ \E p \in Positions : SendFirst(t, p) \/ Unsent(t, p)
  \/ OrderAccepted(t) \/ OrderFails(t) \/ SendAgain(t)
  \/ Book(t) \/ CloseSucceeds(t) \/ CloseGivesUp(t)

Outside(p) ==
  \/ ExecuteOrder(p) \/ EngineOpens(p) \/ ClosedElsewhere(p)
  \/ HandlePositionUpdate(p)

Commanding ==
  (\E c \in Commands : CallCommand(c)) \/ GrantCommand \/ CommandWritten

LEMMA NextSteps ==
  Next <=> \/ Commanding
           \/ \E t \in Triggers : Entering(t) \/ Working(t)
           \/ \E p \in Positions : Outside(p)
           \/ Tick
BY Zenon DEF Next, Commanding, Entering, Working, Unsent, Outside, Advance

-----------------------------------------------------------------------------
(* The types.  A call with an order under way has a position at hand.      *)
LEMMA AtHand ==
  ASSUME CoreType, OrderType, NEW t \in Triggers, pc[t] \in InOrder
  PROVE  current[t] \in Positions
BY DEF CoreType, OrderType

LEMMA CoreEnters ==
  ASSUME CoreType, NEW t \in Triggers, Entering(t)
  PROVE  CoreType'
<1> USE DEF Goto, CoreType
<1>1. UNCHANGED current
  BY DEF Entering, CallTrigger, Refuse, PassChecks, GrantTrigger, StartClosing,
         closeVars
<1>2. state' = state \/ state' = "triggered"
  BY DEF Entering, CallTrigger, Refuse, PassChecks, GrantTrigger, StartClosing,
         SetTriggered, switchVars
<1>3. \E place \in Places : pc' = [pc EXCEPT ![t] = place]
  BY DEF Entering, CallTrigger, Refuse, PassChecks, GrantTrigger, StartClosing,
         SetTriggered, Places, Closing
<1>4. \/ UNCHANGED <<todo, listed, failed>>
      \/ /\ todo' = [todo EXCEPT ![t] = OpenPositions]
         /\ listed' = OpenPositions /\ failed' = {}
  BY DEF Entering, CallTrigger, Refuse, PassChecks, GrantTrigger, StartClosing,
         closeVars
<1>5. OpenPositions \subseteq Positions
  BY DEF OpenPositions
<1> QED
  BY <1>1, <1>2, <1>3, <1>4, <1>5

LEMMA CoreWorks ==
  ASSUME CoreType, OrderType, NEW t \in Triggers, Working(t)
  PROVE  CoreType'
<1> USE DEF Goto, CoreType, switchVars, closeVars, Places, Closing
<1>1. CASE \/ Complete(t) \/ OrderAccepted(t) \/ OrderFails(t) \/ SendAgain(t)
           \/ Book(t)
  BY <1>1 DEF Complete, OrderAccepted, OrderFails, SendAgain, Book
<1>2. ASSUME NEW p \in Positions, SendFirst(t, p) PROVE CoreType'
  BY <1>2 DEF SendFirst
<1>3. ASSUME NEW p \in Positions, Unsent(t, p) PROVE CoreType'
  BY <1>3 DEF Unsent, RefusedByBreaker, NotSent, ReportUnsent, ReportFailed
<1>4. CASE CloseSucceeds(t)
  BY <1>4 DEF CloseSucceeds, NextPosition
<1>5. CASE CloseGivesUp(t)
  <2>1. current[t] \in Positions
    BY <1>5, AtHand DEF CloseGivesUp, InOrder
  <2> QED
    BY <1>5, <2>1 DEF CloseGivesUp, NextPosition, ReportFailed
<1> QED
  BY <1>1, <1>2, <1>3, <1>4, <1>5 DEF Working

(* The rest of the world changes none of it but the switch. *)
LEMMA CoreStays ==
  ASSUME CoreType, \/ Commanding \/ Tick \/ UNCHANGED vars
                   \/ \E p \in Positions : Outside(p)
  PROVE  /\ CoreType' /\ UNCHANGED <<triggeredBy, triggerQueue, pc, closeVars>>
         /\ state' = state \/ state' \in {"armed", "disabled"}
<1>1. UNCHANGED <<triggeredBy, triggerQueue, pc, closeVars>>
  BY DEF Commanding, CallCommand, GrantCommand, CommandWritten, Tick, Outside,
         ExecuteOrder, EngineOpens, ClosedElsewhere, HandlePositionUpdate, vars,
         switchVars
<1>2. state' = state \/ state' \in {"armed", "disabled"}
  BY DEF Commanding, CallCommand, GrantCommand, CommandWritten, Run, Tick,
         Outside, ExecuteOrder, EngineOpens, ClosedElsewhere,
         HandlePositionUpdate, vars, switchVars
<1> QED
  BY <1>1, <1>2 DEF CoreType, closeVars

LEMMA MarketTypes ==
  ASSUME CoreType, OrderType, MarketType, [Next]_vars
  PROVE  MarketType'
<1> USE KillSwitchAssumption DEF MarketType, Holdings
<1>1. ASSUME NEW t \in Triggers, OrderAccepted(t) PROVE MarketType'
  <2>1. current[t] \in Positions
    BY <1>1, AtHand DEF OrderAccepted, InOrder, Closing
  <2> QED
    BY <1>1, <2>1 DEF OrderAccepted
<1>2. ASSUME NEW t \in Triggers, Book(t) PROVE MarketType'
  BY <1>2 DEF Book
<1>3. ASSUME NEW p \in Positions, ExecuteOrder(p) PROVE MarketType'
  BY <1>3 DEF ExecuteOrder, Executed, Held
<1>4. ASSUME NEW p \in Positions,
             EngineOpens(p) \/ ClosedElsewhere(p) \/ HandlePositionUpdate(p)
      PROVE  MarketType'
  BY <1>4 DEF EngineOpens, ClosedElsewhere, HandlePositionUpdate, Reportable
<1>5. CASE UNCHANGED marketVars
  BY <1>5 DEF marketVars
<1>6. ASSUME NEW t \in Triggers, Entering(t) PROVE UNCHANGED marketVars
  BY <1>6, Zenon DEF Entering, CallTrigger, Refuse, PassChecks, GrantTrigger,
                     StartClosing
<1>7. ASSUME NEW t \in Triggers, Working(t), ~OrderAccepted(t), ~Book(t)
      PROVE  UNCHANGED marketVars
  BY <1>7, Zenon DEF Working, Unsent, Complete, SendFirst, RefusedByBreaker,
                     NotSent, ReportUnsent, OrderFails, SendAgain,
                     CloseSucceeds, CloseGivesUp
<1>8. ASSUME Commanding \/ Tick \/ UNCHANGED vars PROVE UNCHANGED marketVars
  BY <1>8, Zenon DEF Commanding, CallCommand, GrantCommand, CommandWritten, Tick,
                     vars
<1> QED
  BY <1>1, <1>2, <1>3, <1>4, <1>5, <1>6, <1>7, <1>8, NextSteps DEF Outside

(* What the breaker's operations leave of its own. *)
LEMMA BreakerTypes ==
  ASSUME BreakerTypeOK,
         CanExecute \/ RecordSuccess \/ RecordFailure \/ BreakerTick
           \/ UNCHANGED breakerVars
  PROVE  BreakerTypeOK'
<1> USE RetryBreakerAssumption DEF RetryBreakerAssumption, BreakerTypeOK
<1>1. CASE CanExecute
  BY <1>1 DEF CanExecute, RecoveryDue, ProbeAllowed, breakerVars
<1>2. CASE RecordSuccess
  BY <1>2 DEF RecordSuccess, Recovered
<1>3. CASE RecordFailure
  BY <1>3 DEF RecordFailure
<1>4. CASE BreakerTick \/ UNCHANGED breakerVars
  BY <1>4 DEF BreakerTick, breakerVars
<1> QED
  BY <1>1, <1>2, <1>3, <1>4

(* Each step of the executor is one operation on the breaker, or none. *)
LEMMA OneOperation ==
  ASSUME [Next]_vars
  PROVE  CanExecute \/ RecordSuccess \/ RecordFailure \/ BreakerTick
           \/ UNCHANGED breakerVars
<1>1. ASSUME NEW t \in Triggers, Entering(t) PROVE UNCHANGED breakerVars
  BY <1>1, Zenon
  DEF Entering, CallTrigger, Refuse, PassChecks, GrantTrigger, StartClosing
<1>2. ASSUME NEW t \in Triggers, Working(t)
      PROVE  CanExecute \/ RecordSuccess \/ RecordFailure
               \/ UNCHANGED breakerVars
  BY <1>2, Zenon
  DEF Working, Unsent, Complete, SendFirst, RefusedByBreaker, CannotExecute,
      NotSent, OrderAccepted, OrderFails, SendAgain, Book, CloseSucceeds,
      CloseGivesUp
<1>3. ASSUME Commanding \/ \E p \in Positions : Outside(p)
      PROVE  UNCHANGED breakerVars
  BY <1>3, Zenon DEF Commanding, CallCommand, GrantCommand, CommandWritten,
                     Outside, ExecuteOrder, EngineOpens, ClosedElsewhere,
                     HandlePositionUpdate
<1> QED
  BY <1>1, <1>2, <1>3, NextSteps, Zenon DEF Tick, vars

(* What waiting for a lock and getting it do to its queue. *)
LEMMA QueueMoves ==
  ASSUME NEW S, NEW s \in Seq(S), NEW r, NEW e \in S,
         r = s \/ r = Append(s, e) \/ (s # <<>> /\ r = Tail(s))
  PROVE  r \in Seq(S)
<1>1. CASE r = Append(s, e)
  BY <1>1, AppendProperties
<1>2. CASE s # <<>> /\ r = Tail(s)
  <2>1. Tail(s) \in Seq(S)
    BY <1>2, HeadTailProperties
  <2> QED
    BY <1>2, <2>1
<1> QED
  BY <1>1, <1>2

LEMMA CommandTypes ==
  ASSUME CoreType, LockType, OrderType, Commanding
  PROVE  LockType' /\ OrderType'
<1>1. stateQueue' \in Seq(Commands \cup Triggers)
  <2> DEFINE callers == Commands \cup Triggers
  <2>0. stateQueue \in Seq(callers)
    BY DEF LockType
  <2>1. \E c \in callers :
          \/ stateQueue' = stateQueue \/ stateQueue' = Append(stateQueue, c)
          \/ stateQueue # <<>> /\ stateQueue' = Tail(stateQueue)
    BY DEF Commanding, CallCommand, GrantCommand, CommandWritten, Commands
  <2> HIDE DEF callers
  <2>3. stateQueue' \in Seq(callers)
    BY <2>0, <2>1, QueueMoves
  <2> QED
    BY <2>3 DEF callers
<1>2. UNCHANGED <<triggerQueue, triggeredBy, pc, closeVars>>
  BY CoreStays
<1> QED
  BY <1>1, <1>2
  DEF LockType, OrderType, HoldersLead, LoggerTriggered, HoldsTriggerLock,
      closeVars

LEMMA TriggerTypes ==
  ASSUME CoreType, LockType, OrderType, NEW t \in Triggers, Entering(t)
  PROVE  LockType' /\ OrderType'
<1> USE DEF CoreType, Goto
<1>1. triggeredBy' \in Triggers \cup {"none"}
  BY DEF Entering, CallTrigger, Refuse, PassChecks, GrantTrigger, StartClosing,
         SetTriggered, LockType
<1>2. triggerQueue' \in Seq(Triggers)
  <2>1. CallTrigger(t) \/ triggerQueue # <<>>
    BY DEF Entering, Refuse, PassChecks, GrantTrigger, StartClosing, LockType,
           HoldersLead, HoldsTriggerLock
  <2>2. \/ triggerQueue' = triggerQueue \/ triggerQueue' = Append(triggerQueue, t)
        \/ triggerQueue # <<>> /\ triggerQueue' = Tail(triggerQueue)
    BY <2>1, Zenon
    DEF Entering, CallTrigger, Refuse, PassChecks, GrantTrigger, StartClosing
  <2> QED
    BY <2>2, QueueMoves DEF LockType
<1>3. stateQueue' \in Seq(Commands \cup Triggers)
  <2> DEFINE callers == Commands \cup Triggers
  <2>1. stateQueue \in Seq(callers) /\ t \in callers
    BY DEF LockType
  <2>2. \/ stateQueue' = stateQueue \/ stateQueue' = Append(stateQueue, t)
        \/ stateQueue # <<>> /\ stateQueue' = Tail(stateQueue)
    BY Zenon DEF Entering, CallTrigger, Refuse, PassChecks, GrantTrigger,
                 StartClosing
  <2> HIDE DEF callers
  <2>3. stateQueue' \in Seq(callers)
    BY <2>1, <2>2, QueueMoves
  <2> QED
    BY <2>3 DEF callers
<1>4. HoldersLead'
  <2> SUFFICES ASSUME NEW u \in Triggers, pc'[u] \in {"waiting", "logging"}
               PROVE  triggerQueue' # <<>> /\ Head(triggerQueue') = u
    BY DEF HoldersLead, HoldsTriggerLock
  <2>1. CASE CallTrigger(t)
    <3>1. triggerQueue # <<>> /\ Head(triggerQueue) = u /\ triggerQueue \in Seq(Triggers)
      BY <2>1 DEF CallTrigger, LockType, HoldersLead, HoldsTriggerLock
    <3> QED
      BY <2>1, <3>1, AppendProperties, HeadTailAppend DEF CallTrigger
  <2>2. CASE Refuse(t)
    BY <2>2 DEF Refuse, LockType, HoldersLead, HoldsTriggerLock
  <2>3. CASE PassChecks(t)
    BY <2>3 DEF PassChecks, SetTriggered, LockType, HoldersLead, HoldsTriggerLock
  <2>4. CASE GrantTrigger(t) /\ AlreadyTriggered
    BY <2>4 DEF GrantTrigger, LockType, HoldersLead, HoldsTriggerLock
  <2>5. CASE GrantTrigger(t) /\ ~AlreadyTriggered
    BY <2>5 DEF GrantTrigger, SetTriggered, LockType, HoldersLead, HoldsTriggerLock
  <2>6. CASE StartClosing(t)
    BY <2>6 DEF StartClosing, LockType, HoldersLead, HoldsTriggerLock
  <2> QED
    BY <2>1, <2>2, <2>3, <2>4, <2>5, <2>6 DEF Entering
<1>5. LoggerTriggered'
  <2> SUFFICES ASSUME NEW u \in Triggers, pc'[u] = "logging"
               PROVE  triggeredBy' = u
    BY DEF LoggerTriggered
  <2>1. CASE SetTriggered(t)
    <3>1. HoldsTriggerLock(t)
      BY <2>1 DEF SetTriggered, Entering, CallTrigger, Refuse, PassChecks,
                  GrantTrigger, StartClosing, LockType, HoldersLead
    <3>2. u # t => HoldsTriggerLock(u)
      BY <2>1 DEF SetTriggered, LockType, HoldersLead
    <3> QED
      BY <2>1, <3>1, <3>2 DEF SetTriggered, HoldsTriggerLock
  <2>2. CASE ~SetTriggered(t)
    BY <2>2 DEF Entering, CallTrigger, Refuse, PassChecks, GrantTrigger,
                StartClosing, switchVars, LockType, LoggerTriggered
  <2> QED
    BY <2>1, <2>2
<1>6. OrderType'
  <2>1. UNCHANGED <<current, attempt>>
    BY DEF Entering, CallTrigger, Refuse, PassChecks, GrantTrigger, StartClosing,
           closeVars
  <2>2. \E place \in Places \ InOrder :
          pc[t] \notin InOrder /\ pc' = [pc EXCEPT ![t] = place]
    BY DEF Entering, CallTrigger, Refuse, PassChecks, GrantTrigger, StartClosing,
           SetTriggered, InOrder, Closing, Places
  <2> QED
    BY <2>1, <2>2 DEF OrderType
<1> QED
  BY <1>1, <1>2, <1>3, <1>4, <1>5, <1>6 DEF LockType

(* While it works on its list a call moves between the places of closing,  *)
(* and leaves the switch and its locks alone.                              *)
LEMMA WorkPlaces ==
  ASSUME CoreType, NEW t \in Triggers, Working(t)
  PROVE  /\ UNCHANGED switchVars
         /\ \/ UNCHANGED pc
            \/ \E place \in Closing \cup {"idle"} :
                 pc[t] \in Closing /\ pc' = [pc EXCEPT ![t] = place]
         /\ \A u \in Triggers :
              pc'[u] \in {"waiting", "logging"} \/ pc[u] \in {"waiting", "logging"}
                => pc'[u] = pc[u]
<1> USE DEF Working, Unsent, Complete, SendFirst, RefusedByBreaker, NotSent,
            ReportUnsent, OrderAccepted, OrderFails, SendAgain, Book,
            CloseSucceeds, CloseGivesUp, NextPosition, Goto
<1>1. UNCHANGED switchVars
  BY Zenon
<1>2. \/ UNCHANGED pc
      \/ \E place \in Closing \cup {"idle"} :
           pc[t] \in Closing /\ pc' = [pc EXCEPT ![t] = place]
  BY DEF Closing
<1> QED
  BY <1>1, <1>2 DEF CoreType, Closing

LEMMA CloseTypes ==
  ASSUME CoreType, LockType, OrderType, NEW t \in Triggers, Working(t)
  PROVE  LockType' /\ OrderType'
<1> USE DEF CoreType, Goto, closeVars
<1>1. LockType'
  BY WorkPlaces DEF switchVars, LockType, HoldersLead, LoggerTriggered,
                    HoldsTriggerLock
<1>2. OrderType'
  <2> USE KillSwitchAssumption DEF OrderType, InOrder, Closing
  <2>1. CASE Complete(t) \/ \E p \in Positions : Unsent(t, p)
    BY <2>1 DEF Complete, Unsent, RefusedByBreaker, NotSent, ReportUnsent
  <2>2. ASSUME NEW p \in Positions, SendFirst(t, p) PROVE OrderType'
    BY <2>2 DEF SendFirst
  <2>3. CASE OrderAccepted(t) \/ OrderFails(t) \/ Book(t)
    BY <2>3 DEF OrderAccepted, OrderFails, Book
  <2>4. CASE SendAgain(t)
    BY <2>4 DEF SendAgain
  <2>5. CASE CloseSucceeds(t) \/ CloseGivesUp(t)
    BY <2>5 DEF CloseSucceeds, CloseGivesUp, NextPosition
  <2> QED
    BY <2>1, <2>2, <2>3, <2>4, <2>5 DEF Working
<1> QED
  BY <1>1, <1>2

LEMMA WriterStep == WriterType /\ [Next]_vars => WriterType'
<1> SUFFICES ASSUME WriterType, [Next]_vars PROVE WriterType'
  OBVIOUS
<1>1. \/ UNCHANGED stateWriter \/ CommandWritten \/ GrantCommand
      \/ \E c \in Commands : CallCommand(c)
  BY DEF Next, CallTrigger, Advance, Refuse, PassChecks, GrantTrigger,
         StartClosing, Complete, SendFirst, RefusedByBreaker, NotSent,
         ReportUnsent, OrderAccepted, OrderFails, SendAgain, Book,
         CloseSucceeds, CloseGivesUp, ExecuteOrder, EngineOpens,
         ClosedElsewhere, HandlePositionUpdate, Tick, vars, switchVars
<1> QED
  BY <1>1, Zenon DEF WriterType, CommandWritten, GrantCommand, CallCommand, Run

LEMMA TypesInit == Init => Types
<1> SUFFICES ASSUME Init PROVE Types
  OBVIOUS
<1>1. CoreType /\ MarketType
  BY KillSwitchAssumption DEF Init, CoreType, MarketType, Holdings, Places
<1>2. LockType
  BY DEF Init, LockType, HoldersLead, LoggerTriggered
<1>3. OrderType
  BY KillSwitchAssumption DEF Init, OrderType, InOrder, Closing
<1>4. BreakerTypeOK
  BY RetryBreakerAssumption
  DEF Init, BreakerInit, BreakerTypeOK, RetryBreakerAssumption
<1>5. WriterType
  BY Zenon DEF Init, WriterType
<1> QED
  BY <1>1, <1>2, <1>3, <1>4, <1>5 DEF Types

LEMMA TypesStep == Types /\ [Next]_vars => Types'
<1> SUFFICES ASSUME Types, [Next]_vars PROVE Types'
  OBVIOUS
<1> USE DEF Types
<1>1. CoreType'
  BY CoreEnters, CoreWorks, CoreStays, NextSteps
<1>2. MarketType'
  BY MarketTypes
<1>3. LockType' /\ OrderType'
  <2>1. CASE Tick \/ (\E p \in Positions : Outside(p)) \/ UNCHANGED vars
    <3>1. UNCHANGED <<triggeredBy, triggerQueue, pc, closeVars>>
      BY <2>1, CoreStays
    <3>2. UNCHANGED stateQueue
      BY <2>1 DEF Tick, Outside, ExecuteOrder, EngineOpens, ClosedElsewhere,
                  HandlePositionUpdate, vars, switchVars
    <3> QED
      BY <3>1, <3>2
      DEF closeVars, LockType, OrderType, HoldersLead, LoggerTriggered,
          HoldsTriggerLock
  <2> QED
    BY <2>1, CommandTypes, TriggerTypes, CloseTypes, NextSteps
<1>4. BreakerTypeOK'
  BY OneOperation, BreakerTypes
<1>5. WriterType'
  BY WriterStep
<1> QED
  BY <1>1, <1>2, <1>3, <1>4, <1>5

LEMMA TypesHold == Spec => []Types
BY TypesInit, TypesStep, PTL DEF Spec

(* The switch, its locks, calls, books, orders and breaker stay within     *)
(* their types; a call has a position at hand exactly while its order is   *)
(* under way.                                                              *)
THEOREM TypeCorrect == Spec => []TypeOK
<1>1. Types => TypeOK
  <2> SUFFICES ASSUME CoreType, MarketType, LockType, OrderType, BreakerTypeOK,
                      WriterType
               PROVE  TypeOK
    BY DEF Types
  <2> QED
    BY Zenon DEF CoreType, MarketType, LockType, OrderType, WriterType, TypeOK,
                 InOrder
<1> QED
  BY <1>1, TypesHold, PTL

-----------------------------------------------------------------------------
(***************************************************************************)
(* The positions.  A call works on positions that were open in the books   *)
(* when it listed them; what it takes for closed, and what the books call  *)
(* closed, has an order at work or has felt one, and keeps it so.          *)
(***************************************************************************)

(* Retried and overlapping close orders never reverse a position. *)
NeverReversed == \A p \in Positions : market[p] # "reversed"

(* Nobody knows, lists or orders what has not been opened. *)
KnownIsThere ==
  \A p \in Positions :
    tracked[p] # "none" \/ p \in listed \/ working[p] > 0 => market[p] # "none"

ProgressInv ==
  \A t \in Triggers :
    /\ \A p \in todo[t] : tracked[p] # "none"
    /\ pc[t] \in InOrder => current[t] \in todo[t]
    /\ pc[t] \in {"acknowledged", "booked"} => Ordered(current[t])

Inv ==
  /\ NeverReversed
  /\ KnownIsThere
  /\ ProgressInv
  /\ BooksNotAhead
  /\ NoPositionEscapes

LEMMA InvInit == Init => Inv
BY DEF Init, Inv, NeverReversed, KnownIsThere, ProgressInv, BooksNotAhead,
       NoPositionEscapes, InOrder, Closing

(* The position at hand. *)
LEMMA Current ==
  ASSUME Types, Inv, NEW t \in Triggers, pc[t] \in InOrder
  PROVE  /\ current[t] \in Positions /\ current[t] \in todo[t]
         /\ tracked[current[t]] # "none"
BY AtHand DEF Types, Inv, ProgressInv

(* The list of a call is its own. *)
LEMMA ListTaken ==
  ASSUME Types, NEW t \in Triggers, StartClosing(t)
  PROVE  /\ triggeredBy = t /\ pc[t] = "logging"
         /\ pc' = [pc EXCEPT ![t] = "closing"]
         /\ todo' = [todo EXCEPT ![t] = OpenPositions]
         /\ listed' = OpenPositions /\ failed' = {}
         /\ UNCHANGED <<state, triggeredBy, current, marketVars>>
BY DEF StartClosing, Goto, Types, LockType, LoggerTriggered

-----------------------------------------------------------------------------
(* The orders.  The exchange accepts one only against what it holds; it    *)
(* executes one against what is left by then.                              *)
LEMMA Accepting ==
  ASSUME Types, Inv, NEW t \in Triggers, OrderAccepted(t)
  PROVE  /\ current[t] \in Positions /\ Held(current[t]) /\ pc[t] = "sent"
         /\ working' = [working EXCEPT ![current[t]] = @ + 1]
         /\ UNCHANGED <<switchVars, closeVars, tracked, market>>
         /\ \E place \in {"acknowledged", "errored"} :
              pc' = [pc EXCEPT ![t] = place]
BY AtHand DEF OrderAccepted, ReduceOnly, Goto, Types, InOrder, Closing

LEMMA Executing ==
  ASSUME Types, Inv, NEW p \in Positions, ExecuteOrder(p)
  PROVE  /\ working[p] > 0 /\ working' = [working EXCEPT ![p] = @ - 1]
         /\ UNCHANGED <<switchVars, pc, closeVars, tracked>>
         /\ \/ Held(p) /\ \E holding \in {"rest", "closed"} :
                 market' = [market EXCEPT ![p] = holding]
            \/ market[p] = "closed" /\ UNCHANGED market
<1>1. /\ working[p] > 0 /\ working' = [working EXCEPT ![p] = @ - 1]
      /\ UNCHANGED <<switchVars, pc, closeVars, tracked>>
      /\ \E holding \in Executed(p) : market' = [market EXCEPT ![p] = holding]
  BY DEF ExecuteOrder
<1>2. CASE Held(p)
  BY <1>1, <1>2 DEF Executed
<1>3. CASE ~Held(p)
  <2>1. market[p] = "closed"
    BY <1>1, <1>3
    DEF Held, Types, MarketType, Holdings, Inv, NeverReversed, KnownIsThere
  <2>2. UNCHANGED market
    BY <1>1, <1>3, <2>1 DEF Executed, ReduceOnly, Types, MarketType
  <2> QED
    BY <1>1, <2>1, <2>2
<1> QED
  BY <1>2, <1>3

(* What is kept by every step that changes nothing at the exchange.        *)
LEMMA MarketKept ==
  ASSUME Inv, UNCHANGED <<market, working>>,
         \A p \in Positions :
           tracked'[p] # "none" \/ p \in listed' => market[p] # "none"
  PROVE  NeverReversed' /\ KnownIsThere'
           /\ \A p \in Positions : Ordered(p)' <=> Ordered(p)
BY DEF Inv, NeverReversed, KnownIsThere, Ordered

(* Once ordered or closed, a position stays so. *)
LEMMA OrderedStays ==
  ASSUME Types, Inv,
         \/ \E t \in Triggers : OrderAccepted(t)
         \/ \E p \in Positions : ExecuteOrder(p) \/ EngineOpens(p) \/ ClosedElsewhere(p)
  PROVE  /\ NeverReversed' /\ KnownIsThere'
         /\ \A p \in Positions : Ordered(p) => Ordered(p)'
<1> USE DEF Types, MarketType, Holdings, Held, Ordered, Inv, NeverReversed,
            KnownIsThere, closeVars
<1>1. ASSUME NEW t \in Triggers, OrderAccepted(t)
      PROVE  /\ NeverReversed' /\ KnownIsThere'
             /\ \A p \in Positions : Ordered(p) => Ordered(p)'
  BY <1>1, Accepting
<1>2. ASSUME NEW p \in Positions, ExecuteOrder(p)
      PROVE  /\ NeverReversed' /\ KnownIsThere'
             /\ \A q \in Positions : Ordered(q) => Ordered(q)'
  BY <1>2, Executing
<1>3. ASSUME NEW p \in Positions, EngineOpens(p) \/ ClosedElsewhere(p)
      PROVE  /\ NeverReversed' /\ KnownIsThere'
             /\ \A q \in Positions : Ordered(q) => Ordered(q)'
  BY <1>3 DEF EngineOpens, ClosedElsewhere
<1> QED
  BY <1>1, <1>2, <1>3

-----------------------------------------------------------------------------
(* Steps that touch neither the exchange nor the books nor any call's list,*)
(* and move a call, if at all, between places outside an order.            *)
LEMMA ControlStep ==
  ASSUME Types, Inv, UNCHANGED <<todo, current, listed, marketVars>>,
         \A u \in Triggers :
           pc'[u] \in InOrder \/ pc[u] \in InOrder => pc'[u] = pc[u]
  PROVE  NeverReversed' /\ KnownIsThere' /\ ProgressInv' /\ BooksNotAhead'
<1>1. NeverReversed' /\ KnownIsThere'
        /\ \A p \in Positions : Ordered(p)' <=> Ordered(p)
  BY MarketKept DEF marketVars, Inv, KnownIsThere
<1>2. \A t \in Triggers : pc[t] \in InOrder => current[t] \in Positions
  BY Current
<1>3. ProgressInv'
  BY <1>1, <1>2 DEF marketVars, Inv, ProgressInv, InOrder, Closing
<1>4. BooksNotAhead'
  BY <1>1 DEF marketVars, Inv, BooksNotAhead
<1> QED
  BY <1>1, <1>3, <1>4

LEMMA CommandStep ==
  ASSUME Types, Inv, Commanding \/ Tick \/ UNCHANGED vars
  PROVE  Inv'
<1>1. /\ UNCHANGED <<triggeredBy, pc, closeVars, marketVars>>
      /\ state' = "triggered" => state = "triggered"
  BY CoreStays DEF Types, Commanding, CallCommand, GrantCommand, CommandWritten,
                   Tick, vars
<1>2. NoPositionEscapes'
  BY <1>1 DEF closeVars, marketVars, Inv, NoPositionEscapes
<1> QED
  BY <1>1, <1>2, ControlStep DEF closeVars, Inv

(* Up to the write of the TRIGGERED state a call has no list yet. *)
LEMMA TriggerStep ==
  ASSUME Types, Inv, NEW t \in Triggers,
         CallTrigger(t) \/ Refuse(t) \/ PassChecks(t) \/ GrantTrigger(t)
  PROVE  Inv'
<1>1. UNCHANGED <<closeVars, marketVars>>
  BY DEF CallTrigger, Refuse, PassChecks, GrantTrigger
<1>2. /\ pc[t] \in {"idle", "queued", "waiting"}
      /\ \E place \in {"idle", "queued", "waiting", "logging"} :
           pc' = [pc EXCEPT ![t] = place]
  BY DEF CallTrigger, Refuse, PassChecks, GrantTrigger, SetTriggered, Goto
<1>3. \/ SetTriggered(t)
      \/ UNCHANGED <<state, triggeredBy>> /\ pc'[t] # "logging"
  BY DEF CallTrigger, Refuse, PassChecks, GrantTrigger, Goto, Types, CoreType
<1>4. NoPositionEscapes'
  <2>1. CASE SetTriggered(t)
    BY <2>1 DEF SetTriggered, Goto, Types, CoreType, NoPositionEscapes
  <2>2. CASE UNCHANGED <<state, triggeredBy>> /\ pc'[t] # "logging"
    BY <1>1, <1>2, <2>2
    DEF closeVars, marketVars, Types, CoreType, Inv, NoPositionEscapes
  <2> QED
    BY <1>3, <2>1, <2>2
<1>5. \A u \in Triggers :
        pc'[u] \in InOrder \/ pc[u] \in InOrder => pc'[u] = pc[u]
  BY <1>2 DEF Types, CoreType, InOrder, Closing
<1> QED
  BY <1>1, <1>4, <1>5, ControlStep DEF closeVars, Inv

(* What is open in the books is listed, and all that is listed is to do. *)
LEMMA StartStep ==
  ASSUME Types, Inv, NEW t \in Triggers, StartClosing(t) PROVE Inv'
<1>1. /\ triggeredBy = t /\ pc[t] = "logging"
      /\ pc' = [pc EXCEPT ![t] = "closing"]
      /\ todo' = [todo EXCEPT ![t] = OpenPositions]
      /\ listed' = OpenPositions
      /\ UNCHANGED <<state, triggeredBy, current, tracked, market, working>>
  BY ListTaken DEF marketVars
<1>2. NeverReversed' /\ KnownIsThere'
        /\ \A p \in Positions : Ordered(p)' <=> Ordered(p)
  BY <1>1, MarketKept DEF OpenPositions, Inv, KnownIsThere
<1>3. \A u \in Triggers : pc[u] \in InOrder => current[u] \in Positions
  BY Current
<1>4. ProgressInv'
  BY <1>1, <1>2, <1>3
  DEF Types, CoreType, Inv, ProgressInv, OpenPositions, InOrder, Closing
<1>5. BooksNotAhead'
  BY <1>1, <1>2 DEF Inv, BooksNotAhead
<1>6. NoPositionEscapes'
  BY <1>1 DEF Types, CoreType, NoPositionEscapes, OpenPositions
<1> QED
  BY <1>2, <1>4, <1>5, <1>6 DEF Inv

(* Between the positions, and between the attempts at one. *)
LEMMA TryStep ==
  ASSUME Types, Inv, NEW t \in Triggers,
         \/ Complete(t) \/ OrderFails(t) \/ SendAgain(t)
         \/ \E p \in Positions : SendFirst(t, p)
  PROVE  Inv'
<1> USE DEF Types, CoreType
<1>1. /\ UNCHANGED <<state, triggeredBy, todo, listed, failed, marketVars>>
      /\ pc[t] \in Closing
      /\ \E place \in {"idle", "sent", "errored"} : pc' = [pc EXCEPT ![t] = place]
      /\ \/ UNCHANGED current
         \/ \E p \in todo[t] : current' = [current EXCEPT ![t] = p]
      /\ pc'[t] \in InOrder => current'[t] \in todo[t]
  <2>1. CASE Complete(t)
    BY <2>1 DEF Complete, Goto, switchVars, closeVars, InOrder, Closing
  <2>2. CASE OrderFails(t) \/ SendAgain(t)
    BY <2>2, Current DEF OrderFails, SendAgain, Goto, switchVars, closeVars,
                         InOrder, Closing
  <2>3. CASE \E p \in Positions : SendFirst(t, p)
    BY <2>3 DEF SendFirst, Goto, switchVars, Closing
  <2> QED
    BY <2>1, <2>2, <2>3
<1>2. NeverReversed' /\ KnownIsThere'
        /\ \A p \in Positions : Ordered(p)' <=> Ordered(p)
  BY <1>1, MarketKept DEF marketVars, Inv, KnownIsThere
<1>3. \A u \in Triggers : pc[u] \in InOrder => current[u] \in Positions
  BY Current
<1>4. ProgressInv'
  <2> SUFFICES ASSUME NEW u \in Triggers
               PROVE  /\ \A p \in todo'[u] : tracked'[p] # "none"
                      /\ pc'[u] \in InOrder => current'[u] \in todo'[u]
                      /\ pc'[u] \in {"acknowledged", "booked"} => Ordered(current[u])'
    BY DEF ProgressInv
  <2>1. CASE u = t
    BY <1>1, <2>1 DEF marketVars, Inv, ProgressInv
  <2>2. CASE u # t
    <3>1. pc'[u] = pc[u] /\ current'[u] = current[u]
      BY <1>1, <2>2
    <3>2. Ordered(current[u])' <=> Ordered(current[u])
      BY <1>1, <3>1 DEF marketVars, Ordered
    <3> QED
      BY <1>1, <3>1, <3>2 DEF marketVars, Inv, ProgressInv
  <2> QED
    BY <2>1, <2>2
<1>5. BooksNotAhead'
  BY <1>1, <1>2 DEF marketVars, Inv, BooksNotAhead
<1>6. NoPositionEscapes'
  BY <1>1 DEF marketVars, Closing, Inv, NoPositionEscapes
<1> QED
  BY <1>2, <1>4, <1>5, <1>6 DEF Inv

(* A position is struck off the list: reported, or with an order.  The     *)
(* results of a call that a later one has overtaken are not looked at.     *)
LEMMA StrikeOff ==
  ASSUME Types, Inv, NEW t \in Triggers, NEW p \in Positions,
         pc[t] \in Closing, pc' = [pc EXCEPT ![t] = "closing"],
         todo' = [todo EXCEPT ![t] = @ \ {p}],
         UNCHANGED current \/ current' = [current EXCEPT ![t] = NoPosition],
         UNCHANGED <<state, triggeredBy, listed, marketVars>>,
         \/ ReportFailed(t, p)
         \/ Ordered(p) /\ UNCHANGED failed
  PROVE  Inv'
<1> USE DEF Types, CoreType
<1>1. NeverReversed' /\ KnownIsThere'
        /\ \A q \in Positions : Ordered(q)' <=> Ordered(q)
  BY MarketKept DEF marketVars, Inv, KnownIsThere
<1>2. \A u \in Triggers : pc[u] \in InOrder => current[u] \in Positions
  BY Current
<1>3. ProgressInv'
  <2> SUFFICES ASSUME NEW u \in Triggers
               PROVE  /\ \A q \in todo'[u] : tracked'[q] # "none"
                      /\ pc'[u] \in InOrder => current'[u] \in todo'[u]
                      /\ pc'[u] \in {"acknowledged", "booked"} => Ordered(current[u])'
    BY DEF ProgressInv
  <2>1. CASE u = t
    BY <2>1 DEF marketVars, Inv, ProgressInv, InOrder
  <2>2. CASE u # t
    <3>1. /\ pc'[u] = pc[u] /\ current'[u] = current[u] /\ todo'[u] = todo[u]
      BY <2>2
    <3>2. Ordered(current[u])' <=> Ordered(current[u])
      BY <3>1 DEF marketVars, Ordered
    <3> QED
      BY <3>1, <3>2 DEF marketVars, Inv, ProgressInv
  <2> QED
    BY <2>1, <2>2
<1>4. BooksNotAhead'
  BY <1>1 DEF marketVars, Inv, BooksNotAhead
<1>5. NoPositionEscapes'
  BY DEF ReportFailed, Ordered, marketVars, MarketType, Closing, Inv,
         NoPositionEscapes
<1> QED
  BY <1>1, <1>3, <1>4, <1>5 DEF Inv

LEMMA UnsentStep ==
  ASSUME Types, Inv, NEW t \in Triggers, NEW p \in Positions, Unsent(t, p)
  PROVE  Inv'
<1>1. /\ pc[t] = "closing" /\ UNCHANGED <<pc, current>>
      /\ todo' = [todo EXCEPT ![t] = @ \ {p}]
      /\ UNCHANGED <<state, triggeredBy, listed, marketVars>>
      /\ ReportFailed(t, p)
  BY DEF Unsent, RefusedByBreaker, NotSent, ReportUnsent, switchVars
<1>2. pc' = [pc EXCEPT ![t] = "closing"]
  BY <1>1 DEF Types, CoreType
<1> QED
  BY <1>1, <1>2, StrikeOff DEF Closing

LEMMA DoneStep ==
  ASSUME Types, Inv, NEW t \in Triggers, CloseSucceeds(t) \/ CloseGivesUp(t)
  PROVE  Inv'
<1>1. /\ pc[t] \in {"booked", "errored"} /\ pc' = [pc EXCEPT ![t] = "closing"]
      /\ todo' = [todo EXCEPT ![t] = @ \ {current[t]}]
      /\ current' = [current EXCEPT ![t] = NoPosition]
      /\ UNCHANGED <<state, triggeredBy, listed, marketVars>>
      /\ \/ ReportFailed(t, current[t])
         \/ pc[t] = "booked" /\ UNCHANGED failed
  BY DEF CloseSucceeds, CloseGivesUp, NextPosition, Goto, switchVars
<1>2. current[t] \in Positions
  BY <1>1, Current DEF InOrder, Closing
<1>3. pc[t] = "booked" => Ordered(current[t])
  BY DEF Inv, ProgressInv
<1> QED
  BY <1>1, <1>2, <1>3, StrikeOff DEF Closing

(* The exchange accepts an order, the answer may be lost. *)
LEMMA AcceptStep ==
  ASSUME Types, Inv, NEW t \in Triggers, OrderAccepted(t) PROVE Inv'
<1> USE DEF Types, CoreType
<1>1. /\ current[t] \in Positions /\ pc[t] = "sent"
      /\ working' = [working EXCEPT ![current[t]] = @ + 1]
      /\ UNCHANGED <<state, triggeredBy, todo, current, listed, failed, tracked,
                     market>>
      /\ \E place \in {"acknowledged", "errored"} : pc' = [pc EXCEPT ![t] = place]
  BY Accepting DEF switchVars, closeVars
<1>2. /\ NeverReversed' /\ KnownIsThere'
      /\ \A p \in Positions : Ordered(p) => Ordered(p)'
  BY OrderedStays
<1>3. Ordered(current[t])'
  BY <1>1 DEF Ordered, MarketType
<1>4. \A u \in Triggers : pc[u] \in InOrder => current[u] \in Positions
  BY Current
<1>5. ProgressInv'
  <2> SUFFICES ASSUME NEW u \in Triggers
               PROVE  /\ \A p \in todo'[u] : tracked'[p] # "none"
                      /\ pc'[u] \in InOrder => current'[u] \in todo'[u]
                      /\ pc'[u] \in {"acknowledged", "booked"} => Ordered(current[u])'
    BY DEF ProgressInv
  <2>1. CASE u = t
    BY <1>1, <1>3, <2>1 DEF Inv, ProgressInv, InOrder, Closing
  <2>2. CASE u # t
    <3>1. pc'[u] = pc[u]
      BY <1>1, <2>2
    <3>2. pc[u] \in {"acknowledged", "booked"} => Ordered(current[u])'
      BY <1>1, <1>2, <1>4 DEF Inv, ProgressInv, InOrder, Closing, Ordered
    <3> QED
      BY <1>1, <3>1, <3>2 DEF Inv, ProgressInv
  <2> QED
    BY <2>1, <2>2
<1>6. BooksNotAhead'
  BY <1>1, <1>2 DEF Inv, BooksNotAhead
<1>7. NoPositionEscapes'
  BY <1>1 DEF MarketType, Inv, NoPositionEscapes
<1> QED
  BY <1>2, <1>5, <1>6, <1>7 DEF Inv

(* The books change on an acknowledgement ... *)
LEMMA BookStep ==
  ASSUME Types, Inv, NEW t \in Triggers, Book(t) PROVE Inv'
<1> USE DEF Types, CoreType
<1>1. /\ pc[t] = "acknowledged" /\ pc' = [pc EXCEPT ![t] = "booked"]
      /\ UNCHANGED tracked \/ tracked' = [tracked EXCEPT ![current[t]] = "closed"]
      /\ UNCHANGED <<state, triggeredBy, todo, current, listed, failed, market,
                     working>>
  BY DEF Book, Goto, switchVars, closeVars
<1>2. current[t] \in Positions /\ Ordered(current[t])
  BY <1>1, Current DEF Inv, ProgressInv, InOrder, Closing
<1>3. \A p \in Positions :
        /\ tracked'[p] = tracked[p] \/ tracked'[p] = "closed"
        /\ tracked'[p] = "none" <=> tracked[p] = "none"
  BY <1>1, <1>2, Current DEF MarketType, InOrder, Closing
<1>4. \A u \in Triggers : pc[u] \in InOrder => current[u] \in Positions
  BY Current
<1>5. NeverReversed' /\ KnownIsThere'
        /\ \A p \in Positions : Ordered(p)' <=> Ordered(p)
  BY <1>1, <1>3, MarketKept DEF Inv, KnownIsThere
<1>6. ProgressInv'
  BY <1>1, <1>2, <1>3, <1>4, <1>5 DEF Inv, ProgressInv, InOrder, Closing
<1>7. BooksNotAhead'
  BY <1>1, <1>2, <1>5 DEF MarketType, Inv, BooksNotAhead
<1>8. NoPositionEscapes'
  BY <1>1 DEF Inv, NoPositionEscapes
<1> QED
  BY <1>5, <1>6, <1>7, <1>8 DEF Inv

(* ... and on an update, which tells what the exchange once held. *)
LEMMA OutsideStep ==
  ASSUME Types, Inv, NEW p \in Positions, Outside(p) PROVE Inv'
<1> USE DEF Types, CoreType
<1>1. UNCHANGED <<state, triggeredBy, pc, todo, current, listed, failed>>
  BY DEF Outside, ExecuteOrder, EngineOpens, ClosedElsewhere,
         HandlePositionUpdate, switchVars, closeVars
<1>2. \A u \in Triggers : pc[u] \in InOrder => current[u] \in Positions
  BY Current
<1>3. CASE HandlePositionUpdate(p)
  <2>1. /\ UNCHANGED <<market, working>>
        /\ \E status \in Reportable(p) : tracked' = [tracked EXCEPT ![p] = status]
    BY <1>3 DEF HandlePositionUpdate
  <2>2. \A q \in Positions :
          \/ tracked'[q] = tracked[q]
          \/ tracked'[q] = "open" /\ market[q] # "none"
          \/ tracked'[q] = "closed" /\ market[q] = "closed"
    BY <2>1 DEF Reportable, MarketType
  <2>3. NeverReversed' /\ KnownIsThere'
          /\ \A q \in Positions : Ordered(q)' <=> Ordered(q)
    BY <1>1, <2>1, <2>2, MarketKept DEF Inv, KnownIsThere
  <2>4. ProgressInv'
    BY <1>1, <1>2, <2>2, <2>3 DEF Inv, ProgressInv, InOrder, Closing
  <2>5. BooksNotAhead'
    BY <2>2, <2>3 DEF Inv, BooksNotAhead, Ordered
  <2>6. NoPositionEscapes'
    BY <1>1, <2>1 DEF Inv, NoPositionEscapes
  <2> QED
    BY <2>3, <2>4, <2>5, <2>6 DEF Inv
<1>4. CASE ExecuteOrder(p) \/ EngineOpens(p) \/ ClosedElsewhere(p)
  <2>1. UNCHANGED tracked
    BY <1>4 DEF ExecuteOrder, EngineOpens, ClosedElsewhere
  <2>2. /\ NeverReversed' /\ KnownIsThere'
        /\ \A q \in Positions : Ordered(q) => Ordered(q)'
    BY <1>4, OrderedStays
  <2>3. ProgressInv'
    BY <1>1, <1>2, <2>1, <2>2 DEF Inv, ProgressInv, InOrder, Closing
  <2>4. BooksNotAhead'
    BY <2>1, <2>2 DEF Inv, BooksNotAhead
  <2>5. NoPositionEscapes'
    <3>1. \A q \in listed :
            market'[q] = "open" => market[q] = "open" /\ working'[q] = working[q]
      <4> USE DEF MarketType, Inv, KnownIsThere
      <4>1. CASE ExecuteOrder(p)
        BY <4>1, Executing DEF Held
      <4>2. CASE EngineOpens(p) \/ ClosedElsewhere(p)
        BY <4>2 DEF EngineOpens, ClosedElsewhere
      <4> QED
        BY <1>4, <4>1, <4>2
    <3> QED
      BY <1>1, <3>1 DEF Inv, NoPositionEscapes
  <2> QED
    BY <2>2, <2>3, <2>4, <2>5 DEF Inv
<1> QED
  BY <1>3, <1>4 DEF Outside

LEMMA InvStep == Types /\ Inv /\ [Next]_vars => Inv'
<1> SUFFICES ASSUME Types, Inv, [Next]_vars PROVE Inv'
  OBVIOUS
<1>1. ASSUME NEW t \in Triggers, Entering(t) PROVE Inv'
  BY <1>1, TriggerStep, StartStep DEF Entering
<1>2. ASSUME NEW t \in Triggers, Working(t) PROVE Inv'
  BY <1>2, TryStep, UnsentStep, AcceptStep, BookStep, DoneStep DEF Working
<1> QED
  BY <1>1, <1>2, CommandStep, OutsideStep, NextSteps

LEMMA Invariance == Spec => [](Types /\ Inv)
BY InvInit, InvStep, TypesHold, PTL DEF Spec

(* While TRIGGERED, whatever the call that triggered found open and the    *)
(* exchange still holds untouched is to be tried, reported or ordered.     *)
THEOREM EveryPositionAccounted == Spec => []NoPositionEscapes
BY Invariance, PTL DEF Inv

(* Whatever is retried, lost, overtaken or executed late, no close order   *)
(* reverses a position.                                                    *)
THEOREM ClosesNeverReverse == Spec => []NeverReversed
BY Invariance, PTL DEF Inv

(* The books call no position closed that has neither an accepted order nor*)
(* been closed or reduced at the exchange, however late updates come.      *)
THEOREM BooksNeverAhead == Spec => []BooksNotAhead
BY Invariance, PTL DEF Inv

-----------------------------------------------------------------------------
(***************************************************************************)
(* The locks.  A queue is a sequence of different callers, in step with    *)
(* where the calls are; LocksMoveOn says so of the heads and of those who  *)
(* wait, but is inductive only with what stands behind the heads.          *)
(***************************************************************************)

(* Nobody stands in a queue twice, but commands are not told apart. *)
Distinct(queue) ==
  \A i, j \in DOMAIN queue :
    queue[i] = queue[j] /\ queue[i] \in Triggers => i = j

TriggerLockInv ==
  /\ Distinct(triggerQueue)
  /\ \A i \in DOMAIN triggerQueue :
       pc[triggerQueue[i]] \in IF i = 1 THEN {"queued", "waiting", "logging"}
                                        ELSE {"queued"}
  /\ \A t \in Triggers : pc[t] = "queued" => Waits(t, triggerQueue)

StateLockInv ==
  /\ Distinct(stateQueue)
  /\ \A i \in DOMAIN stateQueue :
       stateQueue[i] \in Triggers => pc[stateQueue[i]] = "waiting"
  /\ \A t \in Triggers : pc[t] = "waiting" => Waits(t, stateQueue)

LockInv == TriggerLockInv /\ StateLockInv

(* What joining a queue and leaving it at the head do to its entries.      *)
LEMMA JoinQueue ==
  ASSUME NEW S, NEW q \in Seq(S), NEW e \in S, NEW r, r = Append(q, e)
  PROVE  /\ DOMAIN r = DOMAIN q \cup {Len(q) + 1} /\ Len(q) \in Nat
         /\ \A i \in DOMAIN q : r[i] = q[i] /\ i # Len(q) + 1
         /\ r[Len(q) + 1] = e
         /\ DOMAIN q = 1 .. Len(q)
BY AppendProperties

LEMMA LeaveQueue ==
  ASSUME NEW S, NEW q \in Seq(S), q # <<>>, NEW r, r = Tail(q)
  PROVE  /\ 1 \in DOMAIN q /\ q[1] = Head(q)
         /\ \A i \in DOMAIN r : i + 1 \in DOMAIN q /\ r[i] = q[i + 1] /\ i \in Nat
         /\ \A i \in DOMAIN q : i # 1 => i - 1 \in DOMAIN r /\ r[i - 1] = q[i]
         /\ DOMAIN q \subseteq Nat /\ 0 \notin DOMAIN q /\ 0 \notin DOMAIN r
<1>1. Len(q) \in Nat \ {0} /\ DOMAIN q = 1 .. Len(q)
  OBVIOUS
<1>2. /\ r \in Seq(S) /\ Len(r) = Len(q) - 1 /\ DOMAIN r = 1 .. Len(r)
      /\ \A i \in 1 .. Len(r) : r[i] = q[i + 1]
      /\ q[1] = Head(q)
  BY HeadTailProperties
<1> QED
  BY <1>1, <1>2

LEMMA DistinctJoins ==
  ASSUME NEW S, NEW q \in Seq(S), NEW e \in S, NEW r, r = Append(q, e),
         Distinct(q), e \in Triggers => ~Waits(e, q)
  PROVE  Distinct(r)
BY JoinQueue DEF Distinct, Waits

LEMMA DistinctLeaves ==
  ASSUME NEW S, NEW q \in Seq(S), q # <<>>, NEW r, r = Tail(q), Distinct(q)
  PROVE  Distinct(r) /\ (Head(q) \in Triggers => ~Waits(Head(q), r))
BY LeaveQueue DEF Distinct, Waits

(* The head of _trigger_lock's queue leaves it, for good.                  *)
LEMMA HolderLeaves ==
  ASSUME CoreType, LockType, TriggerLockInv, NEW t \in Triggers,
         HoldsTriggerLock(t), NEW place \in {"idle", "closing"},
         pc' = [pc EXCEPT ![t] = place], triggerQueue' = Tail(triggerQueue)
  PROVE  TriggerLockInv'
<1>1. /\ triggerQueue \in Seq(Triggers) /\ triggerQueue # <<>>
      /\ Head(triggerQueue) = t
  BY DEF LockType, HoldsTriggerLock
<1>2. /\ 1 \in DOMAIN triggerQueue /\ triggerQueue[1] = t
      /\ \A i \in DOMAIN triggerQueue' :
           i + 1 \in DOMAIN triggerQueue /\ i + 1 # 1
             /\ triggerQueue'[i] = triggerQueue[i + 1]
      /\ \A i \in DOMAIN triggerQueue :
           i # 1 => i - 1 \in DOMAIN triggerQueue'
                      /\ triggerQueue'[i - 1] = triggerQueue[i]
  BY <1>1, LeaveQueue
<1>3. Distinct(triggerQueue)' /\ ~Waits(t, triggerQueue')
  <2>1. Distinct(triggerQueue') /\ ~Waits(t, triggerQueue')
    BY <1>1, DistinctLeaves DEF TriggerLockInv
  <2> QED
    BY <2>1 DEF Distinct
<1>4. \A i \in DOMAIN triggerQueue' : pc'[triggerQueue'[i]] = "queued"
  BY <1>1, <1>2, <1>3 DEF TriggerLockInv, CoreType, Waits
<1>5. ASSUME NEW u \in Triggers, pc'[u] = "queued"
      PROVE  Waits(u, triggerQueue')
  <2>1. u # t /\ pc[u] = "queued"
    BY <1>5 DEF CoreType
  <2>2. PICK i \in DOMAIN triggerQueue : triggerQueue[i] = u
    BY <2>1 DEF TriggerLockInv, Waits
  <2> QED
    BY <1>2, <2>1, <2>2 DEF Waits
<1> QED
  BY <1>3, <1>4, <1>5 DEF TriggerLockInv, Waits

(* Steps that leave _trigger_lock's queue alone move its holder at most    *)
(* among the places a holder may be.                                       *)
LEMMA HolderStays ==
  ASSUME CoreType, LockType, TriggerLockInv, UNCHANGED triggerQueue,
         \A u \in Triggers :
           \/ pc'[u] = pc[u]
           \/ pc[u] \notin {"queued", "waiting", "logging"} /\ pc'[u] # "queued"
           \/ HoldsTriggerLock(u) /\ pc'[u] \in {"waiting", "logging"}
  PROVE  TriggerLockInv'
<1>1. ASSUME NEW i \in DOMAIN triggerQueue
      PROVE  pc'[triggerQueue[i]] \in IF i = 1
               THEN {"queued", "waiting", "logging"} ELSE {"queued"}
  <2>1. i \in 1 .. Len(triggerQueue) /\ triggerQueue[i] \in Triggers
    BY <1>1 DEF LockType
  <2>2. HoldsTriggerLock(triggerQueue[i]) => i = 1
    BY <2>1 DEF HoldsTriggerLock, LockType, TriggerLockInv, Distinct
  <2> QED
    BY <1>1, <2>1, <2>2 DEF TriggerLockInv
<1> QED
  BY <1>1 DEF TriggerLockInv, Distinct, Waits

(* The same for _state_lock: calls that do not wait for it neither join its*)
(* queue nor stand in it.                                                  *)
LEMMA StateStays ==
  ASSUME StateLockInv, UNCHANGED stateQueue,
         \A u \in Triggers : pc'[u] = "waiting" <=> pc[u] = "waiting"
  PROVE  StateLockInv'
BY DEF StateLockInv, Distinct, Waits

LEMMA StateJoins ==
  ASSUME CoreType, LockType, StateLockInv, NEW e \in Commands \cup Triggers,
         stateQueue' = Append(stateQueue, e),
         \A u \in Triggers : u # e => pc'[u] = pc[u],
         e \in Triggers => pc[e] # "waiting" /\ pc'[e] = "waiting"
  PROVE  StateLockInv'
<1> DEFINE callers == Commands \cup Triggers
<1>1. stateQueue \in Seq(callers) /\ e \in callers
  BY DEF LockType
<1>2. e \in Triggers => ~Waits(e, stateQueue)
  BY DEF StateLockInv, Waits
<1> HIDE DEF callers
<1>3. Distinct(stateQueue')
  BY <1>1, <1>2, DistinctJoins DEF StateLockInv
<1>4. /\ DOMAIN stateQueue' = DOMAIN stateQueue \cup {Len(stateQueue) + 1}
      /\ \A i \in DOMAIN stateQueue : stateQueue'[i] = stateQueue[i]
      /\ stateQueue'[Len(stateQueue) + 1] = e
  BY <1>1, JoinQueue
<1>5. ASSUME NEW i \in DOMAIN stateQueue', stateQueue'[i] \in Triggers
      PROVE  pc'[stateQueue'[i]] = "waiting"
  <2>1. CASE i \in DOMAIN stateQueue
    BY <1>2, <1>4, <1>5, <2>1 DEF StateLockInv, Waits
  <2>2. CASE i = Len(stateQueue) + 1
    BY <1>4, <1>5, <2>2
  <2> QED
    BY <1>4, <1>5, <2>1, <2>2
<1>6. ASSUME NEW u \in Triggers, pc'[u] = "waiting"
      PROVE  Waits(u, stateQueue')
  <2>1. CASE u = e
    BY <1>4, <2>1 DEF Waits
  <2>2. CASE u # e
    BY <1>4, <1>6, <2>2 DEF StateLockInv, Waits
  <2> QED
    BY <2>1, <2>2
<1> QED
  BY <1>3, <1>5, <1>6 DEF StateLockInv, Distinct, Waits

LEMMA StateLeaves ==
  ASSUME CoreType, LockType, StateLockInv, stateQueue # <<>>,
         stateQueue' = Tail(stateQueue),
         \A u \in Triggers :
           u # Head(stateQueue) => (pc'[u] = "waiting" <=> pc[u] = "waiting"),
         Head(stateQueue) \in Triggers => pc'[Head(stateQueue)] # "waiting"
  PROVE  StateLockInv'
<1> DEFINE callers == Commands \cup Triggers
<1>1. stateQueue \in Seq(callers)
  BY DEF LockType
<1> HIDE DEF callers
<1>2. Distinct(stateQueue')
        /\ (Head(stateQueue) \in Triggers => ~Waits(Head(stateQueue), stateQueue'))
  BY <1>1, DistinctLeaves DEF StateLockInv
<1>3. /\ stateQueue[1] = Head(stateQueue)
      /\ \A i \in DOMAIN stateQueue' :
           i + 1 \in DOMAIN stateQueue /\ stateQueue'[i] = stateQueue[i + 1]
      /\ \A i \in DOMAIN stateQueue :
           i # 1 => i - 1 \in DOMAIN stateQueue'
                      /\ stateQueue'[i - 1] = stateQueue[i]
  BY <1>1, LeaveQueue
<1>4. ASSUME NEW i \in DOMAIN stateQueue', stateQueue'[i] \in Triggers
      PROVE  pc'[stateQueue'[i]] = "waiting"
  <2>1. stateQueue'[i] # Head(stateQueue)
    BY <1>2, <1>4 DEF Waits
  <2>2. pc[stateQueue'[i]] = "waiting"
    BY <1>3, <1>4 DEF StateLockInv
  <2> QED
    BY <1>4, <2>1, <2>2
<1>5. ASSUME NEW u \in Triggers, pc'[u] = "waiting"
      PROVE  Waits(u, stateQueue')
  <2>1. u # Head(stateQueue) /\ pc[u] = "waiting"
    BY <1>5
  <2>2. PICK i \in DOMAIN stateQueue : stateQueue[i] = u
    BY <2>1 DEF StateLockInv, Waits
  <2> QED
    BY <1>3, <2>1, <2>2 DEF Waits
<1> QED
  BY <1>2, <1>4, <1>5 DEF StateLockInv, Distinct, Waits

(* The commands. *)
LEMMA CommandLocks ==
  ASSUME CoreType, LockType, LockInv, Commanding
  PROVE  LockInv'
<1>1. UNCHANGED <<triggerQueue, pc>>
  BY DEF Commanding, CallCommand, GrantCommand, CommandWritten
<1>2. TriggerLockInv'
  BY <1>1, HolderStays DEF LockInv
<1>3. CASE UNCHANGED stateQueue
  BY <1>1, <1>2, <1>3, StateStays DEF LockInv
<1>4. ASSUME NEW c \in Commands, stateQueue' = Append(stateQueue, c)
      PROVE  LockInv'
  <2>1. c \notin Triggers
    BY TriggersAreNotCommands
  <2> QED
    BY <1>1, <1>2, <1>4, <2>1, StateJoins DEF LockInv
<1>5. CASE GrantCommand
  <2>1. /\ stateQueue # <<>> /\ Head(stateQueue) \notin Triggers
        /\ stateQueue' = Tail(stateQueue)
    BY <1>5, TriggersAreNotCommands DEF GrantCommand
  <2> QED
    BY <1>1, <1>2, <2>1, StateLeaves DEF LockInv
<1> QED
  BY <1>3, <1>4, <1>5 DEF Commanding, CallCommand, CommandWritten

(* The calls. *)
LEMMA TriggerLocks ==
  ASSUME CoreType, LockType, LockInv, NEW t \in Triggers, Entering(t)
  PROVE  LockInv'
<1> USE DEF LockInv, Goto
<1>1. CASE CallTrigger(t)
  <2>1. /\ pc[t] = "idle" /\ pc' = [pc EXCEPT ![t] = "queued"]
        /\ triggerQueue' = Append(triggerQueue, t)
        /\ triggerQueue \in Seq(Triggers) /\ UNCHANGED stateQueue
    BY <1>1 DEF CallTrigger, LockType
  <2>2. ~Waits(t, triggerQueue)
    BY <2>1 DEF TriggerLockInv, Waits
  <2>3. Distinct(triggerQueue')
    BY <2>1, <2>2, DistinctJoins DEF TriggerLockInv
  <2>4. /\ DOMAIN triggerQueue' = DOMAIN triggerQueue \cup {Len(triggerQueue) + 1}
        /\ \A i \in DOMAIN triggerQueue : triggerQueue'[i] = triggerQueue[i]
        /\ triggerQueue'[Len(triggerQueue) + 1] = t
    BY <2>1, JoinQueue
  <2>5. ASSUME NEW i \in DOMAIN triggerQueue'
        PROVE  pc'[triggerQueue'[i]] \in IF i = 1
                 THEN {"queued", "waiting", "logging"} ELSE {"queued"}
    <3>1. CASE i \in DOMAIN triggerQueue
      <4>1. /\ triggerQueue'[i] = triggerQueue[i] /\ triggerQueue[i] # t
            /\ triggerQueue[i] \in Triggers
        BY <2>1, <2>2, <2>4, <3>1 DEF Waits
      <4> QED
        BY <2>1, <3>1, <4>1 DEF TriggerLockInv, CoreType
    <3>2. CASE i = Len(triggerQueue) + 1
      BY <2>1, <2>4, <3>2 DEF CoreType
    <3> QED
      BY <2>4, <2>5, <3>1, <3>2
  <2>6. ASSUME NEW u \in Triggers, pc'[u] = "queued"
        PROVE  Waits(u, triggerQueue')
    BY <2>1, <2>4, <2>6 DEF TriggerLockInv, Waits, CoreType
  <2>7. TriggerLockInv'
    BY <2>3, <2>5, <2>6 DEF TriggerLockInv, Distinct, Waits
  <2>8. StateLockInv'
    BY <2>1, StateStays DEF CoreType
  <2> QED
    BY <2>7, <2>8
<1>2. CASE Refuse(t) \/ StartClosing(t)
  <2>1. /\ pc[t] \in {"queued", "logging"} /\ HoldsTriggerLock(t)
        /\ triggerQueue' = Tail(triggerQueue) /\ UNCHANGED stateQueue
    BY <1>2 DEF Refuse, StartClosing, LockType, HoldersLead
  <2>2. PICK place \in {"idle", "closing"} : pc' = [pc EXCEPT ![t] = place]
    BY <1>2 DEF Refuse, StartClosing
  <2>3. TriggerLockInv'
    BY <2>1, <2>2, HolderLeaves
  <2>4. StateLockInv'
    BY <2>1, <2>2, StateStays DEF CoreType
  <2> QED
    BY <2>3, <2>4
<1>3. CASE PassChecks(t)
  <2>1. /\ pc[t] = "queued" /\ HoldsTriggerLock(t) /\ UNCHANGED triggerQueue
        /\ \/ pc' = [pc EXCEPT ![t] = "logging"] /\ UNCHANGED stateQueue
           \/ /\ pc' = [pc EXCEPT ![t] = "waiting"]
              /\ stateQueue' = Append(stateQueue, t)
    BY <1>3 DEF PassChecks, SetTriggered
  <2>2. TriggerLockInv'
    BY <2>1, HolderStays DEF CoreType
  <2>3. CASE pc' = [pc EXCEPT ![t] = "logging"] /\ UNCHANGED stateQueue
    <3>1. StateLockInv'
      BY <2>1, <2>3, StateStays DEF CoreType
    <3> QED
      BY <2>2, <3>1
  <2>4. CASE /\ pc' = [pc EXCEPT ![t] = "waiting"]
             /\ stateQueue' = Append(stateQueue, t)
    <3>1. StateLockInv'
      BY <2>1, <2>4, StateJoins DEF CoreType
    <3> QED
      BY <2>2, <3>1
  <2> QED
    BY <2>1, <2>3, <2>4
<1>4. CASE GrantTrigger(t)
  <2>1. /\ pc[t] = "waiting" /\ HoldsTriggerLock(t)
        /\ stateQueue # <<>> /\ Head(stateQueue) = t
        /\ stateQueue' = Tail(stateQueue)
        /\ \/ /\ pc' = [pc EXCEPT ![t] = "idle"]
              /\ triggerQueue' = Tail(triggerQueue)
           \/ pc' = [pc EXCEPT ![t] = "logging"] /\ UNCHANGED triggerQueue
    BY <1>4 DEF GrantTrigger, SetTriggered, LockType, HoldersLead
  <2>2. StateLockInv'
    BY <2>1, StateLeaves DEF CoreType
  <2>3. TriggerLockInv'
    <3>1. CASE /\ pc' = [pc EXCEPT ![t] = "idle"]
               /\ triggerQueue' = Tail(triggerQueue)
      BY <2>1, <3>1, HolderLeaves
    <3>2. CASE pc' = [pc EXCEPT ![t] = "logging"] /\ UNCHANGED triggerQueue
      BY <2>1, <3>2, HolderStays DEF CoreType
    <3> QED
      BY <2>1, <3>1, <3>2
  <2> QED
    BY <2>2, <2>3
<1> QED
  BY <1>1, <1>2, <1>3, <1>4 DEF Entering

(* Closing touches no lock. *)
LEMMA OtherLocks ==
  ASSUME CoreType, LockType, LockInv, UNCHANGED <<triggerQueue, stateQueue>>,
         \/ UNCHANGED pc
         \/ \E t \in Triggers : \E place \in Closing \cup {"idle"} :
              pc[t] \in Closing /\ pc' = [pc EXCEPT ![t] = place]
  PROVE  LockInv'
<1>1. \A u \in Triggers :
        \/ pc'[u] = pc[u]
        \/ /\ pc[u] \notin {"queued", "waiting", "logging"}
           /\ pc'[u] \notin {"queued", "waiting", "logging"}
  BY DEF CoreType, Closing
<1>2. TriggerLockInv'
  BY <1>1, HolderStays DEF LockInv
<1>3. StateLockInv'
  BY <1>1, StateStays DEF LockInv
<1> QED
  BY <1>2, <1>3 DEF LockInv

LEMMA LockStep ==
  ASSUME CoreType, LockType, LockInv, [Next]_vars
  PROVE  LockInv'
<1>1. ASSUME NEW t \in Triggers, Entering(t) PROVE LockInv'
  BY <1>1, TriggerLocks
<1>2. ASSUME NEW t \in Triggers, Working(t) PROVE LockInv'
  BY <1>2, WorkPlaces, OtherLocks DEF switchVars
<1>3. CASE (\E p \in Positions : Outside(p)) \/ Tick \/ UNCHANGED vars
  BY <1>3, OtherLocks
  DEF Outside, ExecuteOrder, EngineOpens, ClosedElsewhere, HandlePositionUpdate,
      Tick, vars, switchVars
<1> QED
  BY <1>1, <1>2, <1>3, CommandLocks, NextSteps

(* Nobody waits for a lock that is not going to be handed on: what stays   *)
(* model-checked of the calls' return is only that those who can go on do. *)
THEOREM LocksHandedOn == Spec => []LocksMoveOn
<1> USE DEF Types
<1>1. Init => LockInv
  BY DEF Init, LockInv, TriggerLockInv, StateLockInv, Distinct
<1>2. CoreType /\ LockType /\ LockInv /\ [Next]_vars => LockInv'
  BY LockStep
<1>3. CoreType /\ LockType /\ LockInv => LocksMoveOn
  <2> SUFFICES ASSUME CoreType, LockType, LockInv PROVE LocksMoveOn
    OBVIOUS
  <2>1. ASSUME triggerQueue # <<>>
        PROVE  pc[Head(triggerQueue)] \in {"queued", "waiting", "logging"}
    <3>1. 1 \in DOMAIN triggerQueue /\ triggerQueue[1] = Head(triggerQueue)
      BY <2>1 DEF LockType
    <3> QED
      BY <3>1 DEF LockInv, TriggerLockInv
  <2>2. ASSUME stateQueue # <<>>, Head(stateQueue) \notin Commands
        PROVE  pc[Head(stateQueue)] = "waiting"
    <3>1. /\ 1 \in DOMAIN stateQueue /\ stateQueue[1] = Head(stateQueue)
          /\ stateQueue[1] \in Commands \cup Triggers
      BY <2>2 DEF LockType
    <3> QED
      BY <2>2, <3>1 DEF LockInv, StateLockInv
  <2> QED
    BY <2>1, <2>2
       DEF LocksMoveOn, LockInv, TriggerLockInv, StateLockInv, LockType,
           HoldersLead
<1> QED
  BY <1>1, <1>2, <1>3, TypesHold, PTL DEF Spec

-----------------------------------------------------------------------------
(***************************************************************************)
(* The refinement of Liquidation, from the invariant about the positions.  *)
(***************************************************************************)

(* What the specification of the liquidation sees of the executor. *)
Switch == IF Liquidating THEN "liquidating" ELSE state
Owed == IF Liquidating THEN todo[triggeredBy] ELSE {}
Reported == IF Liquidating THEN failed ELSE {}

LEMMA TriggererCalls ==
  ASSUME Inv, AlreadyTriggered
  PROVE  triggeredBy \in Triggers
BY DEF Inv, NoPositionEscapes, AlreadyTriggered

(* A step that leaves the lists alone, and moves nobody from or to the     *)
(* metrics write, keeps what is owed and reported.                         *)
LEMMA ListsKept ==
  ASSUME Inv, UNCHANGED <<state, triggeredBy, todo, failed>>,
         \A u \in Triggers : pc'[u] = "logging" <=> pc[u] = "logging"
  PROVE  UNCHANGED <<Switch, Owed, Reported>>
<1>1. Liquidating' <=> Liquidating
  BY TriggererCalls DEF Liquidating, AlreadyTriggered
<1> QED
  BY <1>1 DEF Switch, Owed, Reported

LEMMA CommandRefines ==
  ASSUME Types, Inv, Commanding \/ Tick \/ UNCHANGED vars
  PROVE  [L!Next]_(L!vars)
<1>1. /\ UNCHANGED <<triggeredBy, pc, todo, failed, tracked, market, working>>
      /\ state' = state \/ state' \in {"armed", "disabled"}
  BY CoreStays DEF Types, Commanding, CallCommand, GrantCommand, CommandWritten,
                   Tick, vars, closeVars, marketVars
<1>2. CASE state' = state
  <2>1. UNCHANGED <<Switch, Owed, Reported>>
    BY <1>1, <1>2, ListsKept
  <2> QED
    BY <1>1, <2>1 DEF L!vars, Switch, Owed, Reported
<1>3. CASE state' \in {"armed", "disabled"}
  <2>1. ~Liquidating'
    BY <1>3 DEF Liquidating, AlreadyTriggered
  <2>2. L!Command
    BY <1>1, <1>3, <2>1 DEF L!Command
  <2> QED
    BY <2>2 DEF L!Next
<1> QED
  BY <1>1, <1>2, <1>3

(* Up to the metrics write a call is in, the switch is as it was, or it is *)
(* the trigger.                                                            *)
LEMMA TriggerRefines ==
  ASSUME Types, Inv, NEW t \in Triggers,
         CallTrigger(t) \/ Refuse(t) \/ PassChecks(t) \/ GrantTrigger(t)
  PROVE  [L!Next]_(L!vars)
<1> USE DEF closeVars, marketVars, Goto
<1>1. UNCHANGED <<todo, failed, tracked, market, working>>
  BY DEF CallTrigger, Refuse, PassChecks, GrantTrigger
<1>2. CASE /\ UNCHANGED <<state, triggeredBy>>
           /\ pc[t] # "logging"
           /\ \E place \in {"idle", "queued", "waiting"} :
                pc' = [pc EXCEPT ![t] = place]
  <2>1. \A u \in Triggers : pc'[u] = "logging" <=> pc[u] = "logging"
    BY <1>2 DEF Types, CoreType
  <2>2. UNCHANGED <<Switch, Owed, Reported>>
    BY <1>1, <1>2, <2>1, ListsKept
  <2> QED
    BY <1>1, <2>2 DEF L!vars, Switch, Owed, Reported
<1>3. CASE SetTriggered(t) /\ ~AlreadyTriggered
  <2>1. /\ state' = "triggered" /\ state \in {"armed", "disabled"}
        /\ ~Liquidating /\ ~Liquidating'
    BY <1>3 DEF SetTriggered, AlreadyTriggered, Liquidating, Types, CoreType
  <2>2. L!Trigger
    BY <1>1, <2>1 DEF L!Trigger
  <2> QED
    BY <2>2 DEF L!Next
<1> QED
  BY <1>2, <1>3 DEF CallTrigger, Refuse, PassChecks, GrantTrigger, SetTriggered

(* The list is taken: what is open in the books is owed from now on.       *)
LEMMA StartRefines ==
  ASSUME Types, Inv, NEW t \in Triggers, StartClosing(t)
  PROVE  [L!Next]_(L!vars)
<1>1. /\ triggeredBy = t /\ pc[t] = "logging" /\ pc'[t] = "closing"
      /\ todo'[t] = OpenPositions /\ failed' = {}
      /\ UNCHANGED <<state, triggeredBy, tracked, market, working>>
  BY ListTaken DEF Types, CoreType, marketVars
<1>2. CASE AlreadyTriggered
  <2>1. /\ ~Liquidating /\ Liquidating' /\ state = "triggered"
    BY <1>1, <1>2 DEF Liquidating, AlreadyTriggered
  <2>2. L!List
    BY <1>1, <2>1 DEF L!List, OpenPositions
  <2> QED
    BY <2>2 DEF L!Next
<1>3. CASE ~AlreadyTriggered
  <2>1. ~Liquidating /\ ~Liquidating'
    BY <1>1, <1>3 DEF Liquidating, AlreadyTriggered
  <2> QED
    BY <1>1, <2>1 DEF L!vars
<1> QED
  BY <1>2, <1>3

(* A step of a call that is working on its list lists nothing.             *)
LEMMA WorkKeeps ==
  ASSUME Types, Inv, NEW t \in Triggers, Working(t), UNCHANGED <<todo, failed>>
  PROVE  UNCHANGED <<Switch, Owed, Reported>>
BY WorkPlaces, ListsKept DEF Types, switchVars

LEMMA TryRefines ==
  ASSUME Types, Inv, NEW t \in Triggers, Working(t),
         \/ Complete(t) \/ OrderFails(t) \/ SendAgain(t)
         \/ \E p \in Positions : SendFirst(t, p)
  PROVE  [L!Next]_(L!vars)
<1>1. UNCHANGED <<todo, failed, tracked, market, working>>
  BY DEF Complete, SendFirst, OrderFails, SendAgain, closeVars, marketVars
<1> QED
  BY <1>1, WorkKeeps DEF L!vars, Switch, Owed, Reported

LEMMA AcceptRefines ==
  ASSUME Types, Inv, NEW t \in Triggers, Working(t), OrderAccepted(t)
  PROVE  L!Next
<1>1. /\ current[t] \in Positions /\ Held(current[t]) /\ pc[t] = "sent"
      /\ working' = [working EXCEPT ![current[t]] = @ + 1]
      /\ UNCHANGED <<todo, failed, tracked, market>>
  BY Accepting DEF closeVars
<1>2. tracked[current[t]] # "none"
  BY <1>1, Current DEF InOrder, Closing
<1>3. L!Accept(current[t])
  BY <1>1, <1>2, WorkKeeps DEF L!Accept, L!Held, Held, Switch, Owed, Reported
<1> QED
  BY <1>1, <1>3 DEF L!Next

LEMMA BookRefines ==
  ASSUME Types, Inv, NEW t \in Triggers, Working(t), Book(t)
  PROVE  [L!Next]_(L!vars)
<1>1. /\ pc[t] = "acknowledged"
      /\ UNCHANGED tracked \/ tracked' = [tracked EXCEPT ![current[t]] = "closed"]
      /\ UNCHANGED <<todo, failed, market, working>>
  BY DEF Book, closeVars
<1>2. /\ current[t] \in Positions /\ tracked[current[t]] # "none"
      /\ Ordered(current[t])
  BY <1>1, Current DEF InOrder, Closing, Inv, ProgressInv
<1>3. UNCHANGED <<Switch, Owed, Reported>>
  BY <1>1, WorkKeeps
<1>4. CASE UNCHANGED tracked
  BY <1>1, <1>3, <1>4 DEF L!vars, Switch, Owed, Reported
<1>5. CASE tracked' = [tracked EXCEPT ![current[t]] = "closed"]
  <2>1. L!Book(current[t])
    BY <1>1, <1>2, <1>3, <1>5
    DEF L!Book, L!Ordered, Ordered, Switch, Owed, Reported
  <2> QED
    BY <1>2, <2>1 DEF L!Next
<1> QED
  BY <1>1, <1>4, <1>5

(* A position struck off the list: of the call that triggered, it is       *)
(* settled or reported; of an older one, nobody owes it.                   *)
LEMMA StrikeRefines ==
  ASSUME Types, Inv, NEW t \in Triggers, Working(t),
         NEW p \in Positions, p \in todo[t],
         UNCHANGED marketVars, pc[t] # "logging", pc'[t] # "logging",
         todo' = [todo EXCEPT ![t] = @ \ {p}],
         \/ ReportFailed(t, p)
         \/ Ordered(p) /\ UNCHANGED failed
  PROVE  [L!Next]_(L!vars)
<1>1. UNCHANGED <<state, triggeredBy, tracked, market, working>>
  BY WorkPlaces DEF Types, switchVars, marketVars
<1>2. Liquidating' <=> Liquidating
  <2>1. \A u \in Triggers : pc'[u] = "logging" <=> pc[u] = "logging"
    BY WorkPlaces DEF Types
  <2> QED
    BY <1>1, <2>1, TriggererCalls DEF Liquidating, AlreadyTriggered
<1>3. CASE Liquidating /\ triggeredBy = t
  <2>1. Switch = "liquidating" /\ p \in Owed /\ Owed' = Owed \ {p}
    BY <1>1, <1>2, <1>3 DEF Switch, Owed, Types, CoreType
  <2>2. CASE ReportFailed(t, p)
    <3>1. L!Report(p)
      BY <1>1, <1>2, <1>3, <2>1, <2>2
      DEF L!Report, ReportFailed, Switch, Owed, Reported
    <3> QED
      BY <3>1 DEF L!Next
  <2>3. CASE Ordered(p) /\ UNCHANGED failed
    <3>1. L!Settle(p)
      BY <1>1, <1>2, <1>3, <2>1, <2>3
      DEF L!Settle, L!Ordered, Ordered, Switch, Owed, Reported
    <3> QED
      BY <3>1 DEF L!Next
  <2> QED
    BY <2>2, <2>3
<1>4. CASE Liquidating /\ triggeredBy # t
  <2>1. triggeredBy \in Triggers
    BY <1>4, TriggererCalls DEF Liquidating
  <2>2. todo'[triggeredBy] = todo[triggeredBy] /\ UNCHANGED failed
    BY <1>1, <1>4, <2>1 DEF ReportFailed, Types, CoreType
  <2> QED
    BY <1>1, <1>2, <2>2 DEF L!vars
<1>5. CASE ~Liquidating
  BY <1>1, <1>2, <1>5 DEF L!vars
<1> QED
  BY <1>3, <1>4, <1>5

LEMMA UnsentRefines ==
  ASSUME Types, Inv, NEW t \in Triggers, Working(t),
         NEW p \in Positions, Unsent(t, p)
  PROVE  [L!Next]_(L!vars)
<1>1. /\ p \in todo[t] /\ pc[t] = "closing" /\ pc' = pc
      /\ UNCHANGED marketVars /\ todo' = [todo EXCEPT ![t] = @ \ {p}]
      /\ ReportFailed(t, p)
  BY DEF Unsent, RefusedByBreaker, NotSent, ReportUnsent
<1> QED
  BY <1>1, StrikeRefines

LEMMA DoneRefines ==
  ASSUME Types, Inv, NEW t \in Triggers, Working(t),
         CloseSucceeds(t) \/ CloseGivesUp(t)
  PROVE  [L!Next]_(L!vars)
<1>1. /\ pc[t] \in {"booked", "errored"} /\ pc' = [pc EXCEPT ![t] = "closing"]
      /\ UNCHANGED marketVars
      /\ todo' = [todo EXCEPT ![t] = @ \ {current[t]}]
      /\ \/ ReportFailed(t, current[t])
         \/ pc[t] = "booked" /\ UNCHANGED failed
  BY DEF CloseSucceeds, CloseGivesUp, NextPosition, Goto
<1>2. current[t] \in Positions /\ current[t] \in todo[t]
  BY <1>1, Current DEF InOrder, Closing
<1>3. pc[t] = "booked" => Ordered(current[t])
  BY DEF Inv, ProgressInv
<1>4. pc[t] # "logging" /\ pc'[t] # "logging"
  BY <1>1 DEF Types, CoreType
<1> QED
  BY <1>1, <1>2, <1>3, <1>4, StrikeRefines

LEMMA OutsideRefines ==
  ASSUME Types, Inv, NEW p \in Positions, Outside(p)
  PROVE  [L!Next]_(L!vars)
<1> USE DEF Types, MarketType
<1>1. UNCHANGED <<state, triggeredBy, pc, todo, failed>>
  BY DEF Outside, ExecuteOrder, EngineOpens, ClosedElsewhere,
         HandlePositionUpdate, switchVars, closeVars
<1>2. UNCHANGED <<Switch, Owed, Reported>>
  BY <1>1, ListsKept
<1> USE DEF Switch, Owed, Reported
<1>3. CASE ExecuteOrder(p)
  <2>1. /\ working[p] > 0 /\ working' = [working EXCEPT ![p] = @ - 1]
        /\ UNCHANGED tracked
        /\ \/ Held(p) /\ \E holding \in {"rest", "closed"} :
                market' = [market EXCEPT ![p] = holding]
           \/ market[p] = "closed" /\ UNCHANGED market
    BY <1>3, Executing
  <2>2. L!Execute(p)
    BY <1>2, <2>1 DEF L!Execute, L!Held, Held
  <2> QED
    BY <2>2 DEF L!Next
<1>4. CASE EngineOpens(p)
  <2>1. L!Open(p)
    BY <1>2, <1>4 DEF EngineOpens, L!Open
  <2> QED
    BY <2>1 DEF L!Next
<1>5. CASE ClosedElsewhere(p)
  <2>1. L!Close(p)
    BY <1>2, <1>5 DEF ClosedElsewhere, L!Close, L!Held, Held
  <2> QED
    BY <2>1 DEF L!Next
<1>6. CASE HandlePositionUpdate(p)
  <2>1. L!Update(p)
    BY <1>2, <1>6 DEF HandlePositionUpdate, Reportable, L!Update
  <2> QED
    BY <2>1 DEF L!Next
<1> QED
  BY <1>3, <1>4, <1>5, <1>6 DEF Outside

LEMMA LiquidationStep ==
  ASSUME Types, Inv, [Next]_vars
  PROVE  [L!Next]_(L!vars)
<1>1. ASSUME NEW t \in Triggers, Entering(t) PROVE [L!Next]_(L!vars)
  BY <1>1, TriggerRefines, StartRefines DEF Entering
<1>2. ASSUME NEW t \in Triggers, Working(t) PROVE [L!Next]_(L!vars)
  <2>1. ASSUME NEW p \in Positions, Unsent(t, p) PROVE [L!Next]_(L!vars)
    BY <1>2, <2>1, UnsentRefines
  <2> QED
    BY <1>2, <2>1, TryRefines, AcceptRefines, BookRefines, DoneRefines DEF Working
<1> QED
  BY <1>1, <1>2, CommandRefines, OutsideRefines, NextSteps

(* The executor implements the liquidation: for every interleaving of any  *)
(* number of calls, commands, acknowledged and executed orders, late       *)
(* updates, lost answers and breaker decisions.                            *)
THEOREM ImplementsLiquidation == Spec => Liquidates
<1>1. Init => L!Init
  BY DEF Init, L!Init, Liquidating, AlreadyTriggered
<1>2. Types /\ Inv /\ [Next]_vars => [L!Next]_(L!vars)
  BY LiquidationStep
<1> QED
  BY <1>1, <1>2, Invariance, PTL DEF Spec, Liquidates, L!Spec

-----------------------------------------------------------------------------
(***************************************************************************)
(* The exchange breaker between these calls.  RetryBreakerProofs is about  *)
(* tasks that do nothing else; here its operations are steps of the        *)
(* executor, and every admitted order reports, as no call is cancelled.    *)
(***************************************************************************)

(* No counter rests at its threshold. *)
Counters ==
  /\ breakerState = "closed" => failureCount < FailureThreshold
  /\ successCount < SuccessThreshold

(* What a breaker operation is to the abstract breaker, whoever calls it.  *)
LEMMA BreakerOperation ==
  ASSUME BreakerTypeOK, Counters,
         CanExecute \/ RecordSuccess \/ RecordFailure \/ BreakerTick
           \/ UNCHANGED breakerVars
  PROVE  Counters' /\ [B!Next]_(B!vars)
<1> USE RetryBreakerAssumption
    DEF RetryBreakerAssumption, BreakerTypeOK, Counters
<1>1. CASE CanExecute
  <2>1. Counters'
    BY <1>1 DEF CanExecute, RecoveryDue, breakerVars
  <2>2. B!FirstProbe \/ B!Probe \/ UNCHANGED B!vars
    BY <1>1 DEF CanExecute, RecoveryDue, ProbeAllowed, breakerVars,
                B!FirstProbe, B!Probe, B!Enter, B!vars
  <2> QED
    BY <2>1, <2>2 DEF B!Next
<1>2. CASE RecordSuccess
  <2>1. Counters'
    BY <1>2 DEF RecordSuccess, Recovered
  <2>2. B!Close \/ B!Succeed \/ B!ForgetFailures \/ UNCHANGED B!vars
    BY <1>2 DEF RecordSuccess, Recovered, B!Close, B!Succeed,
                B!ForgetFailures, B!Enter, B!vars
  <2> QED
    BY <2>1, <2>2 DEF B!Next
<1>3. CASE RecordFailure
  <2>1. Counters'
    BY <1>3 DEF RecordFailure
  <2>2. B!Open \/ B!CountFailure \/ B!WaitAnew
    BY <1>3 DEF RecordFailure, B!Open, B!CountFailure, B!WaitAnew, B!Enter
  <2> QED
    BY <2>1, <2>2 DEF B!Next
<1>4. CASE BreakerTick \/ UNCHANGED breakerVars
  <2>1. Counters'
    BY <1>4 DEF BreakerTick, breakerVars
  <2>2. B!Wait \/ UNCHANGED B!vars
    BY <1>4 DEF BreakerTick, breakerVars, B!Wait, B!vars
  <2> QED
    BY <2>1, <2>2 DEF B!Next
<1> QED
  BY <1>1, <1>2, <1>3, <1>4

LEMMA CountersHold == Spec => [](BreakerTypeOK /\ Counters)
<1>1. Init => Counters
  BY RetryBreakerAssumption
  DEF RetryBreakerAssumption, Init, BreakerInit, Counters
<1>2. BreakerTypeOK /\ Counters /\ [Next]_vars => Counters'
  BY OneOperation, BreakerOperation
<1> QED
  BY <1>1, <1>2, TypesHold, PTL DEF Spec, Types

(* The breaker that overlapping calls share while they close positions     *)
(* behaves as Breaker says, its recovery included: every step of the       *)
(* executor is a step of it or a stutter.                                  *)
THEOREM ImplementsBreaker == Spec => BreakerKept
<1>1. Init => B!Init
  BY DEF Init, BreakerInit, B!Init
<1>2. BreakerTypeOK /\ Counters /\ [Next]_vars => [B!Next]_(B!vars)
  BY OneOperation, BreakerOperation
<1> QED
  BY <1>1, <1>2, CountersHold, PTL DEF Spec, BreakerKept, B!Spec

-----------------------------------------------------------------------------
(* Calls with an order under way; and whatever a HALF_OPEN breaker has     *)
(* admitted is one of them or has succeeded.  Orders admitted before it    *)
(* opened count as well: their successes do.                               *)
UnderWay == {t \in Triggers : pc[t] \in InOrder}

AdmittedReport ==
  /\ IsFiniteSet(UnderWay)
  /\ breakerState = "half_open" =>
       halfOpenCalls + 1 <= successCount + Cardinality(UnderWay)

(* The other steps move no call into an order or out of it. *)
LEMMA OrdersStay ==
  ASSUME CoreType, [Next]_vars,
         ~\E t \in Triggers :
            \/ \E p \in Positions : SendFirst(t, p)
            \/ CloseSucceeds(t) \/ CloseGivesUp(t)
  PROVE  /\ UnderWay' = UnderWay
         /\ BreakerTick \/ UNCHANGED breakerVars
<1> USE DEF CoreType, UnderWay, InOrder, Closing, Places
<1>1. ASSUME NEW t \in Triggers, Entering(t)
      PROVE  UnderWay' = UnderWay /\ UNCHANGED breakerVars
  <2>1. CASE CallTrigger(t) \/ Refuse(t) \/ PassChecks(t)
    BY <2>1 DEF CallTrigger, Refuse, PassChecks, SetTriggered, Goto
  <2>2. CASE GrantTrigger(t) \/ StartClosing(t)
    BY <2>2 DEF GrantTrigger, SetTriggered, StartClosing, Goto
  <2> QED
    BY <1>1, <2>1, <2>2 DEF Entering
<1>2. ASSUME NEW t \in Triggers, Working(t)
      PROVE  UnderWay' = UnderWay /\ UNCHANGED breakerVars
  <2>1. CASE Complete(t)
    BY <2>1 DEF Complete, Goto
  <2>2. CASE \E p \in Positions : Unsent(t, p)
    BY <2>2 DEF Unsent, RefusedByBreaker, CannotExecute, NotSent, ReportUnsent
  <2>3. CASE OrderAccepted(t) \/ OrderFails(t)
    BY <2>3 DEF OrderAccepted, OrderFails, Goto
  <2>4. CASE SendAgain(t) \/ Book(t)
    BY <2>4 DEF SendAgain, Book, Goto
  <2> QED
    BY <1>2, <2>1, <2>2, <2>3, <2>4 DEF Working
<1>3. CASE Commanding \/ \E p \in Positions : Outside(p)
  BY <1>3 DEF Commanding, CallCommand, GrantCommand, CommandWritten, Outside,
              ExecuteOrder, EngineOpens, ClosedElsewhere, HandlePositionUpdate
<1>4. CASE Tick \/ UNCHANGED vars
  BY <1>4 DEF Tick, vars
<1> QED
  BY <1>1, <1>2, <1>3, <1>4, NextSteps

LEMMA AdmittedStep ==
  ASSUME CoreType, BreakerTypeOK, Counters, AdmittedReport, [Next]_vars
  PROVE  AdmittedReport'
<1> USE RetryBreakerAssumption
    DEF RetryBreakerAssumption, BreakerTypeOK, AdmittedReport
<1>0. Cardinality(UnderWay) \in Nat
  BY FS_CardinalityType
<1>1. ASSUME NEW t \in Triggers, NEW p \in Positions, SendFirst(t, p)
      PROVE  AdmittedReport'
  <2>1. t \notin UnderWay /\ UnderWay' = UnderWay \cup {t}
    BY <1>1 DEF SendFirst, Goto, UnderWay, InOrder, Closing, CoreType
  <2>2. /\ IsFiniteSet(UnderWay')
        /\ Cardinality(UnderWay') = Cardinality(UnderWay) + 1
    BY <2>1, FS_AddElement
  <2>3. /\ UNCHANGED successCount
        /\ breakerState' = "half_open" =>
             \/ halfOpenCalls' = 0
             \/ breakerState = "half_open" /\ halfOpenCalls' = halfOpenCalls + 1
    BY <1>1 DEF SendFirst, CanExecute, RecoveryDue, ProbeAllowed, breakerVars
  <2> QED
    BY <1>0, <2>2, <2>3
<1>2. ASSUME NEW t \in Triggers, CloseSucceeds(t) \/ CloseGivesUp(t)
      PROVE  AdmittedReport'
  <2>1. t \in UnderWay /\ UnderWay' = UnderWay \ {t}
    BY <1>2 DEF CloseSucceeds, CloseGivesUp, NextPosition, Goto, UnderWay,
                InOrder, Closing, CoreType
  <2>2. /\ IsFiniteSet(UnderWay')
        /\ Cardinality(UnderWay') = Cardinality(UnderWay) - 1
    BY <2>1, FS_RemoveElement
  <2>3. breakerState' = "half_open" =>
          /\ breakerState = "half_open" /\ UNCHANGED halfOpenCalls
          /\ successCount' = successCount + 1
    BY <1>2 DEF CloseSucceeds, CloseGivesUp, RecordSuccess, RecordFailure,
                Recovered
  <2> QED
    BY <1>0, <2>2, <2>3
<1>3. CASE ~\E t \in Triggers :
             \/ \E p \in Positions : SendFirst(t, p)
             \/ CloseSucceeds(t) \/ CloseGivesUp(t)
  <2>1. UnderWay' = UnderWay /\ (BreakerTick \/ UNCHANGED breakerVars)
    BY <1>3, OrdersStay
  <2> QED
    BY <2>1 DEF BreakerTick, breakerVars
<1> QED
  BY <1>1, <1>2, <1>3

(* The exchange breaker never blocks the emergency stop for good: out of   *)
(* slots, it waits for an order that is under way.                         *)
THEOREM RefusalsEnd == Spec => []RefusesOnlyMeanwhile
<1>1. Init => AdmittedReport
  <2> SUFFICES ASSUME Init PROVE AdmittedReport
    OBVIOUS
  <2>1. UnderWay = {}
    BY DEF Init, UnderWay, InOrder, Closing
  <2> QED
    BY <2>1, FS_EmptySet DEF Init, BreakerInit, AdmittedReport
<1>2. BreakerTypeOK /\ Counters /\ AdmittedReport => RefusesOnlyMeanwhile
  <2> SUFFICES ASSUME BreakerTypeOK, Counters, AdmittedReport,
                      breakerState = "half_open", ~ProbeAllowed, UnderWay = {}
               PROVE  FALSE
    BY DEF RefusesOnlyMeanwhile, UnderWay, InOrder
  <2>1. Cardinality(UnderWay) = 0
    BY FS_EmptySet
  <2> QED
    BY <2>1, RetryBreakerAssumption
    DEF RetryBreakerAssumption, BreakerTypeOK, Counters, AdmittedReport,
        ProbeAllowed
<1>3. CoreType /\ BreakerTypeOK /\ Counters /\ AdmittedReport /\ [Next]_vars
        => AdmittedReport'
  BY AdmittedStep
<1> QED
  BY <1>1, <1>2, <1>3, CountersHold, TypesHold, PTL DEF Spec, Types

=============================================================================
