----------------------------- MODULE KillSwitch -----------------------------
(***************************************************************************)
(* The emergency stop of src/execution/kill_switch/executor.py: asyncio    *)
(* tasks that call execute_kill_switch, operators that call arm, disable   *)
(* and reauthorize, the exchange that accepts the close orders and some    *)
(* time later executes them, and the portfolio tracker, which books a      *)
(* position when its order is acknowledged and otherwise follows the       *)
(* updates it is given.                                                    *)
(*                                                                         *)
(* asyncio runs a task until it awaits something that has to wait, so a    *)
(* step is what happens between two such awaits.  The waits are: the two   *)
(* locks when they are taken (FIFO), the metrics writes made while a lock  *)
(* is held, the exchange's answer, the sleep between two attempts and the  *)
(* tracker's persistence.                                                  *)
(*                                                                         *)
(* Abstractions.  A position has a symbol of its own; of its size only     *)
(* what close orders left of it counts, since an order may be for less     *)
(* (rounded down to the lot, or by an outdated quantity) and a market      *)
(* order may be executed in part.  Sides and prices, the log and the       *)
(* drawdown figures change no step.  A position the tracker does not know  *)
(* and one that is pending there are the same to the executor: not open.   *)
(* The exchange breaker is RetryBreaker; the metrics writes' own retries   *)
(* only make them longer.                                                  *)
(***************************************************************************)
EXTENDS RetryBreaker, Integers, Sequences

CONSTANTS
  Triggers,                \* tasks that call execute_kill_switch
  Positions,               \* positions the portfolio may open, each once
  NoPosition,
  MaxCloseRetries,         \* config.max_close_retries
  RequireReauthorization,  \* config.require_reauthorization
  MaxWaiting,              \* bound on the operators queued on _state_lock
  MaxWorking               \* close orders the exchange keeps per position

ASSUME KillSwitchAssumption ==
  /\ NoPosition \notin Positions
  /\ MaxCloseRetries \in Nat \ {0}
  /\ RequireReauthorization \in BOOLEAN
  /\ MaxWaiting \in Nat
  /\ MaxWorking \in Nat

Commands == {"arm", "disable", "reauthorize"}

ASSUME TriggersAreNotCommands == Triggers \cap Commands = {}

VARIABLES
  state,         \* _state
  triggeredBy,   \* _triggered_by: the call that last set TRIGGERED
  triggerQueue,  \* _trigger_lock: its holder, then those waiting for it
  stateWriter,   \* TRUE while a command writes metrics under _state_lock
  stateQueue,    \* those waiting for _state_lock
  pc,            \* where each trigger call is
  todo,          \* close_all_positions: positions it has not done with
  current,       \* the position it is closing
  attempt,       \* _close_single_position: attempts made so far
  listed,        \* of the last call that set TRIGGERED: the positions it found
  failed,        \* and those that its close_results call FAILED
  tracked,       \* PortfolioTracker: status of each position
  market,        \* the exchange: what it holds of each position
  working        \* the exchange: close orders accepted and not yet executed

switchVars == <<state, triggeredBy, triggerQueue, stateWriter, stateQueue>>
closeVars == <<todo, current, attempt, listed, failed>>
marketVars == <<tracked, market, working>>
vars == <<switchVars, pc, closeVars, marketVars, breakerVars>>

(* Between its await points a trigger call is: waiting for _trigger_lock   *)
(* or holding it before its checks; waiting for _state_lock; writing the   *)
(* TRIGGERED state to the metrics store; and then closing: between two     *)
(* positions, with an order sent, acknowledged or failed, or booked.       *)
Closing == {"closing", "sent", "acknowledged", "errored", "booked"}
Places == {"idle", "queued", "waiting", "logging"} \cup Closing

(* "rest" is what an executed close order left of a position: all of it,   *)
(* when the market did not take the order.                                 *)
Holdings == {"none", "open", "rest", "closed", "reversed"}

TypeOK ==
  /\ BreakerTypeOK
  /\ state \in {"armed", "triggered", "disabled"}
  /\ triggeredBy \in Triggers \cup {"none"}
  /\ triggerQueue \in Seq(Triggers)
  /\ stateWriter \in BOOLEAN
  /\ stateQueue \in Seq(Commands \cup Triggers)
  /\ pc \in [Triggers -> Places]
  /\ todo \in [Triggers -> SUBSET Positions]
  /\ current \in [Triggers -> Positions \cup {NoPosition}]
  /\ \A t \in Triggers :
       current[t] = NoPosition <=> pc[t] \notin Closing \ {"closing"}
  /\ attempt \in [Triggers -> 0..MaxCloseRetries]
  /\ listed \in SUBSET Positions
  /\ failed \in SUBSET Positions
  /\ tracked \in [Positions -> {"none", "open", "closed"}]
  /\ market \in [Positions -> Holdings]
  /\ working \in [Positions -> 0..MaxWorking]

Init ==
  /\ BreakerInit
  /\ state = "armed"
  /\ triggeredBy = "none"
  /\ triggerQueue = <<>>
  /\ stateWriter = FALSE
  /\ stateQueue = <<>>
  /\ pc = [t \in Triggers |-> "idle"]
  /\ todo = [t \in Triggers |-> {}]
  /\ current = [t \in Triggers |-> NoPosition]
  /\ attempt = [t \in Triggers |-> 0]
  /\ listed = {}
  /\ failed = {}
  /\ tracked = [p \in Positions |-> "none"]
  /\ market = [p \in Positions |-> "none"]
  /\ working = [p \in Positions |-> 0]

Goto(t, place) == pc' = [pc EXCEPT ![t] = place]

-----------------------------------------------------------------------------
(* arm, disable and reauthorize.                                           *)

StateLockFree == ~stateWriter /\ stateQueue = <<>>

Accepts(command) ==
  \/ command = "arm" /\ state # "triggered"
  \/ command = "disable" /\ ~(state = "triggered" /\ RequireReauthorization)
  \/ command = "reauthorize" /\ state = "triggered"

(* The body of a command, up to the metrics write it awaits with the lock. *)
Run(command) ==
  \/ /\ Accepts(command)
     /\ state' = IF command = "disable" THEN "disabled" ELSE "armed"
     /\ stateWriter' = TRUE
  \/ /\ ~Accepts(command)
     /\ UNCHANGED <<state, stateWriter>>

CallCommand(command) ==
  /\ \/ /\ StateLockFree
        /\ Run(command)
        /\ UNCHANGED stateQueue
     \/ /\ ~StateLockFree
        /\ Len(stateQueue) < MaxWaiting
        /\ stateQueue' = Append(stateQueue, command)
        /\ UNCHANGED <<state, stateWriter>>
  /\ UNCHANGED <<triggeredBy, triggerQueue, pc, closeVars, marketVars,
                 breakerVars>>

GrantCommand ==
  /\ ~stateWriter
  /\ stateQueue # <<>>
  /\ Head(stateQueue) \in Commands
  /\ Run(Head(stateQueue))
  /\ stateQueue' = Tail(stateQueue)
  /\ UNCHANGED <<triggeredBy, triggerQueue, pc, closeVars, marketVars,
                 breakerVars>>

CommandWritten ==
  /\ stateWriter
  /\ stateWriter' = FALSE
  /\ UNCHANGED <<state, triggeredBy, triggerQueue, stateQueue, pc, closeVars,
                 marketVars, breakerVars>>

-----------------------------------------------------------------------------
(* execute_kill_switch.                                                    *)

CallTrigger(t) ==
  /\ pc[t] = "idle"
  /\ triggerQueue' = Append(triggerQueue, t)
  /\ Goto(t, "queued")
  /\ UNCHANGED <<state, triggeredBy, stateWriter, stateQueue, closeVars,
                 marketVars, breakerVars>>

HoldsTriggerLock(t) == triggerQueue # <<>> /\ Head(triggerQueue) = t

AlreadyTriggered == state = "triggered"

(* Mutant: the early return does not release _trigger_lock. *)
Refuse_KeepsLock(t) ==
  /\ pc[t] = "queued"
  /\ HoldsTriggerLock(t)
  /\ state = "disabled" \/ AlreadyTriggered
  /\ Goto(t, "idle")
  /\ UNCHANGED <<switchVars, closeVars, marketVars, breakerVars>>

(* Returns kill_switch_disabled or already_triggered. *)
Refuse(t) ==
  /\ pc[t] = "queued"
  /\ HoldsTriggerLock(t)
  /\ state = "disabled" \/ AlreadyTriggered
  /\ triggerQueue' = Tail(triggerQueue)
  /\ Goto(t, "idle")
  /\ UNCHANGED <<state, triggeredBy, stateWriter, stateQueue, closeVars,
                 marketVars, breakerVars>>

SetTriggered(t) ==
  /\ state' = "triggered"
  /\ triggeredBy' = t
  /\ Goto(t, "logging")

(* Both checks passed: take _state_lock, at once if nobody has it. *)
PassChecks(t) ==
  /\ pc[t] = "queued"
  /\ HoldsTriggerLock(t)
  /\ state # "disabled" /\ ~AlreadyTriggered
  /\ \/ /\ StateLockFree
        /\ SetTriggered(t)
        /\ UNCHANGED stateQueue
     \/ /\ ~StateLockFree
        /\ stateQueue' = Append(stateQueue, t)
        /\ Goto(t, "waiting")
        /\ UNCHANGED <<state, triggeredBy>>
  /\ UNCHANGED <<triggerQueue, stateWriter, closeVars, marketVars, breakerVars>>

(* Given _state_lock after a wait, it checks again, but only for TRIGGERED. *)
GrantTrigger(t) ==
  /\ pc[t] = "waiting"
  /\ ~stateWriter
  /\ stateQueue # <<>>
  /\ Head(stateQueue) = t
  /\ stateQueue' = Tail(stateQueue)
  /\ IF AlreadyTriggered
       THEN /\ triggerQueue' = Tail(triggerQueue)
            /\ Goto(t, "idle")
            /\ UNCHANGED <<state, triggeredBy>>
       ELSE /\ SetTriggered(t)
            /\ UNCHANGED triggerQueue
  /\ UNCHANGED <<stateWriter, closeVars, marketVars, breakerVars>>

OpenPositions == {p \in Positions : tracked[p] = "open"}

(* The state is written, _trigger_lock released, the positions listed. *)
StartClosing(t) ==
  /\ pc[t] = "logging"
  /\ triggerQueue' = Tail(triggerQueue)
  /\ todo' = [todo EXCEPT ![t] = OpenPositions]
  /\ listed' = OpenPositions
  /\ failed' = {}
  /\ Goto(t, "closing")
  /\ UNCHANGED <<state, triggeredBy, stateWriter, stateQueue, current, attempt,
                 marketVars, breakerVars>>

(* Nothing is left to do: the result is built and returned. *)
Complete(t) ==
  /\ pc[t] = "closing"
  /\ todo[t] = {}
  /\ Goto(t, "idle")
  /\ UNCHANGED <<switchVars, closeVars, marketVars, breakerVars>>

-----------------------------------------------------------------------------
(* _close_single_position: one question to the breaker, up to              *)
(* MaxCloseRetries orders, one report to the breaker.                      *)

SendFirst(t, p) ==
  /\ pc[t] = "closing"
  /\ p \in todo[t]
  /\ CanExecute
  /\ current' = [current EXCEPT ![t] = p]
  /\ attempt' = [attempt EXCEPT ![t] = 1]
  /\ Goto(t, "sent")
  /\ UNCHANGED <<switchVars, todo, listed, failed, marketVars>>

(* A call that a later one has overtaken reports to its own caller. *)
ReportFailed(t, p) ==
  failed' = IF t = triggeredBy THEN failed \cup {p} ELSE failed

(* The result for p is FAILED before an order was sent. *)
ReportUnsent(t, p) ==
  /\ pc[t] = "closing"
  /\ p \in todo[t]
  /\ todo' = [todo EXCEPT ![t] = @ \ {p}]
  /\ ReportFailed(t, p)
  /\ UNCHANGED <<switchVars, pc, current, attempt, listed, marketVars>>

RefusedByBreaker(t, p) == CannotExecute /\ ReportUnsent(t, p)

(* No connector, or an unexpected exception. *)
NotSent(t, p) == ReportUnsent(t, p) /\ UNCHANGED breakerVars

-----------------------------------------------------------------------------
(* The exchange: it accepts an order and executes it later.                *)

(* Mutant: the order is sent without reduce_only. *)
ReduceOnly_Dropped == FALSE

(* close_position_market sends reduce_only=True. *)
ReduceOnly == TRUE

Held(p) == market[p] \in {"open", "rest"}

(* The order is accepted; the answer, an acknowledgement, may be lost. *)
OrderAccepted(t) ==
  /\ pc[t] = "sent"
  /\ Held(current[t]) \/ ~ReduceOnly
  /\ working[current[t]] < MaxWorking
  /\ working' = [working EXCEPT ![current[t]] = @ + 1]
  /\ \E place \in {"acknowledged", "errored"} : Goto(t, place)
  /\ UNCHANGED <<switchVars, closeVars, tracked, market, breakerVars>>

(* An accepted order is executed, wholly, in part or, when the market does *)
(* not take it, not at all, against what is left of the position then.     *)
Executed(p) ==
  IF Held(p) THEN {"rest", "closed"}
  ELSE IF ReduceOnly THEN {market[p]} ELSE {"reversed"}

ExecuteOrder(p) ==
  /\ working[p] > 0
  /\ working' = [working EXCEPT ![p] = @ - 1]
  /\ \E holding \in Executed(p) : market' = [market EXCEPT ![p] = holding]
  /\ UNCHANGED <<switchVars, pc, closeVars, tracked, breakerVars>>

(* The trading engine opens positions, whatever the switch says; a stop at *)
(* the exchange, or a hand, closes them.                                   *)
EngineOpens(p) ==
  /\ market[p] = "none"
  /\ market' = [market EXCEPT ![p] = "open"]
  /\ UNCHANGED <<switchVars, pc, closeVars, tracked, working, breakerVars>>

ClosedElsewhere(p) ==
  /\ Held(p)
  /\ market' = [market EXCEPT ![p] = "closed"]
  /\ UNCHANGED <<switchVars, pc, closeVars, tracked, working, breakerVars>>

(* What the exchange may have reported of a position so far. *)
Reportable(p) ==
  (IF market[p] = "none" THEN {} ELSE {"open"})
    \cup (IF market[p] = "closed" THEN {"closed"} ELSE {})

(* An update reaches the tracker, late or once more when the updates are   *)
(* replayed: its status becomes the position's.                            *)
HandlePositionUpdate(p) ==
  /\ \E status \in Reportable(p) : tracked' = [tracked EXCEPT ![p] = status]
  /\ UNCHANGED <<switchVars, pc, closeVars, market, working, breakerVars>>

-----------------------------------------------------------------------------
(* The answer to a close order.                                            *)

(* Mutant: an error answer is taken for an acknowledgement. *)
OrderFails_Unnoticed(t) ==
  /\ pc[t] = "sent"
  /\ Goto(t, "acknowledged")
  /\ UNCHANGED <<switchVars, closeVars, marketVars, breakerVars>>

OrderFails(t) ==
  /\ pc[t] = "sent"
  /\ Goto(t, "errored")
  /\ UNCHANGED <<switchVars, closeVars, marketVars, breakerVars>>

SendAgain(t) ==
  /\ pc[t] = "errored"
  /\ attempt[t] < MaxCloseRetries
  /\ attempt' = [attempt EXCEPT ![t] = @ + 1]
  /\ Goto(t, "sent")
  /\ UNCHANGED <<switchVars, todo, current, listed, failed, marketVars,
                 breakerVars>>

(* The tracker books the close, on the acknowledgement and whatever status *)
(* the position has there; an exception it raises is swallowed.            *)
Book(t) ==
  /\ pc[t] = "acknowledged"
  /\ \/ tracked' = [tracked EXCEPT ![current[t]] = "closed"]
     \/ UNCHANGED tracked
  /\ Goto(t, "booked")
  /\ UNCHANGED <<switchVars, closeVars, market, working, breakerVars>>

(* Mutant: the order just handled stays current. *)
NextPosition_KeepsCurrent(t) ==
  /\ todo' = [todo EXCEPT ![t] = @ \ {current[t]}]
  /\ attempt' = [attempt EXCEPT ![t] = 0]
  /\ UNCHANGED current
  /\ Goto(t, "closing")

NextPosition(t) ==
  /\ todo' = [todo EXCEPT ![t] = @ \ {current[t]}]
  /\ current' = [current EXCEPT ![t] = NoPosition]
  /\ attempt' = [attempt EXCEPT ![t] = 0]
  /\ Goto(t, "closing")

CloseSucceeds(t) ==
  /\ pc[t] = "booked"
  /\ RecordSuccess
  /\ NextPosition(t)
  /\ UNCHANGED <<switchVars, listed, failed, marketVars>>

(* Mutant: a position given up is missing from the results. *)
CloseGivesUp_Forgets(t) ==
  /\ pc[t] = "errored"
  /\ attempt[t] = MaxCloseRetries
  /\ RecordFailure
  /\ NextPosition(t)
  /\ UNCHANGED <<switchVars, listed, failed, marketVars>>

CloseGivesUp(t) ==
  /\ pc[t] = "errored"
  /\ attempt[t] = MaxCloseRetries
  /\ RecordFailure
  /\ NextPosition(t)
  /\ ReportFailed(t, current[t])
  /\ UNCHANGED <<switchVars, listed, marketVars>>

-----------------------------------------------------------------------------
Tick == BreakerTick /\ UNCHANGED <<switchVars, pc, closeVars, marketVars>>

(* Whatever a trigger call does once it has been made. *)
Advance(t) ==
  \/ Refuse(t) \/ PassChecks(t) \/ GrantTrigger(t) \/ StartClosing(t)
  \/ Complete(t)
  \/ \E p \in Positions : SendFirst(t, p) \/ RefusedByBreaker(t, p) \/ NotSent(t, p)
  \/ OrderAccepted(t) \/ OrderFails(t) \/ SendAgain(t)
  \/ Book(t) \/ CloseSucceeds(t) \/ CloseGivesUp(t)

Next ==
  \/ \E c \in Commands : CallCommand(c)
  \/ GrantCommand \/ CommandWritten
  \/ \E t \in Triggers : CallTrigger(t) \/ Advance(t)
  \/ \E p \in Positions :
       \/ ExecuteOrder(p) \/ EngineOpens(p) \/ ClosedElsewhere(p)
       \/ HandlePositionUpdate(p)
  \/ Tick

Spec == Init /\ [][Next]_vars

(* The event loop runs every task that can go on; metrics writes and order *)
(* requests end, if only by their client timeouts.  Nobody has to call.    *)
(* A step of a call moves the call on or strikes a position off its list.  *)
Fairness ==
  /\ WF_stateQueue(GrantCommand) /\ WF_stateWriter(CommandWritten)
  /\ \A t \in Triggers : WF_<<pc[t], todo[t]>>(Advance(t))

FairSpec == Spec /\ Fairness

-----------------------------------------------------------------------------
(* While TRIGGERED, every position that the books had open when the call   *)
(* that triggered listed them is closed, to be tried by that call, reported*)
(* FAILED, or has a close order at the exchange - unless an accepted order *)
(* left a rest of it, since the executor does not read what an order came  *)
(* to.  None escapes through the locks, the commands, an overlapping       *)
(* earlier call, an update, a lost answer or an open breaker.              *)
NoPositionEscapes ==
  state = "triggered" =>
    /\ triggeredBy \in Triggers
    /\ pc[triggeredBy] # "logging" =>
         \A p \in listed :
           market[p] = "open" =>
             p \in todo[triggeredBy] \cup failed \/ working[p] > 0

(* Something has been done about p at the exchange. *)
Ordered(p) == working[p] > 0 \/ market[p] \in {"rest", "closed"}

(* However orders are retried, lost and run twice and updates come late:   *)
(* the books call a position closed only if a close order for it was       *)
(* accepted, or the exchange has closed it.  That the order was executed   *)
(* is more than the code waits for.                                        *)
BooksNotAhead == \A p \in Positions : tracked[p] = "closed" => Ordered(p)

(* The call that triggered has listed the positions. *)
Liquidating == AlreadyTriggered /\ pc[triggeredBy] # "logging"

L == INSTANCE Liquidation WITH
  switch <- IF Liquidating THEN "liquidating" ELSE state,
  books <- tracked,
  owed <- IF Liquidating THEN todo[triggeredBy] ELSE {},
  reported <- IF Liquidating THEN failed ELSE {}

(* The executor liquidates as it promises: a trigger makes every position  *)
(* of the books owed, each is struck off only when the exchange has an     *)
(* order for it or it is reported, no retried or overlapping order reverses*)
(* one, and the books call none closed before.                             *)
Liquidates == L!Spec

Waits(caller, queue) == \E i \in DOMAIN queue : queue[i] = caller

(* Nobody waits for a lock that is not going to be handed on: the holder of*)
(* _trigger_lock has its checks, _state_lock or its metrics write before   *)
(* it, never its return behind it; whoever is next for _state_lock is still*)
(* waiting for it; and whoever waits for a lock stands in its queue.       *)
LocksMoveOn ==
  /\ triggerQueue # <<>> =>
       pc[Head(triggerQueue)] \in {"queued", "waiting", "logging"}
  /\ stateQueue # <<>> /\ Head(stateQueue) \notin Commands =>
       pc[Head(stateQueue)] = "waiting"
  /\ \A t \in Triggers :
       /\ pc[t] = "queued" => Waits(t, triggerQueue)
       /\ pc[t] = "waiting" => HoldsTriggerLock(t) /\ Waits(t, stateQueue)

(* The exchange breaker as calls share it here; each call that it admits   *)
(* reports, as none is cancelled.                                          *)
B == INSTANCE Breaker WITH
  phase <- breakerState,
  failures <- IF breakerState = "closed" THEN failureCount ELSE 0,
  waited <- IF breakerState = "open" THEN sinceFailure ELSE 0,
  granted <- IF breakerState = "half_open" THEN halfOpenCalls + 1 ELSE 0,
  successes <- successCount,
  silent <- FALSE,
  Timeout <- RecoveryTimeout,
  Slots <- HalfOpenMaxCalls + 1,
  Needed <- SuccessThreshold

(* Between the retries of overlapping calls, which report once for several *)
(* orders, the breaker opens, waits, probes and closes as Breaker says.    *)
BreakerKept == B!Spec

(* A HALF_OPEN breaker refuses positions, which are then given up, only    *)
(* while an order is under way whose report can move it on: the emergency  *)
(* stop never blocks itself for good.                                      *)
RefusesOnlyMeanwhile ==
  breakerState = "half_open" /\ ~ProbeAllowed =>
    \E t \in Triggers : pc[t] \in Closing \ {"closing"}

(* Every call to execute_kill_switch returns, whatever holds the locks,    *)
(* the exchange answers and the breaker decides.                           *)
EveryCallReturns == \A t \in Triggers : pc[t] # "idle" ~> pc[t] = "idle"

(* A DISABLED switch does not trigger.                                     *)
DisabledDoesNotTrigger == [][state = "disabled" => state' # "triggered"]_vars

=============================================================================
