------------------------- MODULE PaperOrchestrator --------------------------
(***************************************************************************)
(* The paper trading orchestrator of src/execution/paper/orchestrator.py,  *)
(* from a signal to a position and back: process_signal calls, one at a    *)
(* time in the processing loop or several at once in a batch, the SL/TP    *)
(* loop and operators calling close_position, all over one tracker, one    *)
(* lock per position and the symbol registry.                              *)
(*                                                                         *)
(* A step is what a task does between two awaits.  Abstractions.  A call   *)
(* stands for its signal, its order and the position it may open, as its   *)
(* correlation id does in the code.  What a gate reads (cooldown, kill     *)
(* switches, price, LLM, risk) is left out: it may refuse the signal.  So  *)
(* are directions and ages: a signal on a symbol that has a position may   *)
(* be refused or close it (the second opposite one does, and in POC_MODE   *)
(* any, once the position is old).  The order is filled, or not, in one    *)
(* step.  Journal, notifications, outcome capture and metrics are left     *)
(* out: their failures are caught.                                         *)
(***************************************************************************)
EXTENDS SymbolRegistry

CONSTANTS
  Loop,         \* the SL/TP monitoring loop
  Operator,     \* a caller of close_position
  NoTask,
  CallSpan,     \* the longest process_signal call, in ticks
  EvalInterval, \* SYMBOL_EVAL_INTERVAL_SECONDS, in ticks
  Deployments   \* the deployments to study

Calls == Owners
Tasks == Calls \cup {Loop, Operator}

(* "serial": signals come through the queue only, not in batches;          *)
(* "cadence": the evaluation interval is positive; "registry": a registry  *)
(* is configured.                                                          *)
Options == {"serial", "cadence", "registry"}

ASSUME OrchestratorAssumption ==
  /\ Loop # Operator /\ {Loop, Operator} \cap Calls = {}
  /\ NoTask \notin Tasks
  /\ CallSpan \in Nat /\ EvalInterval \in Nat
  /\ CallSpan < EvalInterval
  /\ 2 * CallSpan < RegistryTtl
  /\ Deployments \subseteq SUBSET Options

VARIABLES
  deployed,     \* options of this deployment, chosen once
  running,      \* "no" once stop() has cancelled the SL/TP loop
  token,        \* the symbol of each call's signal
  pc,           \* where each task is
  target,       \* the position a task is closing, or the owner of the key
                \* it releases
  position,     \* the tracker: what became of each call's position
  lock,         \* _position_locks
  age,          \* ticks a call has been in process_signal
  since,        \* ticks since _last_symbol_processed_ts, up to EvalInterval
  booked,       \* how often the PnL of a position was added to the portfolio
  troubled,     \* history: calls an exception or cancellation interrupted
  exposed       \* history: symbols whose registry key failed to exclude

setup == <<deployed, token>>
books == <<position, booked>>
clocks == <<age, since>>
history == <<troubled, exposed>>
vars == <<setup, running, pc, target, lock, books, clocks, history,
          registryVars>>

(* A call is not begun; at the gates; about to lock a position; past the   *)
(* position check; placing its order; over.  The loop and operators are    *)
(* idle; the loop waits for a price.  All may be closing a position:       *)
(* about to take it from the tracker, to read its key, to delete it, to    *)
(* book the PnL.                                                           *)
Settling == {"read", "delete", "book"}
Busy == {"locking", "pricing", "closing"} \cup Settling
Free == {"new", "gates", "cleared", "placing", "over", "idle"}

(* The state's types; a task has a position at hand exactly where the code *)
(* of process_signal, close_position or the SL/TP loop has one.            *)
TypeOK ==
  /\ RegistryTypeOK
  /\ deployed \in Deployments
  /\ running \in {"yes", "stopping", "no"}
  /\ token \in [Calls -> Symbols]
  /\ pc \in [Tasks -> Busy \cup Free]
  /\ target \in [Tasks -> Calls \cup {NoOwner}]
  /\ \A t \in Tasks : target[t] \in Calls <=> pc[t] \in Busy
  /\ position \in [Calls -> {"none", "open", "closed", "forgotten"}]
  /\ lock \in [Calls -> Tasks \cup {NoTask}]
  /\ age \in [Calls -> 0..CallSpan]
  /\ since \in [Symbols -> 0..EvalInterval]
  /\ booked \in [Calls -> Nat]
  /\ troubled \subseteq Calls
  /\ exposed \subseteq Symbols

Init ==
  /\ RegistryInit
  /\ deployed \in Deployments
  /\ running = "yes"
  /\ token \in [Calls -> Symbols]
  /\ pc = [t \in Tasks |-> IF t \in Calls THEN "new" ELSE "idle"]
  /\ target = [t \in Tasks |-> NoOwner]
  /\ position = [c \in Calls |-> "none"]
  /\ lock = [p \in Calls |-> NoTask]
  /\ age = [c \in Calls |-> 0]
  /\ since = [s \in Symbols |-> EvalInterval]
  /\ booked = [p \in Calls |-> 0]
  /\ troubled = {}
  /\ exposed = {}

InFlight(c) == pc[c] \notin {"new", "over"}

Open(s) == {p \in Calls : position[p] = "open" /\ token[p] = s}

Goto(t, place) == pc' = [pc EXCEPT ![t] = place]

(* A task is done with the position it was closing: it gives back the lock,*)
(* if it holds it.  A call goes on to open a position of its own.          *)
Leave(t) ==
  /\ Goto(t, IF t \in Calls THEN "cleared" ELSE "idle")
  /\ target' = [target EXCEPT ![t] = NoOwner]
  /\ lock' = [p \in Calls |-> IF lock[p] = t THEN NoTask ELSE lock[p]]

-----------------------------------------------------------------------------
(* process_signal up to the order. *)

Throttled(c) ==
  /\ pc[c] = "new" /\ "cadence" \in deployed
  /\ since[token[c]] < EvalInterval
  /\ Goto(c, "over")
  /\ UNCHANGED <<setup, running, target, lock, books, clocks, history,
                 registryVars>>

(* The processing loop or a batch calls process_signal, which stamps the   *)
(* symbol.                                                                 *)
Begin(c) ==
  /\ pc[c] = "new"
  /\ "serial" \in deployed => running = "yes" /\ \A d \in Calls : ~InFlight(d)
  /\ "cadence" \in deployed => since[token[c]] = EvalInterval
  /\ since' = IF "cadence" \in deployed
                THEN [since EXCEPT ![token[c]] = 0] ELSE since
  /\ age' = [age EXCEPT ![c] = 0]
  /\ Goto(c, "gates")
  /\ UNCHANGED <<setup, running, target, lock, books, history, registryVars>>

(* A gate, the LLM or the risk enforcer rejects; or the signal has the     *)
(* direction of the position, or is the first opposite one, or is too early.*)
Refused(c) ==
  /\ pc[c] \in {"gates", "cleared"}
  /\ Goto(c, "over")
  /\ UNCHANGED <<setup, running, target, lock, books, clocks, history,
                 registryVars>>

NoPosition(c) ==
  /\ pc[c] = "gates" /\ Open(token[c]) = {}
  /\ Goto(c, "cleared")
  /\ UNCHANGED <<setup, running, target, lock, books, clocks, history,
                 registryVars>>

ToClose(c) ==
  /\ pc[c] = "gates"
  /\ \E p \in Open(token[c]) : target' = [target EXCEPT ![c] = p]
  /\ Goto(c, "locking")
  /\ UNCHANGED <<setup, running, lock, books, clocks, history, registryVars>>

(* The position's lock, under which the call looks again. *)
LockPosition(c) ==
  /\ pc[c] = "locking" /\ lock[target[c]] = NoTask
  /\ IF position[target[c]] = "open"
       THEN /\ lock' = [lock EXCEPT ![target[c]] = c]
            /\ Goto(c, "closing")
            /\ UNCHANGED target
       ELSE Leave(c)
  /\ UNCHANGED <<setup, running, books, clocks, history, registryVars>>

AcquireSymbol(c) ==
  /\ pc[c] = "cleared"
  /\ IF "registry" \in deployed THEN SetIfFree(token[c], c)
                                ELSE UNCHANGED registryVars
  /\ Goto(c, "placing")
  /\ UNCHANGED <<setup, running, target, lock, books, clocks, history>>

SymbolTaken(c) ==
  /\ pc[c] = "cleared"
  /\ "registry" \in deployed /\ owner[token[c]] # NoOwner
  /\ Goto(c, "over")
  /\ UNCHANGED <<setup, running, target, lock, books, clocks, history,
                 registryVars>>

(* Redis raises, perhaps after it has set the key: the call proceeds. *)
AcquireFails(c) ==
  /\ pc[c] = "cleared" /\ "registry" \in deployed
  /\ SetIfFree(token[c], c) \/ UNCHANGED registryVars
  /\ exposed' = exposed \cup {token[c]}
  /\ Goto(c, "placing")
  /\ UNCHANGED <<setup, running, target, lock, books, clocks, troubled>>

-----------------------------------------------------------------------------
(* The order. *)

(* _create_order refuses the size or the price, or place_order raises: the *)
(* handler reports the failure and leaves the key.                         *)
OrderRaises(c) ==
  /\ pc[c] = "placing"
  /\ troubled' = troubled \cup {c}
  /\ Goto(c, "over")
  /\ UNCHANGED <<setup, running, target, lock, books, clocks, exposed,
                 registryVars>>

(* The order is filled, and _open_position tells the tracker. *)
Filled(c) ==
  /\ pc[c] = "placing"
  /\ position' = [position EXCEPT ![c] = "open"]
  /\ Goto(c, "over")
  /\ UNCHANGED <<setup, running, target, lock, booked, clocks,
                 history, registryVars>>

(* Mutant: an order that is not filled keeps the symbol. *)
NotFilled_KeepsKey(c) ==
  /\ pc[c] = "placing"
  /\ Goto(c, "over")
  /\ UNCHANGED <<setup, running, target, lock, books, clocks, history,
                 registryVars>>

(* Rejected, or the polls for the fill ended without one. *)
NotFilled(c) ==
  /\ pc[c] = "placing"
  /\ IF "registry" \in deployed
       THEN Goto(c, "read") /\ target' = [target EXCEPT ![c] = c]
       ELSE Goto(c, "over") /\ UNCHANGED target
  /\ UNCHANGED <<setup, running, lock, books, clocks, history, registryVars>>

-----------------------------------------------------------------------------
(* Closing a position: close_position, and the release of the symbol, which*)
(* follows an order that was not filled as well.                           *)

(* Mutant: a position that was closed is closed again. *)
CloseTracked_Twice(t) ==
  /\ pc[t] = "closing" /\ position[target[t]] \in {"open", "closed"}
  /\ position' = [position EXCEPT ![target[t]] = "closed"]
  /\ Goto(t, IF "registry" \in deployed THEN "read" ELSE "book")
  /\ UNCHANGED <<setup, running, target, lock, booked, clocks,
                 history, registryVars>>

(* The tracker moves the position to the closed ones. *)
CloseTracked(t) ==
  /\ pc[t] = "closing" /\ position[target[t]] = "open"
  /\ position' = [position EXCEPT ![target[t]] = "closed"]
  /\ Goto(t, IF "registry" \in deployed THEN "read" ELSE "book")
  /\ UNCHANGED <<setup, running, target, lock, booked, clocks,
                 history, registryVars>>

(* It has moved it, but saving it raises: close_position gives up. *)
CloseUnsaved(t) ==
  /\ pc[t] = "closing" /\ position[target[t]] = "open"
  /\ position' = [position EXCEPT ![target[t]] = "closed"]
  /\ troubled' = troubled \cup {target[t]}
  /\ Leave(t)
  /\ UNCHANGED <<setup, running, booked, clocks, exposed,
                 registryVars>>

(* The tracker does not know the position, or no longer. *)
CloseMissing(t) ==
  /\ pc[t] = "closing" /\ position[target[t]] # "open"
  /\ Leave(t)
  /\ UNCHANGED <<setup, running, books, clocks, history, registryVars>>

(* Mutant: a call that has released its symbol still names it. *)
Released_KeepsTarget(t) ==
  /\ Goto(t, IF target[t] = t THEN "over" ELSE "book")
  /\ UNCHANGED target

(* The release is over; its call is, or the PnL is booked. *)
Released(t) ==
  /\ Goto(t, IF target[t] = t THEN "over" ELSE "book")
  /\ target' = IF target[t] = t THEN [target EXCEPT ![t] = NoOwner] ELSE target

(* The GET of release_symbol. *)
ReadOwner(t) ==
  /\ pc[t] = "read"
  /\ IF Held(token[target[t]], target[t])
       THEN Goto(t, "delete") /\ UNCHANGED target
       ELSE Released(t)
  /\ UNCHANGED <<setup, running, lock, books, clocks, history, registryVars>>

(* Its DEL, whether or not the reply arrives. *)
DeleteKey(t) ==
  LET s == token[target[t]]
  IN  /\ pc[t] = "delete"
      /\ exposed' = IF owner[s] \in {target[t], NoOwner} THEN exposed
                                                         ELSE exposed \cup {s}
      /\ Delete(s)
      /\ Released(t)
      /\ UNCHANGED <<setup, running, lock, books, clocks, troubled>>

(* Redis raises at the GET, or refuses the DEL, which is only logged. *)
ReleaseFails(t) ==
  /\ pc[t] \in {"read", "delete"}
  /\ troubled' = troubled \cup {target[t]}
  /\ Released(t)
  /\ UNCHANGED <<setup, running, lock, books, clocks, exposed, registryVars>>

(* The PnL joins the portfolio value; nothing after that can fail. *)
Book(t) ==
  /\ pc[t] = "book"
  /\ booked' = [booked EXCEPT ![target[t]] = @ + 1]
  /\ Leave(t)
  /\ UNCHANGED <<setup, running, position, clocks, history,
                 registryVars>>

-----------------------------------------------------------------------------
(* The SL/TP loop and operators. *)

(* The loop skips a position whose lock is held. *)
CheckPosition(p) ==
  /\ running # "no" /\ pc[Loop] = "idle"
  /\ position[p] = "open" /\ lock[p] = NoTask
  /\ lock' = [lock EXCEPT ![p] = Loop]
  /\ target' = [target EXCEPT ![Loop] = p]
  /\ Goto(Loop, "pricing")
  /\ UNCHANGED <<setup, running, books, clocks, history, registryVars>>

(* Mutant: the lock is kept when there is no price. *)
NoTrigger_KeepsLock ==
  /\ pc[Loop] = "pricing"
  /\ Goto(Loop, "idle")
  /\ target' = [target EXCEPT ![Loop] = NoOwner]
  /\ UNCHANGED <<setup, running, lock, books, clocks, history, registryVars>>

(* No price, a stale one, or one between the levels. *)
NoTrigger ==
  /\ pc[Loop] = "pricing"
  /\ Leave(Loop)
  /\ UNCHANGED <<setup, running, books, clocks, history, registryVars>>

Trigger(p) ==
  /\ pc[Loop] = "pricing" /\ target[Loop] = p
  /\ Goto(Loop, "closing")
  /\ UNCHANGED <<setup, running, target, lock, books, clocks, history,
                 registryVars>>

(* close_position called from outside takes no lock. *)
OperatorCloses(p) ==
  /\ pc[Operator] = "idle" /\ position[p] = "open"
  /\ target' = [target EXCEPT ![Operator] = p]
  /\ Goto(Operator, "closing")
  /\ UNCHANGED <<setup, running, lock, books, clocks, history, registryVars>>

-----------------------------------------------------------------------------
(* The end of the process, and time. *)

(* stop() cancels the processing task at an await, with the call it runs;  *)
(* calls of a batch go on.                                                 *)
Stop ==
  /\ running = "yes"
  /\ running' = "stopping"
  /\ LET cut == {c \in Calls : InFlight(c) /\ "serial" \in deployed}
     IN  /\ pc' = [t \in Tasks |-> IF t \in cut THEN "over" ELSE pc[t]]
         /\ target' = [t \in Tasks |-> IF t \in cut THEN NoOwner
                                       ELSE target[t]]
         /\ lock' = [p \in Calls |-> IF lock[p] \in cut THEN NoTask
                                     ELSE lock[p]]
         /\ troubled' = troubled
              \cup {c \in Calls : c \in cut \/ \E t \in cut : target[t] = c}
  /\ UNCHANGED <<setup, books, clocks, exposed, registryVars>>

(* Then it cancels the loop. *)
StopLoop ==
  /\ running = "stopping"
  /\ running' = "no"
  /\ troubled' = troubled \cup ({target[Loop]} \cap Calls)
  /\ Leave(Loop)
  /\ UNCHANGED <<setup, books, clocks, exposed, registryVars>>

(* The process dies and starts again.  The tracker starts empty: the       *)
(* positions it saved are not loaded.  The registry outlives it.           *)
Restart ==
  /\ running' = "yes"
  /\ pc' = [t \in Tasks |-> IF t \notin Calls THEN "idle"
                            ELSE IF InFlight(t) THEN "over" ELSE pc[t]]
  /\ target' = [t \in Tasks |-> NoOwner]
  /\ lock' = [p \in Calls |-> NoTask]
  /\ position' = [p \in Calls |-> IF position[p] = "open" THEN "forgotten"
                                  ELSE position[p]]
  /\ since' = [s \in Symbols |-> EvalInterval]
  /\ troubled' = troubled
       \cup {c \in Calls : \/ InFlight(c) \/ position[c] = "open"
                          \/ \E t \in Tasks : target[t] = c}
  /\ UNCHANGED <<setup, booked, age, exposed, registryVars>>

Tick ==
  /\ \A c \in Calls : InFlight(c) => age[c] < CallSpan
  /\ RegistryTick
  /\ age' = [c \in Calls |-> IF InFlight(c) THEN age[c] + 1 ELSE 0]
  /\ since' = [s \in Symbols |-> IF since[s] < EvalInterval THEN since[s] + 1
                                 ELSE since[s]]
  /\ UNCHANGED <<setup, running, pc, target, lock, books, history>>

CallStep(c) ==
  \/ Throttled(c) \/ Begin(c) \/ Refused(c)
  \/ NoPosition(c) \/ ToClose(c) \/ LockPosition(c)
  \/ AcquireSymbol(c) \/ SymbolTaken(c) \/ AcquireFails(c)
  \/ OrderRaises(c) \/ Filled(c) \/ NotFilled(c)

CloseStep(t) ==
  \/ CloseTracked(t) \/ CloseUnsaved(t) \/ CloseMissing(t)
  \/ ReadOwner(t) \/ DeleteKey(t) \/ ReleaseFails(t) \/ Book(t)

Next ==
  \/ \E c \in Calls : CallStep(c)
  \/ \E t \in Tasks : CloseStep(t)
  \/ \E p \in Calls : CheckPosition(p) \/ Trigger(p) \/ OperatorCloses(p)
  \/ NoTrigger
  \/ Stop \/ StopLoop \/ Restart
  \/ Tick

Spec == Init /\ [][Next]_vars

(* Tasks that can go on do; time passes; the loop comes back to every open *)
(* position, and again and again finds its level reached.                  *)
Fairness ==
  /\ \A c \in Calls : WF_vars(InFlight(c) /\ CallStep(c))
  /\ \A t \in Tasks : WF_vars(CloseStep(t))
  /\ WF_vars(NoTrigger)
  /\ \A p \in Calls : SF_vars(CheckPosition(p)) /\ SF_vars(Trigger(p))
  /\ WF_vars(Tick)

FairSpec == Spec /\ Fairness

-----------------------------------------------------------------------------
(* Properties. *)

(* There is at most one open position per symbol, and each of three guards *)
(* is enough: signals taken one at a time; the evaluation interval; or the *)
(* registry, on a symbol where no acquisition failed open and no release   *)
(* deleted a key that had changed hands.  Although the key expires while   *)
(* its position is open, the check for positions covers what comes later.  *)
OnePositionPerSymbol ==
  \A p, q \in Calls :
    /\ position[p] = "open" /\ position[q] = "open" /\ token[p] = token[q]
    /\ \/ {"serial", "cadence"} \cap deployed # {}
       \/ ("registry" \in deployed /\ token[p] \notin exposed)
    => p = q

(* The PnL of a position is added to the portfolio value at most once,     *)
(* whoever closes it and however they overlap, and not before it is        *)
(* closed; and it is added, unless the closing was interrupted.            *)
BookedOnce ==
  \A p \in Calls :
    /\ booked[p] <= 1
    /\ booked[p] = 1 => position[p] = "closed"
    /\ position[p] = "closed" =>
         \/ booked[p] = 1
         \/ p \in troubled
         \/ \E t \in Tasks : pc[t] \in Settling /\ target[t] = p

(* What became of each position, for the specification of the book: a      *)
(* closed one whose PnL nobody is about to book any more has lost it.      *)
Phase(p) ==
  IF position[p] \in {"none", "open"} THEN position[p]
  ELSE IF position[p] = "forgotten" THEN "lost"
  ELSE IF booked[p] = 1 THEN "booked"
  ELSE IF booked[p] > 1 THEN "overbooked"
  ELSE IF \E t \in Tasks : pc[t] \in Settling /\ target[t] = p THEN "owed"
  ELSE "lost"

(* The symbols that a guard of this deployment still keeps exclusive. *)
Exclusives ==
  IF {"serial", "cadence"} \cap deployed # {} THEN Symbols
  ELSE IF "registry" \in deployed THEN Symbols \ exposed
  ELSE {}

PB == INSTANCE PositionBook WITH
  Positions <- Calls,
  symbol <- token,
  exclusive <- Exclusives,
  excused <- troubled,
  phase <- [p \in Calls |-> Phase(p)]

(* The orchestrator keeps the book it promises: whoever closes a position  *)
(* and however they overlap, its profit joins the portfolio value once,    *)
(* after the close, unless an interruption of this very closing excuses    *)
(* it; and no position is opened next to another one of its symbol while a *)
(* guard keeps the symbol exclusive.                                       *)
KeepsBook == PB!Spec

(* A symbol's key is there for a reason: its owner is placing its order or *)
(* has its position open, a task is about to release it, or an exception,  *)
(* a cancellation or a restart cut its owner short.                        *)
HeldForReason ==
  \A s \in Symbols, c \in Calls :
    owner[s] = c =>
      \/ pc[c] = "placing" \/ position[c] = "open" \/ c \in troubled
      \/ \E t \in Tasks : pc[t] \in {"read", "delete"} /\ target[t] = c

(* A key that outlives its owner's work does not block the symbol for ever.*)
SymbolComesFree ==
  \A s \in Symbols, c \in Calls :
    owner[s] = c /\ pc[c] = "over" ~> owner[s] # c

(* An open position whose level is reached at check after check is closed, *)
(* whatever calls and operators do to it, unless the loop is stopped.      *)
TriggersActed ==
  \A p \in Calls :
    position[p] = "open" ~> position[p] # "open" \/ running # "yes"

=============================================================================
