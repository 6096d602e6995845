----------------------- MODULE PaperOrchestratorProofs ----------------------
(***************************************************************************)
(* Theorems about PaperOrchestrator: the types, one position per symbol    *)
(* under each of the three guards, the booking of profits, the reasons for *)
(* which a symbol is held, and the refinement of PositionBook.             *)
(***************************************************************************)
EXTENDS PaperOrchestrator, TLAPS

(***************************************************************************)
(* The inductive invariant, in parts.                                      *)
(***************************************************************************)

(* A call has a position only when it is over. *)
Placed == \A c \in Calls : position[c] # "none" => pc[c] = "over"

(* What a task may have at hand: a position that was opened, which is      *)
(* closed from the read of its key on; or, to release its own symbol, a    *)
(* call that has opened none.                                              *)
AtHand ==
  \A t \in Tasks :
    /\ pc[t] \in {"locking", "pricing", "closing"} =>
         position[target[t]] # "none"
    /\ pc[t] \in Settling =>
         position[target[t]] = IF target[t] = t THEN "none" ELSE "closed"
    /\ pc[t] = "book" => target[t] # t

(* A position is settled by one task, which books it once. *)
Settled ==
  /\ \A t, u \in Tasks :
       pc[t] \in Settling /\ pc[u] \in Settling /\ target[t] = target[u]
         => t = u
  /\ \A t \in Tasks : pc[t] \in Settling => booked[target[t]] = 0

(* A key names a call of its symbol, and there is none without a registry. *)
Keys ==
  \A s \in Symbols, c \in Calls :
    owner[s] = c => token[c] = s /\ "registry" \in deployed

(* Signals of one symbol do not overlap: the interval since the last one   *)
(* began has not run out while it is in flight.                            *)
OneByOne == {"serial", "cadence"} \cap deployed # {}

Exclusive ==
  /\ "cadence" \in deployed =>
       \A c \in Calls : InFlight(c) => since[token[c]] <= age[c]
  /\ OneByOne =>
       \A c, d \in Calls :
         InFlight(c) /\ InFlight(d) /\ token[c] = token[d] => c = d

(* A call that has passed the check for positions and may yet open one.    *)
MayOpen(c) ==
  \/ pc[c] \in {"locking", "closing", "cleared", "placing"}
  \/ pc[c] \in Settling /\ target[c] # c

(* A position a call may meet: open on its symbol, and not the one it is   *)
(* about to close.                                                         *)
InTheWay(p, c) ==
  /\ MayOpen(c) /\ position[p] = "open" /\ token[p] = token[c]
  /\ ~(pc[c] \in {"locking", "closing"} /\ target[c] = p)

Cleared == OneByOne => \A c, p \in Calls : ~InTheWay(p, c)

(* With the registry: a call that places its order has its symbol, and so  *)
(* has a position in its way, for longer than the call can last.           *)
Guarded(s) == "registry" \in deployed /\ s \notin exposed

Kept ==
  /\ \A c \in Calls :
       pc[c] = "placing" /\ Guarded(token[c]) =>
         owner[token[c]] = c /\ left[token[c]] + age[c] >= RegistryTtl
  /\ \A c, p \in Calls :
       InTheWay(p, c) /\ Guarded(token[c]) =>
         /\ owner[token[c]] = p
         /\ left[token[c]] + age[c] + CallSpan >= RegistryTtl

Books == TypeOK /\ Placed /\ AtHand /\ Settled /\ Keys /\ BookedOnce
Exclusion == Exclusive /\ Cleared /\ Kept /\ OnePositionPerSymbol

IInv == Books /\ Exclusion /\ HeldForReason

-----------------------------------------------------------------------------
(* The types. *)
LEMMA TypeStep ==
  ASSUME TypeOK, [Next]_vars
  PROVE  TypeOK'
<1> USE OrchestratorAssumption, RegistryAssumption
    DEF OrchestratorAssumption, RegistryAssumption, TypeOK, RegistryTypeOK, Calls,
        Tasks, Busy, Free, Settling, setup, books, clocks, history,
        registryVars, Goto, InFlight
<1>1. ASSUME NEW c \in Calls, Throttled(c) \/ Begin(c) \/ Refused(c)
      PROVE  TypeOK'
  BY <1>1 DEF Throttled, Begin, Refused
<1>2. ASSUME NEW c \in Calls, NoPosition(c) \/ ToClose(c)
      PROVE  TypeOK'
  BY <1>2 DEF NoPosition, ToClose, Open
<1>3. ASSUME NEW c \in Calls, LockPosition(c)
      PROVE  TypeOK'
  BY <1>3 DEF LockPosition, Leave
<1>4. ASSUME NEW c \in Calls,
             AcquireSymbol(c) \/ SymbolTaken(c) \/ AcquireFails(c)
      PROVE  TypeOK'
  BY <1>4 DEF AcquireSymbol, SymbolTaken, AcquireFails, SetIfFree
<1>5. ASSUME NEW c \in Calls, OrderRaises(c) \/ Filled(c) \/ NotFilled(c)
      PROVE  TypeOK'
  BY <1>5 DEF OrderRaises, Filled, NotFilled
<1>6. ASSUME NEW t \in Tasks,
             CloseTracked(t) \/ CloseUnsaved(t) \/ CloseMissing(t)
      PROVE  TypeOK'
  BY <1>6 DEF CloseTracked, CloseUnsaved, CloseMissing, Leave
<1>7. ASSUME NEW t \in Tasks, ReadOwner(t) \/ ReleaseFails(t)
      PROVE  TypeOK'
  BY <1>7 DEF ReadOwner, ReleaseFails, Released, Held
<1>8. ASSUME NEW t \in Tasks, DeleteKey(t)
      PROVE  TypeOK'
  BY <1>8 DEF DeleteKey, Delete, Released
<1>9. ASSUME NEW t \in Tasks, Book(t)
      PROVE  TypeOK'
  BY <1>9 DEF Book, Leave
<1>10. ASSUME NEW p \in Calls,
             CheckPosition(p) \/ Trigger(p) \/ OperatorCloses(p)
      PROVE  TypeOK'
  BY <1>10 DEF CheckPosition, Trigger, OperatorCloses
<1>11. CASE NoTrigger \/ Stop \/ StopLoop \/ Restart
  BY <1>11 DEF NoTrigger, Stop, StopLoop, Restart, Leave
<1>12. CASE Tick \/ UNCHANGED vars
  BY <1>12 DEF Tick, RegistryTick, vars
<1> QED
  BY <1>1, <1>2, <1>3, <1>4, <1>5, <1>6, <1>7, <1>8, <1>9, <1>10, <1>11, <1>12
     DEF Next, CallStep, CloseStep

(* What becomes of a position, and who has it at hand. *)
LEMMA AtHandStep ==
  ASSUME TypeOK, Placed, AtHand, [Next]_vars
  PROVE  (Placed /\ AtHand)'
<1> USE OrchestratorAssumption, RegistryAssumption
    DEF OrchestratorAssumption, RegistryAssumption, TypeOK, RegistryTypeOK, Calls,
        Tasks, Busy, Free, Settling, setup, books, clocks, history,
        registryVars, Goto, InFlight, Placed, AtHand
<1>1. ASSUME NEW c \in Calls, Throttled(c) \/ Begin(c) \/ Refused(c)
      PROVE  (Placed /\ AtHand)'
  BY <1>1 DEF Throttled, Begin, Refused
<1>2. ASSUME NEW c \in Calls, NoPosition(c) \/ ToClose(c)
      PROVE  (Placed /\ AtHand)'
  BY <1>2 DEF NoPosition, ToClose, Open
<1>3. ASSUME NEW c \in Calls, LockPosition(c)
      PROVE  (Placed /\ AtHand)'
  BY <1>3 DEF LockPosition, Leave
<1>4. ASSUME NEW c \in Calls,
             AcquireSymbol(c) \/ SymbolTaken(c) \/ AcquireFails(c)
      PROVE  (Placed /\ AtHand)'
  BY <1>4 DEF AcquireSymbol, SymbolTaken, AcquireFails, SetIfFree
<1>5. ASSUME NEW c \in Calls, OrderRaises(c) \/ Filled(c) \/ NotFilled(c)
      PROVE  (Placed /\ AtHand)'
  BY <1>5 DEF OrderRaises, Filled, NotFilled
<1>6. ASSUME NEW t \in Tasks,
             CloseTracked(t) \/ CloseUnsaved(t) \/ CloseMissing(t)
      PROVE  (Placed /\ AtHand)'
  BY <1>6 DEF CloseTracked, CloseUnsaved, CloseMissing, Leave
<1>7. ASSUME NEW t \in Tasks, ReadOwner(t) \/ DeleteKey(t) \/ ReleaseFails(t)
      PROVE  (Placed /\ AtHand)'
  BY <1>7 DEF ReadOwner, DeleteKey, Delete, ReleaseFails, Released, Held
<1>8. ASSUME NEW t \in Tasks, Book(t)
      PROVE  (Placed /\ AtHand)'
  BY <1>8 DEF Book, Leave
<1>9. ASSUME NEW p \in Calls,
             CheckPosition(p) \/ Trigger(p) \/ OperatorCloses(p)
      PROVE  (Placed /\ AtHand)'
  BY <1>9 DEF CheckPosition, Trigger, OperatorCloses
<1>10. CASE NoTrigger \/ Stop \/ StopLoop \/ Restart
  BY <1>10 DEF NoTrigger, Stop, StopLoop, Restart, Leave
<1>11. CASE Tick \/ UNCHANGED vars
  BY <1>11 DEF Tick, RegistryTick, vars
<1> QED
  BY <1>1, <1>2, <1>3, <1>4, <1>5, <1>6, <1>7, <1>8, <1>9, <1>10, <1>11 DEF Next,
     CallStep, CloseStep

(* A position is settled by the task that takes it from the tracker, and   *)
(* only one can.                                                           *)
LEMMA SettledStep ==
  ASSUME TypeOK, Placed, AtHand, Settled, BookedOnce, [Next]_vars
  PROVE  Settled'
<1> USE OrchestratorAssumption, RegistryAssumption
    DEF OrchestratorAssumption, RegistryAssumption, TypeOK, RegistryTypeOK, Calls,
        Tasks, Busy, Free, Settling, setup, books, clocks, history,
        registryVars, Goto, InFlight, Placed, AtHand, Settled, BookedOnce
<1>1. ASSUME NEW c \in Calls, Throttled(c) \/ Begin(c) \/ Refused(c)
      PROVE  Settled'
  BY <1>1 DEF Throttled, Begin, Refused
<1>2. ASSUME NEW c \in Calls, NoPosition(c) \/ ToClose(c)
      PROVE  Settled'
  BY <1>2 DEF NoPosition, ToClose, Open
<1>3. ASSUME NEW c \in Calls, LockPosition(c)
      PROVE  Settled'
  BY <1>3 DEF LockPosition, Leave
<1>4. ASSUME NEW c \in Calls,
             AcquireSymbol(c) \/ SymbolTaken(c) \/ AcquireFails(c)
      PROVE  Settled'
  BY <1>4 DEF AcquireSymbol, SymbolTaken, AcquireFails, SetIfFree
<1>5. ASSUME NEW c \in Calls, OrderRaises(c) \/ Filled(c)
      PROVE  Settled'
  BY <1>5 DEF OrderRaises, Filled
<1>6. ASSUME NEW c \in Calls, NotFilled(c)
      PROVE  Settled'
  BY <1>6 DEF NotFilled
<1>7. ASSUME NEW t \in Tasks, CloseTracked(t)
      PROVE  Settled'
  <2>1. /\ pc[t] = "closing" /\ target[t] \in Calls
        /\ position[target[t]] = "open"
        /\ pc'[t] \in Settling
        /\ \A u \in Tasks : u # t => pc'[u] = pc[u]
        /\ UNCHANGED <<target, booked>>
    BY <1>7 DEF CloseTracked
  <2>2. booked[target[t]] = 0
    <3>1. booked[target[t]] \in Nat /\ booked[target[t]] <= 1
      BY <2>1
    <3>2. booked[target[t]] # 1
      BY <2>1
    <3> HIDE DEF TypeOK, Placed, AtHand, Settled, BookedOnce
    <3> QED
      BY <3>1, <3>2
  <2>3. \A u \in Tasks : pc[u] \in Settling => target[u] # target[t]
    BY <2>1
  <2> QED
    BY <2>1, <2>2, <2>3
<1>8. ASSUME NEW t \in Tasks, CloseUnsaved(t) \/ CloseMissing(t)
      PROVE  Settled'
  BY <1>8 DEF CloseUnsaved, CloseMissing, Leave
<1>9. ASSUME NEW t \in Tasks, ReadOwner(t) \/ DeleteKey(t) \/ ReleaseFails(t)
      PROVE  Settled'
  BY <1>9 DEF ReadOwner, DeleteKey, Delete, ReleaseFails, Released, Held
<1>10. ASSUME NEW t \in Tasks, Book(t)
      PROVE  Settled'
  BY <1>10 DEF Book, Leave
<1>11. ASSUME NEW p \in Calls,
             CheckPosition(p) \/ Trigger(p) \/ OperatorCloses(p)
      PROVE  Settled'
  BY <1>11 DEF CheckPosition, Trigger, OperatorCloses
<1>12. CASE NoTrigger \/ Stop \/ StopLoop \/ Restart
  BY <1>12 DEF NoTrigger, Stop, StopLoop, Restart, Leave
<1>13. CASE Tick \/ UNCHANGED vars
  BY <1>13 DEF Tick, RegistryTick, vars
<1> QED
  BY <1>1, <1>2, <1>3, <1>4, <1>5, <1>6, <1>7, <1>8, <1>9, <1>10, <1>11, <1>12,
     <1>13 DEF Next, CallStep, CloseStep

(* Keys change hands one symbol at a time. *)
LEMMA KeysStep ==
  ASSUME TypeOK, Keys, [Next]_vars
  PROVE  Keys'
<1> USE OrchestratorAssumption, RegistryAssumption
    DEF OrchestratorAssumption, RegistryAssumption, TypeOK, RegistryTypeOK, Calls,
        Tasks, Busy, Free, Settling, setup, books, clocks, history,
        registryVars, Goto, InFlight, Keys
<1>1. ASSUME NEW c \in Calls, Throttled(c) \/ Begin(c) \/ Refused(c)
      PROVE  Keys'
  BY <1>1 DEF Throttled, Begin, Refused
<1>2. ASSUME NEW c \in Calls, NoPosition(c) \/ ToClose(c)
      PROVE  Keys'
  BY <1>2 DEF NoPosition, ToClose, Open
<1>3. ASSUME NEW c \in Calls, LockPosition(c)
      PROVE  Keys'
  BY <1>3 DEF LockPosition, Leave
<1>4. ASSUME NEW c \in Calls,
             AcquireSymbol(c) \/ SymbolTaken(c) \/ AcquireFails(c)
      PROVE  Keys'
  BY <1>4 DEF AcquireSymbol, SymbolTaken, AcquireFails, SetIfFree
<1>5. ASSUME NEW c \in Calls, OrderRaises(c) \/ Filled(c) \/ NotFilled(c)
      PROVE  Keys'
  BY <1>5 DEF OrderRaises, Filled, NotFilled
<1>6. ASSUME NEW t \in Tasks,
             CloseTracked(t) \/ CloseUnsaved(t) \/ CloseMissing(t)
      PROVE  Keys'
  BY <1>6 DEF CloseTracked, CloseUnsaved, CloseMissing, Leave
<1>7. ASSUME NEW t \in Tasks, ReadOwner(t) \/ DeleteKey(t) \/ ReleaseFails(t)
      PROVE  Keys'
  BY <1>7 DEF ReadOwner, DeleteKey, Delete, ReleaseFails, Released, Held
<1>8. ASSUME NEW t \in Tasks, Book(t)
      PROVE  Keys'
  BY <1>8 DEF Book, Leave
<1>9. ASSUME NEW p \in Calls,
             CheckPosition(p) \/ Trigger(p) \/ OperatorCloses(p)
      PROVE  Keys'
  BY <1>9 DEF CheckPosition, Trigger, OperatorCloses
<1>10. CASE NoTrigger \/ Stop \/ StopLoop \/ Restart
  BY <1>10 DEF NoTrigger, Stop, StopLoop, Restart, Leave
<1>11. CASE Tick \/ UNCHANGED vars
  BY <1>11 DEF Tick, RegistryTick, vars
<1> QED
  BY <1>1, <1>2, <1>3, <1>4, <1>5, <1>6, <1>7, <1>8, <1>9, <1>10, <1>11 DEF Next,
     CallStep, CloseStep

(* A task books what it settles, and settles what it has closed. *)
LEMMA BookedStep ==
  ASSUME TypeOK, Placed, AtHand, Settled, BookedOnce, [Next]_vars
  PROVE  BookedOnce'
<1> USE OrchestratorAssumption, RegistryAssumption
    DEF OrchestratorAssumption, RegistryAssumption, TypeOK, RegistryTypeOK, Calls,
        Tasks, Busy, Free, Settling, setup, books, clocks, history,
        registryVars, Goto, InFlight, Placed, AtHand, Settled, BookedOnce
<1>1. ASSUME NEW c \in Calls, Throttled(c) \/ Begin(c) \/ Refused(c)
      PROVE  BookedOnce'
  BY <1>1 DEF Throttled, Begin, Refused
<1>2. ASSUME NEW c \in Calls, NoPosition(c)
      PROVE  BookedOnce'
  BY <1>2 DEF NoPosition
<1>3. ASSUME NEW c \in Calls, ToClose(c)
      PROVE  BookedOnce'
  BY <1>3 DEF ToClose, Open
<1>4. ASSUME NEW c \in Calls, LockPosition(c)
      PROVE  BookedOnce'
  BY <1>4 DEF LockPosition, Leave
<1>5. ASSUME NEW c \in Calls,
             AcquireSymbol(c) \/ SymbolTaken(c) \/ AcquireFails(c)
      PROVE  BookedOnce'
  BY <1>5 DEF AcquireSymbol, SymbolTaken, AcquireFails, SetIfFree
<1>6. ASSUME NEW c \in Calls, OrderRaises(c) \/ Filled(c) \/ NotFilled(c)
      PROVE  BookedOnce'
  BY <1>6 DEF OrderRaises, Filled, NotFilled
<1>7. ASSUME NEW t \in Tasks,
             CloseTracked(t) \/ CloseUnsaved(t) \/ CloseMissing(t)
      PROVE  BookedOnce'
  BY <1>7 DEF CloseTracked, CloseUnsaved, CloseMissing, Leave
<1>8. ASSUME NEW t \in Tasks, ReadOwner(t) \/ DeleteKey(t) \/ ReleaseFails(t)
      PROVE  BookedOnce'
  BY <1>8 DEF ReadOwner, DeleteKey, Delete, ReleaseFails, Released, Held
<1>9. ASSUME NEW t \in Tasks, Book(t)
      PROVE  BookedOnce'
  BY <1>9 DEF Book, Leave
<1>10. ASSUME NEW p \in Calls,
             CheckPosition(p) \/ Trigger(p) \/ OperatorCloses(p)
      PROVE  BookedOnce'
  BY <1>10 DEF CheckPosition, Trigger, OperatorCloses
<1>11. CASE NoTrigger \/ StopLoop
  <2>1. \A p \in Calls :
          /\ booked'[p] <= 1
          /\ booked'[p] = 1 => position'[p] = "closed"
    BY <1>11 DEF NoTrigger, StopLoop, Leave
  <2>2. ASSUME NEW p \in Calls,
               position'[p] = "closed", booked'[p] # 1, p \notin troubled'
        PROVE  \E u \in Tasks : pc'[u] \in Settling /\ target'[u] = p
    <3>1. position[p] = "closed" /\ booked[p] # 1 /\ p \notin troubled
      BY <1>11, <2>2 DEF NoTrigger, StopLoop, Leave
    <3>2. PICK u \in Tasks : pc[u] \in Settling /\ target[u] = p
      BY <3>1
    <3>3. pc'[u] \in Settling /\ target'[u] = p
      BY <1>11, <2>2, <3>1, <3>2 DEF NoTrigger, StopLoop, Leave
    <3> QED
      BY <3>3
  <2> QED
    BY <2>1, <2>2
<1>12. CASE Stop \/ Restart
  BY <1>12 DEF Stop, Restart
<1>13. CASE Tick \/ UNCHANGED vars
  BY <1>13 DEF Tick, RegistryTick, vars
<1> QED
  BY <1>1, <1>2, <1>3, <1>4, <1>5, <1>6, <1>7, <1>8, <1>9, <1>10, <1>11, <1>12,
     <1>13 DEF Next, CallStep, CloseStep

(* Whatever ends a call's work passes its key on to a task that releases   *)
(* it, or leaves the call troubled.                                        *)
LEMMA HeldStep ==
  ASSUME TypeOK, Placed, AtHand, Keys, HeldForReason, [Next]_vars
  PROVE  HeldForReason'
<1> USE OrchestratorAssumption, RegistryAssumption
    DEF OrchestratorAssumption, RegistryAssumption, TypeOK, RegistryTypeOK, Calls,
        Tasks, Busy, Free, Settling, setup, books, clocks, history,
        registryVars, Goto, InFlight, Placed, AtHand, Keys, HeldForReason
<1>1. ASSUME NEW c \in Calls, Throttled(c) \/ Begin(c) \/ Refused(c)
      PROVE  HeldForReason'
  BY <1>1 DEF Throttled, Begin, Refused
<1>2. ASSUME NEW c \in Calls, NoPosition(c) \/ ToClose(c)
      PROVE  HeldForReason'
  BY <1>2 DEF NoPosition, ToClose, Open
<1>3. ASSUME NEW c \in Calls, LockPosition(c)
      PROVE  HeldForReason'
  BY <1>3 DEF LockPosition, Leave
<1>4. ASSUME NEW c \in Calls,
             AcquireSymbol(c) \/ SymbolTaken(c) \/ AcquireFails(c)
      PROVE  HeldForReason'
  BY <1>4 DEF AcquireSymbol, SymbolTaken, AcquireFails, SetIfFree
<1>5. ASSUME NEW c \in Calls, OrderRaises(c) \/ Filled(c) \/ NotFilled(c)
      PROVE  HeldForReason'
  BY <1>5 DEF OrderRaises, Filled, NotFilled
<1>6. ASSUME NEW t \in Tasks,
             CloseTracked(t) \/ CloseUnsaved(t) \/ CloseMissing(t)
      PROVE  HeldForReason'
  BY <1>6 DEF CloseTracked, CloseUnsaved, CloseMissing, Leave
<1>7. ASSUME NEW t \in Tasks, ReadOwner(t) \/ DeleteKey(t) \/ ReleaseFails(t)
      PROVE  HeldForReason'
  BY <1>7 DEF ReadOwner, DeleteKey, Delete, ReleaseFails, Released, Held
<1>8. ASSUME NEW t \in Tasks, Book(t)
      PROVE  HeldForReason'
  BY <1>8 DEF Book, Leave
<1>9. ASSUME NEW p \in Calls,
             CheckPosition(p) \/ Trigger(p) \/ OperatorCloses(p)
      PROVE  HeldForReason'
  BY <1>9 DEF CheckPosition, Trigger, OperatorCloses
<1>10. CASE NoTrigger \/ Stop \/ StopLoop \/ Restart
  BY <1>10 DEF NoTrigger, Stop, StopLoop, Restart, Leave
<1>11. CASE Tick \/ UNCHANGED vars
  BY <1>11 DEF Tick, RegistryTick, vars
<1> QED
  BY <1>1, <1>2, <1>3, <1>4, <1>5, <1>6, <1>7, <1>8, <1>9, <1>10, <1>11 DEF Next,
     CallStep, CloseStep

(* The processing loop, or the interval, keeps signals of a symbol apart.  *)
LEMMA ExclusiveStep ==
  ASSUME TypeOK, Exclusive, [Next]_vars
  PROVE  Exclusive'
<1> USE OrchestratorAssumption, RegistryAssumption
    DEF OrchestratorAssumption, RegistryAssumption, TypeOK, RegistryTypeOK, Calls,
        Tasks, Busy, Free, Settling, setup, books, clocks, history,
        registryVars, Goto, InFlight, Exclusive, OneByOne
<1>1. ASSUME NEW c \in Calls, Throttled(c) \/ Begin(c) \/ Refused(c)
      PROVE  Exclusive'
  BY <1>1 DEF Throttled, Begin, Refused
<1>2. ASSUME NEW c \in Calls, NoPosition(c) \/ ToClose(c)
      PROVE  Exclusive'
  BY <1>2 DEF NoPosition, ToClose, Open
<1>3. ASSUME NEW c \in Calls, LockPosition(c)
      PROVE  Exclusive'
  BY <1>3 DEF LockPosition, Leave
<1>4. ASSUME NEW c \in Calls,
             AcquireSymbol(c) \/ SymbolTaken(c) \/ AcquireFails(c)
      PROVE  Exclusive'
  BY <1>4 DEF AcquireSymbol, SymbolTaken, AcquireFails, SetIfFree
<1>5. ASSUME NEW c \in Calls, OrderRaises(c) \/ Filled(c) \/ NotFilled(c)
      PROVE  Exclusive'
  BY <1>5 DEF OrderRaises, Filled, NotFilled
<1>6. ASSUME NEW t \in Tasks,
             CloseTracked(t) \/ CloseUnsaved(t) \/ CloseMissing(t)
      PROVE  Exclusive'
  BY <1>6 DEF CloseTracked, CloseUnsaved, CloseMissing, Leave
<1>7. ASSUME NEW t \in Tasks, ReadOwner(t) \/ ReleaseFails(t)
      PROVE  Exclusive'
  BY <1>7 DEF ReadOwner, ReleaseFails, Released, Held
<1>8. ASSUME NEW t \in Tasks, DeleteKey(t)
      PROVE  Exclusive'
  BY <1>8 DEF DeleteKey, Delete, Released
<1>9. ASSUME NEW t \in Tasks, Book(t)
      PROVE  Exclusive'
  BY <1>9 DEF Book, Leave
<1>10. ASSUME NEW p \in Calls,
             CheckPosition(p) \/ Trigger(p) \/ OperatorCloses(p)
      PROVE  Exclusive'
  BY <1>10 DEF CheckPosition, Trigger, OperatorCloses
<1>11. CASE NoTrigger \/ Stop \/ StopLoop \/ Restart
  BY <1>11 DEF NoTrigger, Stop, StopLoop, Restart, Leave
<1>12. CASE Tick
  BY <1>12 DEF Tick, RegistryTick
<1>13. CASE UNCHANGED vars
  BY <1>13 DEF vars
<1> QED
  BY <1>1, <1>2, <1>3, <1>4, <1>5, <1>6, <1>7, <1>8, <1>9, <1>10, <1>11, <1>12,
     <1>13 DEF Next, CallStep, CloseStep

(* Then nothing comes into the way of a call that has passed the check.    *)
LEMMA ClearedStep ==
  ASSUME TypeOK, Placed, AtHand, Exclusive, Cleared, OnePositionPerSymbol,
         [Next]_vars
  PROVE  Cleared'
<1> USE OrchestratorAssumption, RegistryAssumption
    DEF OrchestratorAssumption, RegistryAssumption, TypeOK, RegistryTypeOK, Calls,
        Tasks, Busy, Free, Settling, setup, books, clocks, history,
        registryVars, Goto, InFlight, Placed, AtHand, Exclusive, Cleared,
        OneByOne, MayOpen, InTheWay, OnePositionPerSymbol
<1>1. ASSUME NEW c \in Calls, Throttled(c) \/ Begin(c) \/ Refused(c)
      PROVE  Cleared'
  BY <1>1 DEF Throttled, Begin, Refused
<1>2. ASSUME NEW c \in Calls, NoPosition(c) \/ ToClose(c)
      PROVE  Cleared'
  BY <1>2 DEF NoPosition, ToClose, Open
<1>3. ASSUME NEW c \in Calls, LockPosition(c)
      PROVE  Cleared'
  BY <1>3 DEF LockPosition, Leave
<1>4. ASSUME NEW c \in Calls,
             AcquireSymbol(c) \/ SymbolTaken(c) \/ AcquireFails(c)
      PROVE  Cleared'
  BY <1>4 DEF AcquireSymbol, SymbolTaken, AcquireFails, SetIfFree
<1>5. ASSUME NEW c \in Calls, OrderRaises(c) \/ Filled(c) \/ NotFilled(c)
      PROVE  Cleared'
  BY <1>5 DEF OrderRaises, Filled, NotFilled
<1>6. ASSUME NEW t \in Tasks,
             CloseTracked(t) \/ CloseUnsaved(t) \/ CloseMissing(t)
      PROVE  Cleared'
  BY <1>6 DEF CloseTracked, CloseUnsaved, CloseMissing, Leave
<1>7. ASSUME NEW t \in Tasks, ReadOwner(t) \/ DeleteKey(t) \/ ReleaseFails(t)
      PROVE  Cleared'
  BY <1>7 DEF ReadOwner, DeleteKey, Delete, ReleaseFails, Released, Held
<1>8. ASSUME NEW t \in Tasks, Book(t)
      PROVE  Cleared'
  BY <1>8 DEF Book, Leave
<1>9. ASSUME NEW p \in Calls,
             CheckPosition(p) \/ Trigger(p) \/ OperatorCloses(p)
      PROVE  Cleared'
  BY <1>9 DEF CheckPosition, Trigger, OperatorCloses
<1>10. CASE NoTrigger \/ Stop \/ StopLoop \/ Restart
  BY <1>10 DEF NoTrigger, Stop, StopLoop, Restart, Leave
<1>11. CASE Tick \/ UNCHANGED vars
  BY <1>11 DEF Tick, RegistryTick, vars
<1> QED
  BY <1>1, <1>2, <1>3, <1>4, <1>5, <1>6, <1>7, <1>8, <1>9, <1>10, <1>11 DEF Next,
     CallStep, CloseStep

(* With the registry, something may; but it has the symbol, for longer than*)
(* the call lasts, and only DEL can take it away early.                    *)
LEMMA KeptStep ==
  ASSUME TypeOK, Placed, AtHand, Keys, Kept, OnePositionPerSymbol, [Next]_vars
  PROVE  Kept'
<1> USE OrchestratorAssumption, RegistryAssumption
    DEF OrchestratorAssumption, RegistryAssumption, TypeOK, RegistryTypeOK, Calls,
        Tasks, Busy, Free, Settling, setup, books, clocks, history,
        registryVars, Goto, InFlight, Placed, AtHand, Keys, Kept, Guarded,
        OneByOne, MayOpen, InTheWay, OnePositionPerSymbol
<1>1. ASSUME NEW c \in Calls, Throttled(c) \/ Begin(c) \/ Refused(c)
      PROVE  Kept'
  BY <1>1 DEF Throttled, Begin, Refused
<1>2. ASSUME NEW c \in Calls, NoPosition(c) \/ ToClose(c)
      PROVE  Kept'
  BY <1>2 DEF NoPosition, ToClose, Open
<1>3. ASSUME NEW c \in Calls, LockPosition(c)
      PROVE  Kept'
  BY <1>3 DEF LockPosition, Leave
<1>4. ASSUME NEW c \in Calls,
             AcquireSymbol(c) \/ SymbolTaken(c) \/ AcquireFails(c)
      PROVE  Kept'
  BY <1>4 DEF AcquireSymbol, SymbolTaken, AcquireFails, SetIfFree
<1>5. ASSUME NEW c \in Calls, OrderRaises(c) \/ Filled(c) \/ NotFilled(c)
      PROVE  Kept'
  BY <1>5 DEF OrderRaises, Filled, NotFilled
<1>6. ASSUME NEW t \in Tasks,
             CloseTracked(t) \/ CloseUnsaved(t) \/ CloseMissing(t)
      PROVE  Kept'
  BY <1>6 DEF CloseTracked, CloseUnsaved, CloseMissing, Leave
<1>7. ASSUME NEW t \in Tasks, ReadOwner(t) \/ DeleteKey(t) \/ ReleaseFails(t)
      PROVE  Kept'
  BY <1>7 DEF ReadOwner, DeleteKey, Delete, ReleaseFails, Released, Held
<1>8. ASSUME NEW t \in Tasks, Book(t)
      PROVE  Kept'
  BY <1>8 DEF Book, Leave
<1>9. ASSUME NEW p \in Calls,
             CheckPosition(p) \/ Trigger(p) \/ OperatorCloses(p)
      PROVE  Kept'
  BY <1>9 DEF CheckPosition, Trigger, OperatorCloses
<1>10. CASE NoTrigger \/ Stop \/ StopLoop \/ Restart
  BY <1>10 DEF NoTrigger, Stop, StopLoop, Restart, Leave
<1>11. CASE Tick
  BY <1>11 DEF Tick, RegistryTick
<1>12. CASE UNCHANGED vars
  BY <1>12 DEF vars
<1> QED
  BY <1>1, <1>2, <1>3, <1>4, <1>5, <1>6, <1>7, <1>8, <1>9, <1>10, <1>11, <1>12
     DEF Next, CallStep, CloseStep

(* Either way a call that places its order has nothing in its way.         *)
LEMMA OnePositionStep ==
  ASSUME TypeOK, Placed, Cleared, Kept, OnePositionPerSymbol, [Next]_vars
  PROVE  OnePositionPerSymbol'
<1> USE OrchestratorAssumption, RegistryAssumption
    DEF OrchestratorAssumption, RegistryAssumption, TypeOK, RegistryTypeOK, Calls,
        Tasks, Busy, Free, Settling, setup, books, clocks, history,
        registryVars, Goto, InFlight, Placed, Cleared, Kept, Guarded, OneByOne,
        MayOpen, InTheWay, OnePositionPerSymbol
<1>1. ASSUME NEW c \in Calls, Throttled(c) \/ Begin(c) \/ Refused(c)
      PROVE  OnePositionPerSymbol'
  BY <1>1 DEF Throttled, Begin, Refused
<1>2. ASSUME NEW c \in Calls, NoPosition(c) \/ ToClose(c)
      PROVE  OnePositionPerSymbol'
  BY <1>2 DEF NoPosition, ToClose, Open
<1>3. ASSUME NEW c \in Calls, LockPosition(c)
      PROVE  OnePositionPerSymbol'
  BY <1>3 DEF LockPosition, Leave
<1>4. ASSUME NEW c \in Calls,
             AcquireSymbol(c) \/ SymbolTaken(c) \/ AcquireFails(c)
      PROVE  OnePositionPerSymbol'
  BY <1>4 DEF AcquireSymbol, SymbolTaken, AcquireFails, SetIfFree
<1>5. ASSUME NEW c \in Calls, OrderRaises(c) \/ Filled(c) \/ NotFilled(c)
      PROVE  OnePositionPerSymbol'
  BY <1>5 DEF OrderRaises, Filled, NotFilled
<1>6. ASSUME NEW t \in Tasks,
             CloseTracked(t) \/ CloseUnsaved(t) \/ CloseMissing(t)
      PROVE  OnePositionPerSymbol'
  BY <1>6 DEF CloseTracked, CloseUnsaved, CloseMissing, Leave
<1>7. ASSUME NEW t \in Tasks, ReadOwner(t) \/ DeleteKey(t) \/ ReleaseFails(t)
      PROVE  OnePositionPerSymbol'
  BY <1>7 DEF ReadOwner, DeleteKey, Delete, ReleaseFails, Released, Held
<1>8. ASSUME NEW t \in Tasks, Book(t)
      PROVE  OnePositionPerSymbol'
  BY <1>8 DEF Book, Leave
<1>9. ASSUME NEW p \in Calls,
             CheckPosition(p) \/ Trigger(p) \/ OperatorCloses(p)
      PROVE  OnePositionPerSymbol'
  BY <1>9 DEF CheckPosition, Trigger, OperatorCloses
<1>10. CASE NoTrigger \/ Stop \/ StopLoop \/ Restart
  BY <1>10 DEF NoTrigger, Stop, StopLoop, Restart, Leave
<1>11. CASE Tick \/ UNCHANGED vars
  BY <1>11 DEF Tick, RegistryTick, vars
<1> QED
  BY <1>1, <1>2, <1>3, <1>4, <1>5, <1>6, <1>7, <1>8, <1>9, <1>10, <1>11 DEF Next,
     CallStep, CloseStep

-----------------------------------------------------------------------------
(* The invariant and the theorems. *)

LEMMA InvariantHolds == Spec => []IInv
<1> USE DEF IInv, Books, Exclusion
<1>1. Init => IInv
  BY OrchestratorAssumption, RegistryAssumption
     DEF Init, RegistryInit, TypeOK, RegistryTypeOK, Placed, AtHand, Settled,
         Keys, BookedOnce, Exclusive, OneByOne, Cleared, InTheWay, MayOpen,
         Kept, OnePositionPerSymbol, HeldForReason, InFlight, Calls, Tasks,
         Busy, Free, Settling, OrchestratorAssumption, RegistryAssumption
<1>2. ASSUME IInv, [Next]_vars
      PROVE  IInv'
  <2>1. TypeOK' /\ Placed' /\ AtHand' /\ Keys'
    BY <1>2, TypeStep, AtHandStep, KeysStep
  <2>2. Settled' /\ BookedOnce' /\ HeldForReason'
    BY <1>2, SettledStep, BookedStep, HeldStep
  <2>3. Exclusive' /\ Cleared' /\ Kept' /\ OnePositionPerSymbol'
    BY <1>2, ExclusiveStep, ClearedStep, KeptStep, OnePositionStep
  <2> QED
    BY <2>1, <2>2, <2>3
<1> QED
  BY <1>1, <1>2, PTL DEF Spec

(* The orchestrator, its tracker and the registry stay within their types, *)
(* and a task has a position at hand exactly where the code has one.       *)
THEOREM TypeCorrect == Spec => []TypeOK
<1>1. IInv => TypeOK
  BY DEF IInv, Books
<1> QED
  BY <1>1, InvariantHolds, PTL

(* For any numbers of signals and symbols, each of the three guards keeps a*)
(* symbol to one open position, if a process_signal call takes less than   *)
(* the interval and less than half of the key's life.                      *)
THEOREM OnePosition == Spec => []OnePositionPerSymbol
<1>1. IInv => OnePositionPerSymbol
  BY DEF IInv, Exclusion
<1> QED
  BY <1>1, InvariantHolds, PTL

(* Whoever closes a position, its profit joins the portfolio value once,   *)
(* after the close, and is lost only when the close is interrupted.        *)
THEOREM ProfitsBooked == Spec => []BookedOnce
<1>1. IInv => BookedOnce
  BY DEF IInv, Books
<1> QED
  BY <1>1, InvariantHolds, PTL

(* A symbol's key always has a reason that ends with its owner's work, or a*)
(* failure that explains it.                                               *)
THEOREM KeysHaveReason == Spec => []HeldForReason
<1>1. IInv => HeldForReason
  BY DEF IInv
<1> QED
  BY <1>1, InvariantHolds, PTL

-----------------------------------------------------------------------------
(***************************************************************************)
(* The refinement of PositionBook.  What matters of a step is which phases *)
(* it changes, and a phase depends on who is settling the position.        *)
(***************************************************************************)

SettledBySome(p) == \E t \in Tasks : pc[t] \in Settling /\ target[t] = p

(* A step that changes nothing the phase of p is read from keeps it.       *)
LEMMA PhaseKept ==
  ASSUME TypeOK, NEW p \in Calls,
         position'[p] = position[p], booked'[p] = booked[p],
         position[p] = "closed" => (SettledBySome(p)' <=> SettledBySome(p))
  PROVE  Phase(p)' = Phase(p)
<1>1. CASE position[p] = "closed" /\ SettledBySome(p)
  BY <1>1 DEF Phase, SettledBySome
<1>2. CASE position[p] = "closed" /\ ~SettledBySome(p)
  BY <1>2 DEF Phase, SettledBySome
<1>3. CASE position[p] # "closed"
  BY <1>3 DEF Phase, TypeOK
<1> QED
  BY <1>1, <1>2, <1>3

(* Under the invariant the phases are read off the state as follows.       *)
LEMMA PhaseRead ==
  ASSUME Books, NEW p \in Calls
  PROVE  /\ Phase(p) = "none" <=> position[p] = "none"
         /\ Phase(p) = "open" <=> position[p] = "open"
         /\ Phase(p) = "owed" <=>
              position[p] = "closed" /\ booked[p] = 0 /\ SettledBySome(p)
         /\ Phase(p) = "booked" <=> position[p] = "closed" /\ booked[p] = 1
         /\ Phase(p) = "lost" <=>
              \/ position[p] = "forgotten"
              \/ position[p] = "closed" /\ booked[p] = 0 /\ ~SettledBySome(p)
<1>1. booked[p] \in Nat /\ booked[p] <= 1
  BY DEF Books, TypeOK, BookedOnce
<1>2. booked[p] \in {0, 1}
  BY <1>1
<1>3. position[p] \in {"none", "open", "closed", "forgotten"}
  BY DEF Books, TypeOK
<1>4. SettledBySome(p) => booked[p] = 0
  BY DEF Books, Settled, SettledBySome
<1> QED
  BY <1>2, <1>3, <1>4 DEF Phase, SettledBySome

(* A position that is not booked is open, or nobody's, or being settled.   *)
LEMMA OpenUnbooked ==
  ASSUME Books, NEW p \in Calls, position[p] # "closed"
  PROVE  booked[p] = 0
<1>1. booked[p] \in Nat /\ booked[p] <= 1 /\ booked[p] # 1
  BY DEF Books, TypeOK, BookedOnce
<1> QED
  BY <1>1

(* How the phases of a step make it a step of the book.                    *)
Quiet == \A p \in Calls : Phase(p)' = Phase(p)

Moves(q, from, to) ==
  /\ Phase(q) = from /\ Phase(q)' = to
  /\ \A p \in Calls \ {q} : Phase(p)' = Phase(p)

Loses ==
  \A p \in Calls :
    Phase(p)' = Phase(p)
      \/ (Phase(p) \in {"open", "owed"} /\ p \in troubled' /\ Phase(p)' = "lost")

LEMMA QuietStutters ==
  ASSUME Quiet, UNCHANGED <<token, Exclusives, troubled>>
  PROVE  UNCHANGED PB!vars
BY DEF Quiet, PB!vars

LEMMA QuietExposes ==
  ASSUME Quiet, UNCHANGED <<token, troubled>>, Exclusives' \subseteq Exclusives
  PROVE  PB!Next
BY DEF Quiet, PB!Next, PB!Expose

LEMMA MovesMap ==
  ASSUME NEW q \in Calls, NEW from, NEW to, Moves(q, from, to),
         UNCHANGED <<token, Exclusives, troubled>>
  PROVE  PB!Move(q, from, to)
BY DEF Moves, PB!Move

LEMMA LosesMaps ==
  ASSUME Loses, UNCHANGED <<token, Exclusives>>, troubled \subseteq troubled'
  PROVE  PB!Next
<1> DEFINE lost == {p \in Calls : Phase(p)' # Phase(p)}
<1>1. lost \in SUBSET (PB!Losable \cap troubled')
  BY DEF Loses, PB!Losable
<1>2. [p \in Calls |-> Phase(p)]'
        = [p \in Calls |-> IF p \in lost THEN "lost"
                           ELSE [q \in Calls |-> Phase(q)][p]]
  BY DEF Loses
<1> HIDE DEF lost
<1>3. PB!Interrupt
  BY <1>1, <1>2 DEF PB!Interrupt
<1> QED
  BY <1>3 DEF PB!Next

(* Steps that move no position and settle none are quiet.                  *)
LEMMA QuietSteps ==
  ASSUME Books, NEW c \in Calls,
         \/ Throttled(c) \/ Begin(c) \/ Refused(c) \/ NoPosition(c)
         \/ ToClose(c) \/ LockPosition(c) \/ AcquireSymbol(c)
         \/ SymbolTaken(c) \/ AcquireFails(c) \/ OrderRaises(c)
         \/ NotFilled(c) \/ CheckPosition(c) \/ Trigger(c)
         \/ OperatorCloses(c)
  PROVE  Quiet
<1>1. UNCHANGED <<position, booked>>
  BY DEF Throttled, Begin, Refused, NoPosition, ToClose, LockPosition,
         AcquireSymbol, SymbolTaken, AcquireFails, OrderRaises, NotFilled,
         CheckPosition, Trigger, OperatorCloses, books
<1>2. ASSUME NEW p \in Calls, position[p] = "closed"
      PROVE  SettledBySome(p)' <=> SettledBySome(p)
  <2> USE OrchestratorAssumption
      DEF OrchestratorAssumption, Books, TypeOK, Placed, Calls, Tasks, Busy,
          Free, Settling, Goto, SettledBySome
  <2>1. CASE \/ Throttled(c) \/ Begin(c) \/ Refused(c) \/ NoPosition(c)
             \/ ToClose(c) \/ AcquireSymbol(c) \/ SymbolTaken(c)
             \/ AcquireFails(c) \/ OrderRaises(c)
    BY <1>2, <2>1 DEF Throttled, Begin, Refused, NoPosition, ToClose,
       AcquireSymbol, SymbolTaken, AcquireFails, OrderRaises
  <2>2. CASE LockPosition(c)
    BY <1>2, <2>2 DEF LockPosition, Leave
  <2>3. CASE NotFilled(c)
    BY <1>2, <2>3 DEF NotFilled
  <2>4. CASE CheckPosition(c) \/ Trigger(c) \/ OperatorCloses(c)
    BY <1>2, <2>4 DEF CheckPosition, Trigger, OperatorCloses
  <2> QED
    BY <2>1, <2>2, <2>3, <2>4
<1> QED
  BY <1>1, <1>2, PhaseKept DEF Quiet, Books

(* So are those by which a task turns away from a position it has not      *)
(* closed, and those of a release before the booking.                      *)
LEMMA QuietCloses ==
  ASSUME Books, NEW t \in Tasks,
         CloseMissing(t) \/ ReadOwner(t) \/ DeleteKey(t) \/ ReleaseFails(t)
  PROVE  Quiet
<1>1. UNCHANGED <<position, booked>>
  BY DEF CloseMissing, ReadOwner, DeleteKey, ReleaseFails, books
<1>2. ASSUME NEW p \in Calls, position[p] = "closed"
      PROVE  SettledBySome(p)' <=> SettledBySome(p)
  <2> USE DEF Books, TypeOK, Placed, AtHand, Tasks, Busy, Free, Settling,
              Goto, SettledBySome
  <2>1. CASE CloseMissing(t)
    BY <1>2, <2>1 DEF CloseMissing, Leave
  <2>2. CASE ReadOwner(t)
    BY <1>2, <2>2 DEF ReadOwner, Released
  <2>3. CASE DeleteKey(t)
    BY <1>2, <2>3 DEF DeleteKey, Released
  <2>4. CASE ReleaseFails(t)
    BY <1>2, <2>4 DEF ReleaseFails, Released
  <2> QED
    BY <2>1, <2>2, <2>3, <2>4
<1> QED
  BY <1>1, <1>2, PhaseKept DEF Quiet, Books

(* A filled order moves its call's position from "none" to "open", on a    *)
(* symbol where no other one is open as long as a guard keeps it.          *)
LEMMA FilledOpens ==
  ASSUME IInv, Books', NEW c \in Calls, Filled(c)
  PROVE  PB!Open(c)
<1>1. /\ position[c] = "none" /\ position'[c] = "open"
      /\ UNCHANGED <<booked, token, deployed, exposed, troubled>>
      /\ \A p \in Calls \ {c} : position'[p] = position[p]
  BY DEF Filled, IInv, Books, TypeOK, Placed, setup, history
<1>2. \A p \in Calls : SettledBySome(p)' <=> SettledBySome(p)
  BY OrchestratorAssumption
     DEF OrchestratorAssumption, Filled, IInv, Books, TypeOK, Calls, Tasks,
         Busy, Free, Settling, Goto, SettledBySome
<1>3. Moves(c, "none", "open")
  <2>1. Phase(c) = "none" /\ Phase(c)' = "open"
    BY <1>1 DEF Phase
  <2>2. \A p \in Calls \ {c} : Phase(p)' = Phase(p)
    BY <1>1, <1>2, PhaseKept DEF IInv, Books
  <2> QED
    BY <2>1, <2>2 DEF Moves
<1>4. UNCHANGED Exclusives
  BY <1>1 DEF Exclusives
<1>5. ASSUME token[c] \in Exclusives
      PROVE  PB!OpenOn(token[c]) = {}
  <2>1. ASSUME NEW p \in Calls, position[p] = "open", token[p] = token[c]
        PROVE  FALSE
    <3>1. InTheWay(p, c)
      BY <2>1 DEF InTheWay, MayOpen, Filled
    <3>2. pc[c] = "placing" /\ token[c] \in Symbols
      BY DEF Filled, IInv, Books, TypeOK
    <3>3. ~OneByOne
      BY <3>1 DEF IInv, Exclusion, Cleared
    <3>4. Guarded(token[c])
      BY <1>5, <3>2, <3>3 DEF Exclusives, OneByOne, Guarded
    <3>5. owner[token[c]] = c /\ owner[token[c]] = p
      BY <3>1, <3>2, <3>4 DEF IInv, Exclusion, Kept
    <3> QED
      BY <1>1, <2>1, <3>5
  <2>2. \A p \in Calls : Phase(p) = "open" => position[p] = "open"
    BY PhaseRead DEF IInv
  <2> QED
    BY <2>1, <2>2 DEF PB!OpenOn
<1> QED
  BY <1>1, <1>3, <1>4, <1>5, MovesMap DEF PB!Open

(* The tracker's move of a position to the closed ones is the close of the *)
(* book: its taker settles it, and nobody else does.                       *)
LEMMA TrackedCloses ==
  ASSUME Books, NEW t \in Tasks, NEW q \in Calls, target[t] = q,
         CloseTracked(t)
  PROVE  PB!Close(q)
<1>1. /\ pc[t] = "closing" /\ target[t] = q
      /\ position[q] = "open" /\ position'[q] = "closed"
      /\ pc'[t] \in Settling
      /\ UNCHANGED <<target, booked, token, deployed, exposed, troubled>>
      /\ \A p \in Calls \ {q} : position'[p] = position[p]
      /\ \A u \in Tasks \ {t} : pc'[u] = pc[u]
  BY DEF CloseTracked, Books, TypeOK, Busy, Settling, Goto, setup, history
<1>2. booked[q] = 0
  BY <1>1, OpenUnbooked
<1>3. Phase(q) = "open" /\ Phase(q)' = "owed"
  BY <1>1, <1>2 DEF Phase
<1>4. ASSUME NEW p \in Calls \ {q}
      PROVE  Phase(p)' = Phase(p)
  <2>1. SettledBySome(p)' <=> SettledBySome(p)
    BY <1>1 DEF SettledBySome
  <2> QED
    BY <1>1, <2>1, PhaseKept DEF Books
<1>5. UNCHANGED Exclusives
  BY <1>1 DEF Exclusives
<1>6. Moves(q, "open", "owed")
  BY <1>3, <1>4 DEF Moves
<1> QED
  BY <1>1, <1>5, <1>6, MovesMap DEF PB!Close

(* The profit is booked by the task that settles the position.             *)
LEMMA BookBooks ==
  ASSUME Books, NEW t \in Tasks, NEW q \in Calls, target[t] = q, Book(t)
  PROVE  PB!Book(q)
<1>1. /\ pc[t] = "book" /\ target[t] = q
      /\ position[q] = "closed" /\ booked[q] = 0
      /\ UNCHANGED <<position, token, deployed, exposed, troubled>>
      /\ booked' = [booked EXCEPT ![q] = @ + 1]
      /\ booked \in [Calls -> Nat]
  BY DEF Book, Books, TypeOK, AtHand, Settled, Busy, Settling, setup, history
<1>2. Phase(q) = "owed" /\ Phase(q)' = "booked"
  BY <1>1 DEF Phase, Settling
<1>3. ASSUME NEW p \in Calls \ {q}
      PROVE  Phase(p)' = Phase(p)
  <2>1. \A u \in Tasks : pc'[u] \in Settling /\ target'[u] = p
                       <=> pc[u] \in Settling /\ target[u] = p
    BY <1>1, OrchestratorAssumption
       DEF OrchestratorAssumption, Book, Leave, Goto, Settling, Books, TypeOK,
           Busy, Calls, Tasks
  <2>2. SettledBySome(p)' <=> SettledBySome(p)
    BY <2>1 DEF SettledBySome
  <2> QED
    BY <1>1, <2>2, PhaseKept DEF Books
<1>4. UNCHANGED Exclusives
  BY <1>1 DEF Exclusives
<1>5. Moves(q, "owed", "booked")
  BY <1>2, <1>3 DEF Moves
<1> QED
  BY <1>1, <1>4, <1>5, MovesMap DEF PB!Book

(* An interruption in time: what it cuts loose is a position or a profit   *)
(* of a call that is troubled from then on.                                *)
LEMMA LostOnlyOwed ==
  ASSUME Books, Books', NEW p \in Calls,
         UNCHANGED booked,
         \/ position'[p] = position[p]
         \/ position[p] = "open" /\ position'[p] \in {"closed", "forgotten"},
         SettledBySome(p)' => SettledBySome(p),
         SettledBySome(p) /\ ~SettledBySome(p)' => p \in troubled',
         position'[p] # position[p] => p \in troubled'
  PROVE  \/ Phase(p)' = Phase(p)
         \/ Phase(p) \in {"open", "owed"} /\ p \in troubled' /\ Phase(p)' = "lost"
<1>1. CASE position'[p] = position[p]
  <2>1. CASE SettledBySome(p)' <=> SettledBySome(p)
    BY <1>1, <2>1, PhaseKept DEF Books
  <2>2. CASE SettledBySome(p) /\ ~SettledBySome(p)'
    <3>1. booked[p] = 0 /\ position[p] \in {"none", "closed"}
      BY <2>2 DEF Books, Settled, AtHand, SettledBySome, TypeOK
    <3>2. p \in troubled'
      BY <2>2
    <3>3. CASE position[p] = "none"
      BY <1>1, <3>3 DEF Phase
    <3>4. CASE position[p] = "closed"
      BY <1>1, <2>2, <3>1, <3>2, <3>4 DEF Phase, SettledBySome
    <3> QED
      BY <3>1, <3>3, <3>4
  <2> QED
    BY <2>1, <2>2
<1>2. CASE position[p] = "open" /\ position'[p] \in {"closed", "forgotten"}
  <2>1. ~SettledBySome(p)
    BY <1>2 DEF Books, AtHand, SettledBySome
  <2>2. booked[p] = 0 /\ ~SettledBySome(p)' /\ p \in troubled'
    BY <1>2, <2>1, OpenUnbooked
  <2>3. Phase(p) = "open"
    BY <1>2 DEF Phase
  <2>4. Phase(p)' = "lost"
    BY <1>2, <2>2 DEF Phase, SettledBySome
  <2> QED
    BY <2>2, <2>3, <2>4
<1> QED
  BY <1>1, <1>2

(* close_position gives up after the tracker's move: its profit is lost.    *)
LEMMA UnsavedInterrupts ==
  ASSUME Books, Books', NEW t \in Tasks, CloseUnsaved(t)
  PROVE  PB!Next
<1>1. /\ target[t] \in Calls /\ pc[t] = "closing"
      /\ position[target[t]] = "open" /\ position'[target[t]] = "closed"
      /\ \A p \in Calls : p # target[t] => position'[p] = position[p]
      /\ troubled' = troubled \cup {target[t]}
      /\ UNCHANGED <<booked, token, deployed, exposed>>
  BY DEF CloseUnsaved, Books, TypeOK, Busy, setup
<1>2. \A p \in Calls : SettledBySome(p)' <=> SettledBySome(p)
  <2>1. \A u \in Tasks : u # t => pc'[u] = pc[u] /\ target'[u] = target[u]
    BY DEF CloseUnsaved, Leave, Goto, Books, TypeOK
  <2>2. pc'[t] \notin Settling /\ pc[t] \notin Settling
    BY DEF CloseUnsaved, Leave, Goto, Settling, Books, TypeOK
  <2> QED
    BY <2>1, <2>2 DEF SettledBySome
<1>3. Loses
  BY <1>1, <1>2, LostOnlyOwed DEF Loses
<1>4. UNCHANGED Exclusives
  BY <1>1 DEF Exclusives
<1> QED
  BY <1>1, <1>3, <1>4, LosesMaps

(* stop() cuts the calls of the queue, and the loop, loose from what they  *)
(* settle.                                                                 *)
LEMMA StopInterrupts ==
  ASSUME Books, Books', Stop \/ StopLoop
  PROVE  PB!Next
<1>1. /\ UNCHANGED <<position, booked, token, deployed, exposed>>
      /\ troubled \subseteq troubled'
  BY DEF Stop, StopLoop, setup, books
<1>2. ASSUME NEW p \in Calls
      PROVE  /\ SettledBySome(p)' => SettledBySome(p)
             /\ SettledBySome(p) /\ ~SettledBySome(p)' => p \in troubled'
  <2> USE <1>2, OrchestratorAssumption
      DEF OrchestratorAssumption, Books, TypeOK, Calls, Tasks, Busy, Free,
          Settling, SettledBySome
  <2>1. CASE Stop
    BY <2>1 DEF Stop
  <2>2. CASE StopLoop
    BY <2>2 DEF StopLoop, Leave, Goto
  <2> QED
    BY <2>1, <2>2
<1>3. Loses
  BY <1>1, <1>2, LostOnlyOwed DEF Loses
<1>4. UNCHANGED Exclusives
  BY <1>1 DEF Exclusives
<1> QED
  BY <1>1, <1>3, <1>4, LosesMaps

(* A restart forgets the open positions and cuts every task loose.         *)
LEMMA RestartInterrupts ==
  ASSUME Books, Books', Restart
  PROVE  PB!Next
<1>1. /\ UNCHANGED <<booked, token, deployed, exposed>>
      /\ troubled \subseteq troubled'
  BY DEF Restart, setup
<1>2. ASSUME NEW p \in Calls
      PROVE  /\ \/ position'[p] = position[p]
                \/ position[p] = "open" /\ position'[p] = "forgotten"
             /\ position'[p] # position[p] => p \in troubled'
             /\ ~SettledBySome(p)'
             /\ SettledBySome(p) => p \in troubled'
  BY <1>2 DEF Restart, SettledBySome, Settling, InFlight, Books, TypeOK
<1>3. Loses
  BY <1>1, <1>2, LostOnlyOwed DEF Loses
<1>4. UNCHANGED Exclusives
  BY <1>1 DEF Exclusives
<1> QED
  BY <1>1, <1>3, <1>4, LosesMaps

(* Every step of the orchestrator is a step of the book, or stutters.      *)
LEMMA BookStep ==
  ASSUME IInv, IInv', [Next]_vars
  PROVE  [PB!Next]_(PB!vars)
<1> USE DEF IInv
<1>1. ASSUME NEW c \in Calls,
             \/ Throttled(c) \/ Begin(c) \/ Refused(c) \/ NoPosition(c)
             \/ ToClose(c) \/ LockPosition(c) \/ AcquireSymbol(c)
             \/ SymbolTaken(c) \/ NotFilled(c) \/ CheckPosition(c)
             \/ Trigger(c) \/ OperatorCloses(c)
      PROVE  UNCHANGED PB!vars
  <2>1. Quiet
    BY <1>1, QuietSteps
  <2>2. UNCHANGED <<token, deployed, exposed, troubled>>
    BY <1>1 DEF Throttled, Begin, Refused, NoPosition, ToClose, LockPosition,
       AcquireSymbol, SymbolTaken, NotFilled, CheckPosition, Trigger,
       OperatorCloses, setup, history
  <2> QED
    BY <2>1, <2>2, QuietStutters DEF Exclusives
<1>2. ASSUME NEW c \in Calls, AcquireFails(c)
      PROVE  PB!Next
  <2>1. Quiet
    BY <1>2, QuietSteps
  <2>2. UNCHANGED <<token, deployed, troubled>> /\ exposed \subseteq exposed'
    BY <1>2 DEF AcquireFails, setup
  <2> QED
    BY <2>1, <2>2, QuietExposes DEF Exclusives
<1>3. ASSUME NEW c \in Calls, OrderRaises(c)
      PROVE  PB!Next
  <2>1. Quiet
    BY <1>3, QuietSteps
  <2>2. UNCHANGED <<token, deployed, exposed>> /\ troubled \subseteq troubled'
    BY <1>3 DEF OrderRaises, setup
  <2> QED
    BY <2>1, <2>2, LosesMaps DEF Exclusives, Quiet, Loses
<1>4. ASSUME NEW c \in Calls, Filled(c)
      PROVE  PB!Next
  BY <1>4, FilledOpens DEF PB!Next
<1>5. ASSUME NEW t \in Tasks, CloseTracked(t)
      PROVE  PB!Next
  <2>1. PICK q \in Calls : target[t] = q
    BY <1>5 DEF CloseTracked, Books, TypeOK, Busy
  <2> QED
    BY <1>5, <2>1, TrackedCloses DEF PB!Next
<1>6. ASSUME NEW t \in Tasks, Book(t)
      PROVE  PB!Next
  <2>1. PICK q \in Calls : target[t] = q
    BY <1>6 DEF Book, Books, TypeOK, Busy, Settling
  <2> QED
    BY <1>6, <2>1, BookBooks DEF PB!Next
<1>7. ASSUME NEW t \in Tasks, CloseUnsaved(t)
      PROVE  PB!Next
  BY <1>7, UnsavedInterrupts
<1>8. ASSUME NEW t \in Tasks, CloseMissing(t) \/ ReadOwner(t)
      PROVE  UNCHANGED PB!vars
  <2>1. Quiet
    BY <1>8, QuietCloses
  <2>2. UNCHANGED <<token, deployed, exposed, troubled>>
    BY <1>8 DEF CloseMissing, ReadOwner, setup, history
  <2> QED
    BY <2>1, <2>2, QuietStutters DEF Exclusives
<1>9. ASSUME NEW t \in Tasks, DeleteKey(t)
      PROVE  PB!Next
  <2>1. Quiet
    BY <1>9, QuietCloses
  <2>2. UNCHANGED <<token, deployed, troubled>> /\ exposed \subseteq exposed'
    BY <1>9 DEF DeleteKey, setup
  <2> QED
    BY <2>1, <2>2, QuietExposes DEF Exclusives
<1>10. ASSUME NEW t \in Tasks, ReleaseFails(t)
       PROVE  PB!Next
  <2>1. Quiet
    BY <1>10, QuietCloses
  <2>2. UNCHANGED <<token, deployed, exposed>> /\ troubled \subseteq troubled'
    BY <1>10 DEF ReleaseFails, setup
  <2> QED
    BY <2>1, <2>2, LosesMaps DEF Exclusives, Quiet, Loses
<1>11. CASE NoTrigger
  <2>1. UNCHANGED <<position, booked, token, deployed, exposed, troubled>>
    BY <1>11 DEF NoTrigger, books, setup, history
  <2>2. \A p \in Calls : SettledBySome(p)' <=> SettledBySome(p)
    <3>1. \A u \in Tasks : u # Loop => pc'[u] = pc[u] /\ target'[u] = target[u]
      BY <1>11 DEF NoTrigger, Leave, Goto, Books, TypeOK
    <3>2. Loop \in Tasks /\ pc'[Loop] \notin Settling /\ pc[Loop] \notin Settling
      BY <1>11, OrchestratorAssumption
         DEF OrchestratorAssumption, Tasks, NoTrigger, Leave, Goto, Settling,
             Books, TypeOK
    <3> QED
      BY <3>1, <3>2 DEF SettledBySome
  <2>3. Quiet
    BY <2>1, <2>2, PhaseKept DEF Quiet, Books
  <2> QED
    BY <2>1, <2>3, QuietStutters DEF Exclusives
<1>12. CASE Stop \/ StopLoop
  BY <1>12, StopInterrupts
<1>13. CASE Restart
  BY <1>13, RestartInterrupts
<1>14. CASE Tick \/ UNCHANGED vars
  <2>1. UNCHANGED <<position, booked, pc, target, token, deployed, exposed,
                    troubled>>
    BY <1>14 DEF Tick, vars, books, setup, history
  <2>2. Quiet
    BY <2>1, PhaseKept DEF Quiet, SettledBySome, Books
  <2> QED
    BY <2>1, <2>2, QuietStutters DEF Exclusives
<1> HIDE DEF IInv
<1> QED
  BY <1>1, <1>2, <1>3, <1>4, <1>5, <1>6, <1>7, <1>8, <1>9, <1>10, <1>11,
     <1>12, <1>13, <1>14 DEF Next, CallStep, CloseStep

(* The orchestrator implements the book of PositionBook: no interleaving of*)
(* calls, the SL/TP loop, operators, stops and restarts opens a second     *)
(* position on an exclusive symbol, closes one twice, books a profit twice *)
(* or before its close, or loses one without an interruption of its own.   *)
THEOREM ImplementsBook == Spec => KeepsBook
<1>1. Init => PB!Init
  BY DEF Init, PB!Init, Phase
<1>2. IInv /\ IInv' /\ [Next]_vars => [PB!Next]_(PB!vars)
  BY BookStep
<1> QED
  BY <1>1, <1>2, InvariantHolds, PTL DEF Spec, KeepsBook, PB!Spec

=============================================================================
