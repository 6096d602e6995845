----------------------- MODULE OrderIdempotencyProofs -----------------------
(***************************************************************************)
(* What duplicate detection achieves, for every set of tasks, processes    *)
(* and orders: everything while the calls for an order do not overlap,     *)
(* Redis answers and the exchange's answers arrive, where place_order      *)
(* implements OrderGate; and what is left of it when they do not.          *)
(***************************************************************************)
EXTENDS OrderIdempotency, FiniteSetTheorems, TLAPS

Placing == {"checked", "sent", "accepted", "failed"}

(* The stores only ever hold orders, and every call is at a known place.   *)
THEOREM TypeCorrect == Spec => []TypeOK
<1>1. Init => TypeOK
  BY DEF Init, TypeOK, Places
<1>2. TypeOK /\ [Next]_vars => TypeOK'
  <2> SUFFICES ASSUME TypeOK, [Next]_vars PROVE TypeOK'
    OBVIOUS
  <2> USE IdempotencyAssumption DEF TypeOK, Places, Goto
  <2>0. env' = env
    BY DEF Next, vars, PlaceCheck, Reserve, Send, ExchangeAccepts,
           ExchangeRejects, PlaceMark, PlaceFail, FallbackCheck, FallbackMark
  <2>1. ASSUME NEW c \in Callers, NEW o \in Orders, PlaceCheck(c, o) PROVE TypeOK'
    BY <2>0, <2>1 DEF PlaceCheck
  <2>2. ASSUME NEW c \in Callers, NEW o \in Orders, Reserve(c, o) PROVE TypeOK'
    <3>1. /\ redis' \subseteq Orders
          /\ order' \in [Callers -> Orders]
          /\ pc' \in [Callers -> Places]
      BY <2>2 DEF Reserve
    <3>2. reserved' \in [Orders -> SUBSET Callers]
      BY <2>2 DEF Reserve, LetThrough
    <3> QED
      BY <2>0, <2>2, <3>1, <3>2 DEF Reserve
  <2>3. ASSUME NEW c \in Callers,
               Send(c) \/ ExchangeAccepts(c) \/ ExchangeRejects(c) \/ FallbackCheck(c)
        PROVE  TypeOK'
    BY <2>0, <2>3 DEF Send, ExchangeAccepts, ExchangeRejects, FallbackCheck
  <2>4. ASSUME NEW c \in Callers, PlaceMark(c) \/ PlaceFail(c) \/ FallbackMark(c)
        PROVE  TypeOK'
    <3>1. redis' \subseteq Orders /\ local' \in [Processes -> SUBSET Orders]
      BY <2>4 DEF PlaceMark, PlaceFail, FallbackMark, MarkSubmitted, Remove
    <3>2. reserved' \in [Orders -> SUBSET Callers]
      BY <2>4 DEF PlaceMark, PlaceFail, FallbackMark, LetThrough
    <3> QED
      BY <2>0, <2>4, <3>1, <3>2 DEF PlaceMark, PlaceFail, FallbackMark
  <2>5. CASE UNCHANGED vars
    BY <2>0, <2>5 DEF vars
  <2> QED
    BY <2>1, <2>2, <2>3, <2>4, <2>5 DEF Next
<1> QED
  BY <1>1, <1>2, PTL DEF Spec

-----------------------------------------------------------------------------
(* One call per order is under way; until its request is answered, the     *)
(* order is not accepted; an accepted order stays marked in Redis.         *)
Inv ==
  /\ \A c \in Callers : pc[c] \in {"idle"} \cup Placing
  /\ \A c \in Callers : pc[c] \in Placing => c \in Placers
  /\ \A c, d \in Callers :
       pc[c] # "idle" /\ pc[d] # "idle" /\ order[c] = order[d] => c = d
  /\ \A c \in Callers :
       pc[c] \in {"checked", "sent", "failed"} => order[c] \notin accepted
  /\ \A o \in accepted :
       o \in redis \/ \E c \in Placers : order[c] = o /\ pc[c] = "accepted"

LEMMA InvInit == Init => Inv
BY DEF Init, Inv, Placing

LEMMA InvStep ==
  ASSUME Disciplined, TypeOK, Inv, [Next]_vars PROVE Inv'
<1>0. Outcomes = {"answers"} /\ env.serialized /\ ~env.losesReplies
  BY DEF Disciplined, Outcomes
<1>p. Placers \subseteq Callers
  BY DEF Callers
<1> USE <1>0, <1>p DEF Inv, TypeOK, Placing, Goto
<1>1. ASSUME NEW c \in Callers, NEW o \in Orders, PlaceCheck(c, o) PROVE Inv'
  <2>0. /\ c \in Placers /\ pc[c] = "idle"
        /\ \A d \in Callers : order[d] = o => pc[d] = "idle"
        /\ order' = [order EXCEPT ![c] = o]
        /\ UNCHANGED <<redis, accepted>>
    BY <1>1 DEF PlaceCheck, MayStart
  <2>1. CASE o \in redis
    <3>1. PICK answer \in BOOLEAN : CheckDuplicate(c, o, answer)
                 /\ pc' = [pc EXCEPT ![c] = IF answer THEN "idle" ELSE "checked"]
      BY <1>1 DEF PlaceCheck
    <3>2. answer = TRUE
      BY <2>1, <3>1 DEF CheckDuplicate
    <3>3. pc' = pc
      BY <2>0, <3>1, <3>2
    <3> QED
      BY <2>0, <3>3
  <2>2. CASE o \notin redis
    <3>1. pc' = [pc EXCEPT ![c] = "checked"]
      BY <1>1, <2>2 DEF PlaceCheck, CheckDuplicate
    <3>2. o \notin accepted
      BY <2>0, <2>2
    <3> QED
      BY <2>0, <3>1, <3>2
  <2> QED
    BY <2>1, <2>2
<1>2. ASSUME NEW c \in Callers, NEW o \in Orders, Reserve(c, o) PROVE Inv'
  <2>1. /\ pc[c] = "idle" /\ pc' = pc
        /\ order' = [order EXCEPT ![c] = o]
        /\ redis \subseteq redis' /\ UNCHANGED accepted
    BY <1>2 DEF Reserve, MayStart, TakesEffect
  <2> QED
    BY <2>1
<1>3. ASSUME NEW c \in Callers, Send(c) PROVE Inv'
  BY <1>3 DEF Send
<1>4. ASSUME NEW c \in Callers, ExchangeAccepts(c) PROVE Inv'
  BY <1>4 DEF ExchangeAccepts
<1>5. ASSUME NEW c \in Callers, ExchangeRejects(c) PROVE Inv'
  BY <1>5 DEF ExchangeRejects
<1>6. ASSUME NEW c \in Callers, PlaceMark(c) PROVE Inv'
  <2>1. redis' = redis \cup {order[c]}
    BY <1>6 DEF PlaceMark, MarkSubmitted, TakesEffect
  <2> QED
    BY <1>6, <2>1 DEF PlaceMark
<1>7. ASSUME NEW c \in Callers, PlaceFail(c) PROVE Inv'
  <2>1. redis' = redis \ {order[c]} /\ order[c] \notin accepted
    BY <1>7 DEF PlaceFail, Remove, TakesEffect
  <2> QED
    BY <1>7, <2>1 DEF PlaceFail
<1>8. ASSUME NEW c \in Callers, FallbackCheck(c) \/ FallbackMark(c) PROVE FALSE
  BY <1>8 DEF FallbackCheck, FallbackMark
<1>9. CASE UNCHANGED vars
  BY <1>9 DEF vars
<1> QED
  BY <1>1, <1>2, <1>3, <1>4, <1>5, <1>6, <1>7, <1>8, <1>9 DEF Next

(* env never changes. *)
LEMMA EnvRigid == [Next]_vars => env' = env
BY DEF Next, vars, PlaceCheck, Reserve, Send, ExchangeAccepts, ExchangeRejects,
       PlaceMark, PlaceFail, FallbackCheck, FallbackMark

LEMMA DisciplineHolds == Spec => [](TypeOK /\ (Disciplined => Inv))
<1> DEFINE DInv == Disciplined => Inv
<1>1. Init => DInv
  BY InvInit
<1>2. TypeOK /\ DInv /\ [Next]_vars => DInv'
  <2>1. [Next]_vars => (Disciplined' <=> Disciplined)
    BY EnvRigid DEF Disciplined
  <2> QED
    BY <2>1, InvStep
<1> HIDE DEF DInv
<1>3. DInv => (Disciplined => Inv)
  BY DEF DInv
<1> QED
  BY <1>1, <1>2, <1>3, TypeCorrect, PTL DEF Spec

(* Then the mark of an accepted order is where the next check of any       *)
(* process looks, or its placer is about to place it there: no refusal,    *)
(* failure or rejection of another call takes it away.                     *)
AcceptedIsMarked ==
  Disciplined =>
    \A o \in accepted :
      o \in redis \/ \E c \in Placers : order[c] = o /\ pc[c] = "accepted"

(* No request for an order is under way once the exchange has accepted it, *)
(* nor next to another one, whichever processes ask.                       *)
NoDuplicateSubmission == Disciplined => SubmittedOnce

(* Where calls for one order follow one another, Redis answers and no      *)
(* answer is lost, an order that was accepted keeps its mark through every *)
(* other call.                                                             *)
THEOREM AcceptedStaysMarked == Spec => []AcceptedIsMarked
<1>1. (Disciplined => Inv) => AcceptedIsMarked
  BY DEF Inv, AcceptedIsMarked
<1> QED
  BY <1>1, DisciplineHolds, PTL

(* Under the same conditions no order is submitted twice.                  *)
THEOREM NoDuplicates == Spec => []NoDuplicateSubmission
<1>1. TypeOK /\ (Disciplined => Inv) => NoDuplicateSubmission
  <2> SUFFICES ASSUME TypeOK, Inv, NEW o \in Orders
               PROVE  Cardinality(InFlight(o)) + (IF o \in accepted THEN 1 ELSE 0) <= 1
    BY DEF NoDuplicateSubmission, SubmittedOnce
  <2> USE DEF InFlight, Inv, Callers
  <2>1. CASE InFlight(o) = {}
    BY <2>1, FS_EmptySet
  <2>2. CASE InFlight(o) # {}
    <3>1. PICK c \in Placers : pc[c] = "sent" /\ order[c] = o
      BY <2>2
    <3>2. InFlight(o) = {c}
      BY <3>1
    <3>3. o \notin accepted
      BY <3>1
    <3> QED
      BY <3>2, <3>3, FS_Singleton
  <2> QED
    BY <2>1, <2>2
<1> QED
  BY <1>1, DisciplineHolds, PTL

-----------------------------------------------------------------------------
(* Without any condition: place_order and validate_and_mark keep to their  *)
(* own orders.                                                             *)
Roles ==
  /\ \A c \in Callers :
       pc[c] \in Placing => c \in Placers /\ order[c] \notin Reservable
  /\ \A c \in Callers :
       pc[c] \in {"fallback", "marking"} => order[c] \in Reservable
  /\ \A o \in Orders : reserved[o] # {} => o \in Reservable

LEMMA RolesHold == Spec => [](TypeOK /\ Roles)
<1>1. Init => Roles
  BY DEF Init, Roles, Placing
<1>2. TypeOK /\ Roles /\ [Next]_vars => Roles'
  <2> SUFFICES ASSUME TypeOK, Roles, [Next]_vars PROVE Roles'
    OBVIOUS
  <2> USE IdempotencyAssumption DEF TypeOK, Roles, Placing, Goto
  <2>1. ASSUME NEW c \in Callers, NEW o \in Orders, PlaceCheck(c, o) PROVE Roles'
    BY <2>1 DEF PlaceCheck, MayStart
  <2>2. ASSUME NEW c \in Callers, NEW o \in Orders, Reserve(c, o) PROVE Roles'
    BY <2>2 DEF Reserve, MayStart, LetThrough
  <2>3. ASSUME NEW c \in Callers,
               Send(c) \/ ExchangeAccepts(c) \/ ExchangeRejects(c) \/ PlaceMark(c)
                 \/ PlaceFail(c) \/ FallbackCheck(c)
        PROVE  Roles'
    BY <2>3 DEF Send, ExchangeAccepts, ExchangeRejects, PlaceMark, PlaceFail,
                FallbackCheck
  <2>4. ASSUME NEW c \in Callers, FallbackMark(c) PROVE Roles'
    BY <2>4 DEF FallbackMark, LetThrough
  <2>5. CASE UNCHANGED vars
    BY <2>5 DEF vars
  <2> QED
    BY <2>1, <2>2, <2>3, <2>4, <2>5 DEF Next
<1> QED
  BY <1>1, <1>2, TypeCorrect, PTL DEF Spec

-----------------------------------------------------------------------------
(* The only marks place_order makes are those of orders just accepted.     *)
MarksInv ==
  /\ \A c \in Callers : pc[c] = "accepted" => order[c] \in accepted
  /\ OnlyAcceptedIsRefused

(* Whatever raises, overlaps or is lost: an order refused as a duplicate   *)
(* has been accepted.                                                      *)
THEOREM RefusalsAreJustified == Spec => []OnlyAcceptedIsRefused
<1>1. Init => MarksInv
  BY DEF Init, MarksInv, OnlyAcceptedIsRefused
<1>2. TypeOK /\ Roles /\ MarksInv /\ [Next]_vars => MarksInv'
  <2> SUFFICES ASSUME TypeOK, Roles, MarksInv, [Next]_vars PROVE MarksInv'
    OBVIOUS
  <2> USE IdempotencyAssumption
      DEF TypeOK, Roles, Placing, Goto, MarksInv, OnlyAcceptedIsRefused
  <2>1. ASSUME NEW c \in Callers, NEW o \in Orders, PlaceCheck(c, o) PROVE MarksInv'
    BY <2>1 DEF PlaceCheck, MayStart
  <2>2. ASSUME NEW c \in Callers, NEW o \in Orders, Reserve(c, o) PROVE MarksInv'
    <3>1. /\ redis' \subseteq redis \cup {o} /\ o \in Reservable
          /\ order' = [order EXCEPT ![c] = o] /\ pc[c] = "idle"
          /\ pc' = pc \/ pc' = [pc EXCEPT ![c] = "idle"]
               \/ pc' = [pc EXCEPT ![c] = "fallback"]
          /\ UNCHANGED <<local, accepted>>
      BY <2>2 DEF Reserve, MayStart
    <3> QED
      BY <3>1
  <2>3. ASSUME NEW c \in Callers,
               Send(c) \/ ExchangeAccepts(c) \/ ExchangeRejects(c) \/ FallbackCheck(c)
        PROVE  MarksInv'
    BY <2>3 DEF Send, ExchangeAccepts, ExchangeRejects, FallbackCheck
  <2>4. ASSUME NEW c \in Callers, PlaceMark(c) \/ FallbackMark(c) PROVE MarksInv'
    <3>1. /\ redis' \subseteq redis \cup {order[c]}
          /\ \A p \in Processes : local'[p] \subseteq local[p] \cup {order[c]}
          /\ UNCHANGED <<order, accepted>>
          /\ pc' = [pc EXCEPT ![c] = "idle"]
      BY <2>4 DEF PlaceMark, FallbackMark, MarkSubmitted
    <3>2. order[c] \in accepted \cup Reservable
      BY <2>4 DEF PlaceMark, FallbackMark
    <3> QED
      BY <3>1, <3>2
  <2>5. ASSUME NEW c \in Callers, PlaceFail(c) PROVE MarksInv'
    <3>1. /\ redis' \subseteq redis
          /\ \A p \in Processes : local'[p] \subseteq local[p]
          /\ UNCHANGED <<order, accepted>>
          /\ pc' = [pc EXCEPT ![c] = "idle"]
      BY <2>5 DEF PlaceFail, Remove
    <3> QED
      BY <3>1
  <2>6. CASE UNCHANGED vars
    BY <2>6 DEF vars
  <2> QED
    BY <2>1, <2>2, <2>3, <2>4, <2>5, <2>6 DEF Next
<1>3. MarksInv => OnlyAcceptedIsRefused
  BY DEF MarksInv
<1> QED
  BY <1>1, <1>2, <1>3, RolesHold, PTL DEF Spec

-----------------------------------------------------------------------------
(* The refinement of OrderGate.  What the gate sees of a task.             *)
Gate(c) == <<order[c], Phase(c)>>

(* Steps that leave every placer where the gate sees it, stutter.          *)
LEMMA GateKept ==
  ASSUME UNCHANGED accepted, \A c \in Placers : Gate(c)' = Gate(c)
  PROVE  UNCHANGED G!vars
BY DEF Gate, G!vars

(* A placer that moves on with its order moves the gate's phase.           *)
LEMMA PhaseMoves ==
  ASSUME TypeOK, NEW c \in Placers, NEW place \in Places,
         pc' = [pc EXCEPT ![c] = place]
  PROVE  [d \in Placers |-> Phase(d)]'
           = [[d \in Placers |-> Phase(d)] EXCEPT ![c] = Phase(c)']
BY DEF TypeOK, Phase, Callers

LEMMA GateStep ==
  ASSUME Disciplined, TypeOK, Inv, OnlyAcceptedIsRefused, [Next]_vars
  PROVE  [G!Next]_(G!vars)
<1>0. Outcomes = {"answers"} /\ env.serialized /\ ~env.losesReplies
  BY DEF Disciplined, Outcomes
<1>p. Placers \subseteq Callers /\ Placers \cap Reservers = {}
  BY IdempotencyAssumption DEF Callers
<1> USE <1>0, <1>p DEF TypeOK, Goto
<1>1. ASSUME NEW c \in Callers, NEW o \in Orders, PlaceCheck(c, o)
      PROVE  G!Next
  <2>0. /\ c \in Placers /\ pc[c] = "idle" /\ o \in Orders \ Reservable
        /\ \A d \in Callers : order[d] = o => pc[d] = "idle"
        /\ order' = [order EXCEPT ![c] = o]
        /\ UNCHANGED accepted
    BY <1>1 DEF PlaceCheck, MayStart
  <2>1. PICK answer \in BOOLEAN :
          /\ answer = (o \in redis)
          /\ pc' = [pc EXCEPT ![c] = IF answer THEN "idle" ELSE "checked"]
    BY <1>1 DEF PlaceCheck, CheckDuplicate
  <2>2. [d \in Placers |-> order[d]]'
          = [[d \in Placers |-> order[d]] EXCEPT ![c] = o]
    BY <2>0
  <2>3. Phase(c) = "idle"
    BY <2>0 DEF Phase
  <2>4. CASE o \in redis
    <3>1. o \in accepted
      BY <2>0, <2>4 DEF OnlyAcceptedIsRefused
    <3>2. pc' = pc
      BY <2>0, <2>1, <2>4
    <3>3. G!Refuse(c, o)
      BY <2>0, <2>2, <2>3, <3>1, <3>2 DEF G!Refuse, Phase
    <3> QED
      BY <2>0, <3>3 DEF G!Next
  <2>5. CASE o \notin redis
    <3>1. o \notin accepted
      BY <2>0, <2>5 DEF Inv
    <3>2. G!Holders(o) = {}
      BY <2>0 DEF G!Holders, Phase
    <3>3. pc' = [pc EXCEPT ![c] = "checked"] /\ Phase(c)' = "granted"
      BY <2>1, <2>5 DEF Phase
    <3>4. [d \in Placers |-> Phase(d)]'
            = [[d \in Placers |-> Phase(d)] EXCEPT ![c] = "granted"]
      BY <2>0, <3>3, PhaseMoves DEF Places
    <3>5. G!Grant(c, o)
      BY <2>0, <2>2, <2>3, <3>1, <3>2, <3>4 DEF G!Grant
    <3> QED
      BY <2>0, <3>5 DEF G!Next
  <2> QED
    BY <2>4, <2>5
<1>2. ASSUME NEW c \in Callers, NEW o \in Orders, Reserve(c, o)
      PROVE  UNCHANGED G!vars
  <2>1. /\ c \notin Placers /\ pc[c] = "idle" /\ pc' = pc
        /\ order' = [order EXCEPT ![c] = o] /\ UNCHANGED accepted
    BY <1>2 DEF Reserve, MayStart
  <2> QED
    BY <2>1, GateKept DEF Gate, Phase
<1>3. ASSUME NEW c \in Callers, Send(c)
      PROVE  UNCHANGED G!vars
  BY <1>3, GateKept DEF Send, Gate, Phase
<1>4. ASSUME NEW c \in Callers,
             ExchangeAccepts(c) \/ ExchangeRejects(c)
      PROVE  G!Next
  <2>1. /\ c \in Placers /\ Phase(c) = "granted" /\ UNCHANGED order
        /\ accepted' = accepted \/ accepted' = accepted \cup {order[c]}
    BY <1>4 DEF ExchangeAccepts, ExchangeRejects, Phase, Inv, Placing
  <2>2. PICK place \in {"accepted", "failed"} : pc' = [pc EXCEPT ![c] = place]
    BY <1>4 DEF ExchangeAccepts, ExchangeRejects
  <2>3. Phase(c)' = "decided"
    BY <2>1, <2>2 DEF Phase
  <2>4. [d \in Placers |-> Phase(d)]'
          = [[d \in Placers |-> Phase(d)] EXCEPT ![c] = "decided"]
    BY <2>1, <2>2, <2>3, PhaseMoves DEF Places
  <2>5. G!Decide(c)
    BY <2>1, <2>4 DEF G!Decide
  <2> QED
    BY <2>1, <2>5 DEF G!Next, G!Accept, G!Reject
<1>5. ASSUME NEW c \in Callers, PlaceMark(c) \/ PlaceFail(c)
      PROVE  G!Next
  <2>1. /\ c \in Placers /\ Phase(c) = "decided"
        /\ pc' = [pc EXCEPT ![c] = "idle"] /\ UNCHANGED <<order, accepted>>
    BY <1>5 DEF PlaceMark, PlaceFail, Phase, Inv, Placing
  <2>2. Phase(c)' = "idle"
    BY <2>1 DEF Phase
  <2>3. [d \in Placers |-> Phase(d)]'
          = [[d \in Placers |-> Phase(d)] EXCEPT ![c] = "idle"]
    BY <2>1, <2>2, PhaseMoves DEF Places
  <2>4. G!Finish(c)
    BY <2>1, <2>3 DEF G!Finish
  <2> QED
    BY <2>1, <2>4 DEF G!Next
<1>6. ASSUME NEW c \in Callers, FallbackCheck(c) \/ FallbackMark(c)
      PROVE  FALSE
  BY <1>6 DEF FallbackCheck, FallbackMark, Inv, Placing
<1>7. CASE UNCHANGED vars
  BY <1>7, GateKept DEF vars, Gate, Phase
<1> QED
  BY <1>1, <1>2, <1>3, <1>4, <1>5, <1>6, <1>7 DEF Next

(* Under these conditions the check, the request and the mark of           *)
(* place_order, with awaits in between, implement the one step of the gate.*)
THEOREM ImplementsGate == Spec => PlacesOnce
<1>1. Init => (Disciplined => G!Init)
  BY DEF Init, G!Init, Phase, Callers
<1>2. TypeOK /\ (Disciplined => Inv) /\ OnlyAcceptedIsRefused /\ [Next]_vars
        => [Disciplined => G!Next]_(G!vars)
  BY GateStep
<1> QED
  BY <1>1, <1>2, DisciplineHolds, RefusalsAreJustified, PTL DEF Spec, PlacesOnce

-----------------------------------------------------------------------------
(* Nothing removes a reserved order, from any store.                       *)
LEMMA ReservedStays ==
  ASSUME TypeOK, Roles, [Next]_vars, NEW o \in Reservable
  PROVE  /\ o \in redis => o \in redis'
         /\ \A p \in Processes : o \in local[p] => o \in local'[p]
<1> USE IdempotencyAssumption DEF TypeOK, Roles, Placing, Goto
<1>1. ASSUME NEW c \in Callers, NEW q \in Orders,
             PlaceCheck(c, q) \/ Reserve(c, q)
      PROVE  redis \subseteq redis' /\ local' = local
  BY <1>1 DEF PlaceCheck, Reserve
<1>2. ASSUME NEW c \in Callers,
             Send(c) \/ ExchangeAccepts(c) \/ ExchangeRejects(c) \/ FallbackCheck(c)
      PROVE  redis' = redis /\ local' = local
  BY <1>2 DEF Send, ExchangeAccepts, ExchangeRejects, FallbackCheck
<1>3. ASSUME NEW c \in Callers, PlaceMark(c) \/ FallbackMark(c)
      PROVE  /\ redis \subseteq redis'
             /\ \A p \in Processes : local[p] \subseteq local'[p]
  BY <1>3 DEF PlaceMark, FallbackMark, MarkSubmitted
<1>4. ASSUME NEW c \in Callers, PlaceFail(c)
      PROVE  /\ redis \ {order[c]} \subseteq redis' /\ order[c] # o
             /\ \A p \in Processes : local[p] \ {order[c]} \subseteq local'[p]
  BY <1>4 DEF PlaceFail, Remove
<1>5. CASE UNCHANGED vars
  BY <1>5 DEF vars
<1> QED
  BY <1>1, <1>2, <1>3, <1>4, <1>5 DEF Next

(* Who is let through anew, and what is recorded then. *)
LEMMA LetThroughRecorded ==
  ASSUME TypeOK, Roles, [Next]_vars, NEW o \in Orders, NEW c \in reserved'[o],
         c \notin reserved[o]
  PROVE  /\ o \in Reservable /\ c \in Callers
         /\ o \in redis' \cup local'[Home[c]]
         /\ \/ o \notin redis /\ o \in redis'
            \/ pc[c] = "marking"
         /\ reserved'[o] = reserved[o] \cup {c}
<1> USE IdempotencyAssumption DEF TypeOK, Roles, Placing, Goto
<1>1. ASSUME NEW d \in Callers, NEW q \in Orders, PlaceCheck(d, q) PROVE FALSE
  BY <1>1 DEF PlaceCheck
<1>2. ASSUME NEW d \in Callers,
             Send(d) \/ ExchangeAccepts(d) \/ ExchangeRejects(d) \/ PlaceMark(d)
               \/ PlaceFail(d) \/ FallbackCheck(d)
      PROVE  FALSE
  BY <1>2 DEF Send, ExchangeAccepts, ExchangeRejects, PlaceMark, PlaceFail,
              FallbackCheck
<1>3. CASE UNCHANGED vars
  BY <1>3 DEF vars
<1>4. ASSUME NEW d \in Callers, NEW q \in Orders, Reserve(d, q)
      PROVE  /\ d = c /\ q = o /\ o \in Reservable
             /\ o \notin redis /\ o \in redis'
             /\ reserved'[o] = reserved[o] \cup {c}
  BY <1>4 DEF Reserve, LetThrough, TakesEffect
<1>5. ASSUME NEW d \in Callers, FallbackMark(d)
      PROVE  /\ d = c /\ o \in Reservable /\ pc[c] = "marking"
             /\ o \in redis' \cup local'[Home[c]]
             /\ reserved'[o] = reserved[o] \cup {c}
  <2>1. d = c /\ order[d] = o /\ reserved'[o] = reserved[o] \cup {c}
    BY <1>5 DEF FallbackMark, LetThrough
  <2>2. o \in redis' \cup local'[Home[c]]
    BY <1>5, <2>1 DEF FallbackMark, MarkSubmitted, TakesEffect
  <2> QED
    BY <1>5, <2>1, <2>2 DEF FallbackMark
<1> QED
  BY <1>1, <1>2, <1>3, <1>4, <1>5 DEF Next

(* While no command of Redis is answered and calls for an order follow one *)
(* another: who is let through is in the local store of its process, and   *)
(* who is about to be let through is not.                                  *)
Outage == env.redis = "down" /\ env.serialized

LocalInv ==
  /\ \A c, d \in Callers :
       pc[c] # "idle" /\ pc[d] # "idle" /\ order[c] = order[d] => c = d
  /\ \A c \in Callers : pc[c] = "marking" => order[c] \notin local[Home[c]]
  /\ \A o \in Orders : \A c \in reserved[o] : o \in local[Home[c]]
  /\ \A o \in Orders : \A c, d \in reserved[o] : Home[c] = Home[d] => c = d

LEMMA LocalInvStep ==
  ASSUME Outage, TypeOK, Roles, LocalInv, [Next]_vars PROVE LocalInv'
<1>0. Outcomes = {"raises", "raises_after"} /\ env.serialized
  BY DEF Outage, Outcomes
<1> USE <1>0, IdempotencyAssumption DEF TypeOK, Roles, Placing, LocalInv, Goto
<1>1. ASSUME NEW c \in Callers, NEW o \in Orders, PlaceCheck(c, o) \/ Reserve(c, o)
      PROVE  LocalInv'
  <2>1. /\ pc[c] = "idle"
        /\ \A d \in Callers : order[d] = o => pc[d] = "idle"
        /\ order' = [order EXCEPT ![c] = o]
        /\ \E place \in {"idle", "checked", "fallback"} : pc' = [pc EXCEPT ![c] = place]
        /\ UNCHANGED <<local, reserved>>
    BY <1>1 DEF PlaceCheck, Reserve, MayStart
  <2> QED
    BY <2>1
<1>2. ASSUME NEW c \in Callers, Send(c) \/ ExchangeAccepts(c) \/ ExchangeRejects(c)
      PROVE  LocalInv'
  BY <1>2 DEF Send, ExchangeAccepts, ExchangeRejects
<1>3. ASSUME NEW c \in Callers, PlaceMark(c) \/ PlaceFail(c)
      PROVE  LocalInv'
  <2>1. /\ pc[c] # "idle" /\ order[c] \notin Reservable
        /\ pc' = [pc EXCEPT ![c] = "idle"]
        /\ UNCHANGED <<order, reserved>>
        /\ \A p \in Processes : \A o \in Reservable : o \in local'[p] <=> o \in local[p]
    BY <1>3 DEF PlaceMark, PlaceFail, MarkSubmitted, Remove
  <2>2. \A d \in Callers : pc[d] = "marking" => order[d] \in Reservable
    OBVIOUS
  <2> QED
    BY <2>1, <2>2
<1>4. ASSUME NEW c \in Callers, FallbackCheck(c) PROVE LocalInv'
  <2>1. PICK answer \in BOOLEAN :
          /\ answer = (order[c] \in local[Home[c]])
          /\ pc' = [pc EXCEPT ![c] = IF answer THEN "idle" ELSE "marking"]
    BY <1>4 DEF FallbackCheck, CheckDuplicate
  <2>2. pc[c] = "fallback" /\ UNCHANGED <<local, order, reserved>>
    BY <1>4 DEF FallbackCheck
  <2> QED
    BY <2>1, <2>2
<1>5. ASSUME NEW c \in Callers, FallbackMark(c) PROVE LocalInv'
  <2>1. /\ pc[c] = "marking" /\ pc' = [pc EXCEPT ![c] = "idle"]
        /\ reserved' = [reserved EXCEPT ![order[c]] = @ \cup {c}]
        /\ local' = [local EXCEPT ![Home[c]] = @ \cup {order[c]}]
        /\ UNCHANGED order
    BY <1>5 DEF FallbackMark, MarkSubmitted, LetThrough
  <2>2. \A d \in reserved[order[c]] : Home[d] # Home[c]
    BY <2>1
  <2>3. \A d \in Callers : pc[d] = "marking" /\ d # c => order[d] # order[c]
    BY <2>1
  <2> QED
    BY <2>1, <2>2, <2>3
<1>6. CASE UNCHANGED vars
  BY <1>6 DEF vars
<1> QED
  BY <1>1, <1>2, <1>3, <1>4, <1>5, <1>6 DEF Next

(* While Redis answers nothing, each process lets an order through once,   *)
(* as long as the calls for it follow one another.                         *)
THEOREM LocalStoreStandsIn == Spec => []ReservedOncePerProcess
<1> DEFINE OInv == Outage => LocalInv
<1>1. Init => OInv
  BY DEF Init, LocalInv
<1>2. TypeOK /\ Roles /\ OInv /\ [Next]_vars => OInv'
  <2>1. [Next]_vars => (Outage' <=> Outage)
    BY EnvRigid DEF Outage
  <2> QED
    BY <2>1, LocalInvStep
<1>3. OInv => ReservedOncePerProcess
  <2> SUFFICES ASSUME LocalInv, NEW o \in Orders, NEW p \in Processes
               PROVE  Cardinality({c \in reserved[o] : Home[c] = p}) <= 1
    BY DEF ReservedOncePerProcess, Outage
  <2> DEFINE Mine == {c \in reserved[o] : Home[c] = p}
  <2>1. CASE Mine = {}
    BY <2>1, FS_EmptySet
  <2>2. CASE Mine # {}
    <3>1. PICK c : c \in Mine
      BY <2>2
    <3>2. Mine = {c}
      BY <3>1 DEF LocalInv
    <3>3. Cardinality({c}) = 1
      BY FS_Singleton
    <3> QED
      BY <3>2, <3>3
  <2> QED
    BY <2>1, <2>2
<1> HIDE DEF OInv
<1> QED
  BY <1>1, <1>2, <1>3, RolesHold, PTL DEF Spec

(* While Redis answers nobody reaches the fallback, and the one caller let *)
(* through has left its key in Redis.                                      *)
UniqueInv ==
  env.redis = "up" =>
    /\ \A c \in Callers : pc[c] \notin {"fallback", "marking"}
    /\ \A o \in Orders : reserved[o] # {} => o \in redis
    /\ \A o \in Orders : \A c, d \in reserved[o] : c = d

LEMMA NoFallback ==
  ASSUME TypeOK, UniqueInv, [Next]_vars, env.redis = "up"
  PROVE  \A c \in Callers : pc'[c] \notin {"fallback", "marking"}
<1> USE DEF TypeOK, UniqueInv, Goto
<1>1. ASSUME NEW d \in Callers, NEW q \in Orders,
             PlaceCheck(d, q) \/ Reserve(d, q)
      PROVE  pc' \in {pc, [pc EXCEPT ![d] = "idle"], [pc EXCEPT ![d] = "checked"]}
  BY <1>1 DEF PlaceCheck, Reserve, Outcomes
<1>2. ASSUME NEW d \in Callers,
             Send(d) \/ ExchangeAccepts(d) \/ ExchangeRejects(d) \/ PlaceMark(d)
               \/ PlaceFail(d) \/ FallbackCheck(d) \/ FallbackMark(d)
      PROVE  \E place \in Places \ {"fallback", "marking"} :
                pc' = [pc EXCEPT ![d] = place]
  BY <1>2 DEF Send, ExchangeAccepts, ExchangeRejects, PlaceMark, PlaceFail,
              FallbackCheck, FallbackMark, Places
<1>3. CASE UNCHANGED vars
  BY <1>3 DEF vars
<1> QED
  BY <1>1, <1>2, <1>3 DEF Next

(* Overlapping or not, validate_and_mark lets one caller through per order *)
(* while Redis answers.                                                    *)
THEOREM ReservationsAreUnique == Spec => []ReservedOnce
<1>1. Init => UniqueInv
  BY DEF Init, UniqueInv
<1>2. TypeOK /\ Roles /\ UniqueInv /\ [Next]_vars => UniqueInv'
  <2> SUFFICES ASSUME TypeOK, Roles, UniqueInv, [Next]_vars, env.redis = "up"
               PROVE  /\ \A c \in Callers : pc'[c] \notin {"fallback", "marking"}
                      /\ \A o \in Orders : reserved'[o] # {} => o \in redis'
                      /\ \A o \in Orders : \A c, d \in reserved'[o] : c = d
    BY EnvRigid DEF UniqueInv
  <2>1. ASSUME NEW o \in Orders, NEW c \in reserved'[o], c \notin reserved[o]
        PROVE  /\ o \in redis' /\ reserved[o] = {} /\ reserved'[o] = {c}
    <3>1. pc[c] # "marking"
      BY <2>1, LetThroughRecorded DEF UniqueInv
    <3>2. o \notin redis /\ o \in redis' /\ reserved'[o] = reserved[o] \cup {c}
      BY <2>1, <3>1, LetThroughRecorded
    <3> QED
      BY <3>2 DEF UniqueInv
  <2>2. ASSUME NEW o \in Orders, reserved'[o] # {} PROVE o \in redis'
    <3>1. PICK c : c \in reserved'[o]
      BY <2>2
    <3>2. CASE c \in reserved[o]
      BY <3>2, ReservedStays DEF UniqueInv, Roles
    <3> QED
      BY <2>1, <3>1, <3>2
  <2>3. ASSUME NEW o \in Orders, NEW c \in reserved'[o], NEW d \in reserved'[o]
        PROVE  c = d
    <3>1. CASE c \in reserved[o] /\ d \in reserved[o]
      BY <3>1 DEF UniqueInv
    <3> QED
      BY <2>1, <2>3, <3>1
  <2> QED
    BY <2>2, <2>3, NoFallback
<1>3. UniqueInv => ReservedOnce
  <2> SUFFICES ASSUME UniqueInv, env.redis = "up", NEW o \in Orders
               PROVE  Cardinality(reserved[o]) <= 1
    BY DEF ReservedOnce
  <2>1. CASE reserved[o] = {}
    BY <2>1, FS_EmptySet
  <2>2. CASE reserved[o] # {}
    <3>1. PICK c : c \in reserved[o]
      BY <2>2
    <3>2. reserved[o] = {c}
      BY <3>1 DEF UniqueInv
    <3>3. Cardinality({c}) = 1
      BY FS_Singleton
    <3> QED
      BY <3>2, <3>3
  <2> QED
    BY <2>1, <2>2
<1> QED
  BY <1>1, <1>2, <1>3, RolesHold, PTL DEF Spec

=============================================================================
