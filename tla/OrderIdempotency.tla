-------------------------- MODULE OrderIdempotency --------------------------
(***************************************************************************)
(* Duplicate detection of orders: the store of                             *)
(* src/execution/order_idempotency.py and the two ways it is used, by      *)
(* BybitConnector.place_order (check, send, then mark or remove) and       *)
(* through validate_and_mark (reserve first).                              *)
(*                                                                         *)
(* Callers are asyncio tasks; those of one process share its _local_store, *)
(* all share Redis.  A step is what a task does between two awaits that    *)
(* reach Redis or the exchange.  An order is named by its symbol and       *)
(* client order id.  The 24 hour TTL is longer than any behaviour studied  *)
(* here and is left out, as is the local store's expiry, which the code    *)
(* records and never reads.                                                *)
(***************************************************************************)
EXTENDS FiniteSets, Naturals

CONSTANTS
  Placers,       \* tasks that call place_order
  Reservers,     \* tasks that call validate_and_mark
  Orders,        \* (symbol, client_order_id) pairs
  Reservable,    \* those handled by Reservers: no code mixes the two uses
  Processes,     \* processes, each with its _local_store
  Home           \* the process of each task

Callers == Placers \cup Reservers

ASSUME IdempotencyAssumption ==
  /\ Home \in [Callers -> Processes]
  /\ Placers \cap Reservers = {}
  /\ Reservable \subseteq Orders

VARIABLES
  redis,      \* orders whose key is in Redis
  local,      \* orders whose key is in each process's _local_store
  pc,         \* where each call is
  order,      \* the order each call is about
  accepted,   \* orders the exchange has accepted
  reserved,   \* the callers validate_and_mark let through, per order
  env         \* the conditions of this behaviour, chosen once

vars == <<redis, local, pc, order, accepted, reserved, env>>

(* redis: its commands all answer, some of them raise, or all of them do;  *)
(* losesReplies: the answer of the exchange to an executed request may be  *)
(* lost; serialized: the calls for one order never overlap.                *)
Environments ==
  [redis : {"up", "flaky", "down"}, losesReplies : BOOLEAN, serialized : BOOLEAN]

Places == {"idle", "checked", "sent", "accepted", "failed",
           "fallback", "marking"}

TypeOK ==
  /\ redis \subseteq Orders
  /\ local \in [Processes -> SUBSET Orders]
  /\ pc \in [Callers -> Places]
  /\ order \in [Callers -> Orders]
  /\ accepted \subseteq Orders
  /\ reserved \in [Orders -> SUBSET Callers]
  /\ env \in Environments

Init ==
  /\ redis = {}
  /\ local = [p \in Processes |-> {}]
  /\ pc = [c \in Callers |-> "idle"]
  /\ order \in [Callers -> Orders]
  /\ accepted = {}
  /\ reserved = [o \in Orders |-> {}]
  /\ env \in Environments

Goto(c, place) == pc' = [pc EXCEPT ![c] = place]

(* The outcomes of a Redis command: it answers; or it raises, having taken *)
(* effect or not.                                                          *)
Outcomes ==
  CASE env.redis = "up" -> {"answers"}
    [] env.redis = "flaky" -> {"answers", "raises", "raises_after"}
    [] env.redis = "down" -> {"raises", "raises_after"}

TakesEffect(outcome) == outcome # "raises"

-----------------------------------------------------------------------------
(* IdempotencyStore.  Each method falls back to the local store when Redis *)
(* raises, and touches only the store it ended up with.                    *)

(* check_duplicate(o) as called by c answers `answer`. *)
CheckDuplicate(c, o, answer) ==
  \E outcome \in Outcomes :
    answer = IF outcome = "answers" THEN o \in redis ELSE o \in local[Home[c]]

(* Mutant: no fallback to the local store. *)
MarkSubmitted_NoFallback(c, o) ==
  \E outcome \in Outcomes :
    /\ redis' = IF TakesEffect(outcome) THEN redis \cup {o} ELSE redis
    /\ UNCHANGED local

MarkSubmitted(c, o) ==
  \E outcome \in Outcomes :
    /\ redis' = IF TakesEffect(outcome) THEN redis \cup {o} ELSE redis
    /\ local' = IF outcome = "answers" THEN local
                  ELSE [local EXCEPT ![Home[c]] = @ \cup {o}]

Remove(c, o) ==
  \E outcome \in Outcomes :
    /\ redis' = IF TakesEffect(outcome) THEN redis \ {o} ELSE redis
    /\ local' = IF outcome = "answers" THEN local
                  ELSE [local EXCEPT ![Home[c]] = @ \ {o}]

-----------------------------------------------------------------------------
(* place_order.                                                            *)

MayStart(c, o) ==
  /\ pc[c] = "idle"
  /\ env.serialized => \A d \in Callers : order[d] = o => pc[d] = "idle"

(* The check comes first, outside the try block: a duplicate is refused    *)
(* with the stores untouched.                                              *)
PlaceCheck(c, o) ==
  /\ c \in Placers /\ o \notin Reservable
  /\ MayStart(c, o)
  /\ \E answer \in BOOLEAN :
       /\ CheckDuplicate(c, o, answer)
       /\ Goto(c, IF answer THEN "idle" ELSE "checked")
  /\ order' = [order EXCEPT ![c] = o]
  /\ UNCHANGED <<redis, local, accepted, reserved, env>>

(* Mutant: marked when it is sent, before the exchange decides. *)
Send_MarksFirst(c) ==
  /\ pc[c] = "checked"
  /\ MarkSubmitted(c, order[c])
  /\ Goto(c, "sent")
  /\ UNCHANGED <<order, accepted, reserved, env>>

(* The lot size has been awaited; the request leaves. *)
Send(c) ==
  /\ pc[c] = "checked"
  /\ Goto(c, "sent")
  /\ UNCHANGED <<redis, local, order, accepted, reserved, env>>

ExchangeAccepts(c) ==
  /\ pc[c] = "sent"
  /\ accepted' = accepted \cup {order[c]}
  /\ Goto(c, "accepted") \/ (env.losesReplies /\ Goto(c, "failed"))
  /\ UNCHANGED <<redis, local, order, reserved, env>>

ExchangeRejects(c) ==
  /\ pc[c] = "sent"
  /\ Goto(c, "failed")
  /\ UNCHANGED <<redis, local, order, accepted, reserved, env>>

(* Mutant: the key is not the order's. *)
PlaceMark_WrongKey(c) ==
  /\ pc[c] = "accepted"
  /\ MarkSubmitted(c, c)
  /\ Goto(c, "idle")
  /\ UNCHANGED <<order, accepted, reserved, env>>

(* Mutant: the accepted order is not marked. *)
PlaceMark_Skipped(c) ==
  /\ pc[c] = "accepted"
  /\ Goto(c, "idle")
  /\ UNCHANGED <<redis, local, order, accepted, reserved, env>>

(* The order is marked after the exchange accepted it. *)
PlaceMark(c) ==
  /\ pc[c] = "accepted"
  /\ MarkSubmitted(c, order[c])
  /\ Goto(c, "idle")
  /\ UNCHANGED <<order, accepted, reserved, env>>

(* Any exception removes the key, whoever wrote it, and is raised again. *)
PlaceFail(c) ==
  /\ pc[c] = "failed"
  /\ Remove(c, order[c])
  /\ Goto(c, "idle")
  /\ UNCHANGED <<order, accepted, reserved, env>>

-----------------------------------------------------------------------------
(* validate_and_mark.                                                      *)

LetThrough(c, o) == reserved' = [reserved EXCEPT ![o] = @ \cup {c}]

(* Mutant: SET without NX always succeeds. *)
Reserve_NoNX(c, o) ==
  /\ c \in Reservers /\ o \in Reservable
  /\ MayStart(c, o)
  /\ redis' = redis \cup {o}
  /\ LetThrough(c, o)
  /\ order' = [order EXCEPT ![c] = o]
  /\ UNCHANGED <<local, pc, accepted, env>>

(* SET key NX EX: let through, duplicate, or an exception and the fallback. *)
Reserve(c, o) ==
  /\ c \in Reservers /\ o \in Reservable
  /\ MayStart(c, o)
  /\ \E outcome \in Outcomes :
       /\ redis' = IF TakesEffect(outcome) THEN redis \cup {o} ELSE redis
       /\ \/ /\ outcome = "answers"
             /\ Goto(c, "idle")
             /\ IF o \in redis THEN UNCHANGED reserved ELSE LetThrough(c, o)
          \/ /\ outcome # "answers"
             /\ Goto(c, "fallback")
             /\ UNCHANGED reserved
  /\ order' = [order EXCEPT ![c] = o]
  /\ UNCHANGED <<local, accepted, env>>

(* The fallback checks, then marks, in two awaits. *)
FallbackCheck(c) ==
  /\ pc[c] = "fallback"
  /\ \E answer \in BOOLEAN :
       /\ CheckDuplicate(c, order[c], answer)
       /\ Goto(c, IF answer THEN "idle" ELSE "marking")
  /\ UNCHANGED <<redis, local, order, accepted, reserved, env>>

FallbackMark(c) ==
  /\ pc[c] = "marking"
  /\ MarkSubmitted(c, order[c])
  /\ LetThrough(c, order[c])
  /\ Goto(c, "idle")
  /\ UNCHANGED <<order, accepted, env>>

Next ==
  \E c \in Callers :
    \/ \E o \in Orders : PlaceCheck(c, o) \/ Reserve(c, o)
    \/ Send(c) \/ ExchangeAccepts(c) \/ ExchangeRejects(c)
    \/ PlaceMark(c) \/ PlaceFail(c)
    \/ FallbackCheck(c) \/ FallbackMark(c)

Spec == Init /\ [][Next]_vars

-----------------------------------------------------------------------------
InFlight(o) == {c \in Placers : pc[c] = "sent" /\ order[c] = o}

SubmittedOnce ==
  \A o \in Orders :
    Cardinality(InFlight(o)) + (IF o \in accepted THEN 1 ELSE 0) <= 1

(* The conditions under which the stores keep their promise. *)
Disciplined == env.serialized /\ env.redis = "up" /\ ~env.losesReplies

(* How far place_order has come, for the specification of the gate.        *)
Phase(c) ==
  CASE pc[c] \in {"checked", "sent"} -> "granted"
    [] pc[c] \in {"accepted", "failed"} -> "decided"
    [] OTHER -> "idle"

G == INSTANCE OrderGate WITH
  Callers <- Placers,
  Orders <- Orders \ Reservable,
  request <- [c \in Placers |-> order[c]],
  phase <- [c \in Placers |-> Phase(c)]

(* Check, send and mark, in separate awaits of separate processes, decide  *)
(* like one step - as long as the calls for an order follow one another,   *)
(* Redis answers and no answer of the exchange is lost: an order is sent   *)
(* only if it was not accepted before and nobody else is sending it, and   *)
(* refused only if it was accepted.  A retry after a rejection is let      *)
(* through.                                                                *)
PlacesOnce ==
  /\ Disciplined => G!Init
  /\ [][Disciplined => G!Next]_(G!vars)

(* "Atomic check-and-set": while Redis answers, validate_and_mark lets one *)
(* caller through per order, overlapping or not.                           *)
ReservedOnce ==
  env.redis = "up" => \A o \in Orders : Cardinality(reserved[o]) <= 1

(* Whatever raises, overlaps or is lost, place_order refuses an order as a *)
(* duplicate only if the exchange has accepted it: a rejected order may be *)
(* placed again.                                                           *)
OnlyAcceptedIsRefused ==
  \A o \in Orders \ Reservable :
    o \in redis \/ (\E p \in Processes : o \in local[p]) => o \in accepted

(* While Redis answers nothing, the local store stands in for it: calls    *)
(* for an order that follow one another are let through once per process.  *)
(* An outage that begins or ends between two of them leaves no such        *)
(* promise: each store ignores what the other one holds.                   *)
ReservedOncePerProcess ==
  env.redis = "down" /\ env.serialized =>
    \A o \in Orders : \A p \in Processes :
      Cardinality({c \in reserved[o] : Home[c] = p}) <= 1

(* "Thread-safe duplicate detection" of orders: the same without the       *)
(* condition that calls do not overlap.                                    *)
OverlapDetected ==
  env.redis = "up" /\ ~env.losesReplies => SubmittedOnce

=============================================================================
