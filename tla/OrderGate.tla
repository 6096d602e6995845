----------------------------- MODULE OrderGate ------------------------------
(***************************************************************************)
(* Duplicate detection as a caller wants to see it: one step decides       *)
(* whether an order may be sent, and it knows all that was decided and     *)
(* accepted before.  OrderIdempotency implements this specification while  *)
(* calls for one order follow one another, Redis answers and no answer of  *)
(* the exchange is lost.                                                   *)
(***************************************************************************)
CONSTANTS Callers, Orders

VARIABLES
  request,     \* the order each caller last asked for
  phase,       \* what each caller may do with it
  accepted     \* orders the exchange has accepted

vars == <<request, phase, accepted>>

Init ==
  /\ phase = [c \in Callers |-> "idle"]
  /\ accepted = {}

Holders(o) == {c \in Callers : phase[c] # "idle" /\ request[c] = o}

(* An order that was accepted, or is being sent, is not sent again.        *)
Grant(c, o) ==
  /\ phase[c] = "idle"
  /\ o \notin accepted /\ Holders(o) = {}
  /\ request' = [request EXCEPT ![c] = o]
  /\ phase' = [phase EXCEPT ![c] = "granted"]
  /\ UNCHANGED accepted

(* One that was rejected is not a duplicate.                               *)
Refuse(c, o) ==
  /\ phase[c] = "idle"
  /\ o \in accepted
  /\ request' = [request EXCEPT ![c] = o]
  /\ UNCHANGED <<phase, accepted>>

Decide(c) ==
  /\ phase[c] = "granted"
  /\ phase' = [phase EXCEPT ![c] = "decided"]
  /\ UNCHANGED request

Accept(c) == Decide(c) /\ accepted' = accepted \cup {request[c]}

Reject(c) == Decide(c) /\ UNCHANGED accepted

Finish(c) ==
  /\ phase[c] = "decided"
  /\ phase' = [phase EXCEPT ![c] = "idle"]
  /\ UNCHANGED <<request, accepted>>

Next ==
  \E c \in Callers :
    \/ \E o \in Orders : Grant(c, o) \/ Refuse(c, o)
    \/ Accept(c) \/ Reject(c) \/ Finish(c)

=============================================================================
