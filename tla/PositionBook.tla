---------------------------- MODULE PositionBook ----------------------------
(***************************************************************************)
(* What a trading engine promises about its positions, whichever tasks     *)
(* open and close them: PaperOrchestrator implements this specification.   *)
(*                                                                         *)
(* A position is opened where no other one of its symbol is open, as long  *)
(* as somebody keeps that symbol exclusive; it is closed once, and then    *)
(* its profit is owed and booked once.  An interruption may lose a         *)
(* position or a profit, but only of what it is an excuse for.             *)
(***************************************************************************)
CONSTANTS Positions

VARIABLES
  symbol,      \* of each position
  exclusive,   \* symbols that keep to one open position
  excused,     \* positions somebody was interrupted over
  phase        \* of each position

vars == <<symbol, exclusive, excused, phase>>

Init ==
  /\ excused = {}
  /\ phase = [p \in Positions |-> "none"]

OpenOn(s) == {p \in Positions : phase[p] = "open" /\ symbol[p] = s}

Move(p, from, to) ==
  /\ phase[p] = from
  /\ phase' = [phase EXCEPT ![p] = to]
  /\ UNCHANGED <<symbol, exclusive, excused>>

Open(p) ==
  /\ symbol[p] \in exclusive => OpenOn(symbol[p]) = {}
  /\ Move(p, "none", "open")

Close(p) == Move(p, "open", "owed")

Book(p) == Move(p, "owed", "booked")

Losable == {p \in Positions : phase[p] \in {"open", "owed"}}

Interrupt ==
  /\ excused \subseteq excused'
  /\ \E lost \in SUBSET (Losable \cap excused') :
       phase' = [p \in Positions |-> IF p \in lost THEN "lost" ELSE phase[p]]
  /\ UNCHANGED <<symbol, exclusive>>

(* A symbol is exclusive no longer. *)
Expose ==
  /\ exclusive' \subseteq exclusive
  /\ UNCHANGED <<symbol, excused, phase>>

Next ==
  \/ \E p \in Positions : Open(p) \/ Close(p) \/ Book(p)
  \/ Interrupt \/ Expose

Spec == Init /\ [][Next]_vars

=============================================================================
