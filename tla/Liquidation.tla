---------------------------- MODULE Liquidation ----------------------------
(***************************************************************************)
(* What an emergency stop promises about the positions of a portfolio,     *)
(* whoever triggers it, commands it and answers it: KillSwitch implements  *)
(* this specification.                                                     *)
(*                                                                         *)
(* When the positions are listed, every one that is open in the books is   *)
(* owed.  An owed position is settled by an order that the market has      *)
(* accepted, or reported as failed, and nothing else ends what is owed but *)
(* a command that takes the switch back.  The market executes orders in    *)
(* its own time and not always in full; it never turns a position round.   *)
(* The books close on an accepted order, which may be too early, but never *)
(* without one.                                                            *)
(***************************************************************************)
EXTENDS Naturals

CONSTANTS Positions

VARIABLES
  switch,     \* "armed", "triggered", "liquidating" or "disabled"
  market,     \* what the market holds of each position
  working,    \* accepted orders not yet executed
  books,      \* what the portfolio says of it
  owed,       \* positions the liquidation has still to settle or report
  reported    \* positions reported as not closed

vars == <<switch, market, working, books, owed, reported>>

Init ==
  /\ switch = "armed"
  /\ market = [p \in Positions |-> "none"]
  /\ working = [p \in Positions |-> 0]
  /\ books = [p \in Positions |-> "none"]
  /\ owed = {}
  /\ reported = {}

-----------------------------------------------------------------------------
(* The switch.                                                             *)

Trigger ==
  /\ switch \in {"armed", "disabled"}
  /\ switch' = "triggered"
  /\ UNCHANGED <<market, working, books, owed, reported>>

List ==
  /\ switch = "triggered"
  /\ switch' = "liquidating"
  /\ owed' = {p \in Positions : books[p] = "open"}
  /\ reported' = {}
  /\ UNCHANGED <<market, working, books>>

Command ==
  /\ switch' \in {"armed", "disabled"}
  /\ owed' = {}
  /\ reported' = {}
  /\ UNCHANGED <<market, working, books>>

-----------------------------------------------------------------------------
(* The market.                                                             *)

Held(p) == market[p] \in {"open", "rest"}

Open(p) ==
  /\ market[p] = "none"
  /\ market' = [market EXCEPT ![p] = "open"]
  /\ UNCHANGED <<switch, working, books, owed, reported>>

(* Nobody orders what the books never had. *)
Accept(p) ==
  /\ Held(p) /\ books[p] # "none"
  /\ working' = [working EXCEPT ![p] = @ + 1]
  /\ UNCHANGED <<switch, market, books, owed, reported>>

(* Against what is left when its turn comes. *)
Execute(p) ==
  /\ working[p] > 0
  /\ working' = [working EXCEPT ![p] = @ - 1]
  /\ \/ UNCHANGED market /\ ~Held(p)
     \/ /\ Held(p)
        /\ \E holding \in {"rest", "closed"} :
             market' = [market EXCEPT ![p] = holding]
  /\ UNCHANGED <<switch, books, owed, reported>>

Close(p) ==
  /\ Held(p)
  /\ market' = [market EXCEPT ![p] = "closed"]
  /\ UNCHANGED <<switch, working, books, owed, reported>>

-----------------------------------------------------------------------------
(* The books and the list.                                                 *)

Ordered(p) == working[p] > 0 \/ market[p] \in {"rest", "closed"}

(* An update tells the books what the market held, then or earlier. *)
Update(p) ==
  /\ \/ market[p] # "none" /\ books' = [books EXCEPT ![p] = "open"]
     \/ market[p] = "closed" /\ books' = [books EXCEPT ![p] = "closed"]
  /\ UNCHANGED <<switch, market, working, owed, reported>>

Book(p) ==
  /\ Ordered(p) /\ books[p] # "none"
  /\ books' = [books EXCEPT ![p] = "closed"]
  /\ UNCHANGED <<switch, market, working, owed, reported>>

Settle(p) ==
  /\ p \in owed /\ Ordered(p)
  /\ owed' = owed \ {p}
  /\ UNCHANGED <<switch, market, working, books, reported>>

Report(p) ==
  /\ p \in owed
  /\ owed' = owed \ {p}
  /\ reported' = reported \cup {p}
  /\ UNCHANGED <<switch, market, working, books>>

Next ==
  \/ Trigger \/ List \/ Command
  \/ \E p \in Positions :
       \/ Open(p) \/ Accept(p) \/ Execute(p) \/ Close(p)
       \/ Update(p) \/ Book(p) \/ Settle(p) \/ Report(p)

Spec == Init /\ [][Next]_vars

=============================================================================
