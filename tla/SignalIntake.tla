---------------------------- MODULE SignalIntake ----------------------------
(***************************************************************************)
(* What taking in signals promises, however many readers share the work:   *)
(* SignalConsumer implements this specification.                           *)
(*                                                                         *)
(* A signal may be put more than once, but one that is handed out goes to  *)
(* one taker, who puts it once, and where the takers remember, a processed *)
(* signal is not put again.  Only what was put is recorded, and a record   *)
(* is final.                                                               *)
(***************************************************************************)
EXTENDS Naturals

CONSTANTS
  Signals,
  HandedOut      \* signals that are given to one taker, not left to be found

VARIABLES
  puts,          \* how often each signal was put, up to twice
  processed,     \* signals recorded as processed
  settled,       \* signals recorded as done with where they came from
  remembers      \* whether the takers know what was processed

vars == <<puts, processed, settled, remembers>>

Init ==
  /\ puts = [s \in Signals |-> 0]
  /\ processed = {} /\ settled = {}
  /\ remembers \in BOOLEAN

Put(s) ==
  /\ s \in HandedOut => puts[s] = 0
  /\ remembers => s \notin processed
  /\ puts' = [puts EXCEPT ![s] = IF @ = 0 THEN 1 ELSE 2]
  /\ UNCHANGED <<processed, settled, remembers>>

Process(s) ==
  /\ puts[s] > 0
  /\ processed' = processed \cup {s}
  /\ UNCHANGED <<puts, settled, remembers>>

Settle(s) ==
  /\ puts[s] > 0
  /\ settled' = settled \cup {s}
  /\ UNCHANGED <<puts, processed, remembers>>

Next == \E s \in Signals : Put(s) \/ Process(s) \/ Settle(s)

Spec == Init /\ [][Next]_vars

=============================================================================
