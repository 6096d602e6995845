-------------------------- MODULE PaperKillSwitch --------------------------
(***************************************************************************)
(* The paper trading kill switch of                                        *)
(* src/execution/paper/paper_kill_switch.py: a Redis key with a TTL, set   *)
(* and deleted by operators in a process of their own, and read through    *)
(* managers that keep the last answer for CACHE_TTL_SECONDS.  This module  *)
(* holds the object; SignalConsumer polls behind it.                       *)
(*                                                                         *)
(* Abstractions.  The reason, author and date are left out.  A tick is     *)
(* longer than a round trip to Redis, so get_status is one step, taken     *)
(* when Redis reads the key.  The rescue key paper:kill_switch:global,     *)
(* which nothing in the repository writes, is left out.                    *)
(***************************************************************************)
EXTENDS Naturals

CONSTANTS
  Managers,     \* each process has a PaperKillSwitchManager
  SwitchTtl,    \* ttl of an activation, in ticks
  CacheTtl      \* CACHE_TTL_SECONDS, in ticks

ASSUME SwitchAssumption == SwitchTtl \in Nat \ {0} /\ CacheTtl \in Nat \ {0}

VARIABLES
  remaining,    \* ticks until the key expires, 0 if there is none
  activeFor,    \* history: ticks the key has been there, up to CacheTtl
  cache         \* _status_cache with its age, Stale if it may not be used

switchVars == <<remaining, activeFor, cache>>

Stale == [active |-> FALSE, age |-> CacheTtl]

SwitchTypeOK ==
  /\ remaining \in 0..SwitchTtl
  /\ activeFor \in 0..CacheTtl
  /\ cache \in [Managers -> [active : BOOLEAN, age : 0..CacheTtl]]

SwitchInit ==
  /\ remaining = 0
  /\ activeFor = 0
  /\ cache = [m \in Managers |-> Stale]

Active == remaining > 0

UpTo(cap, n) == IF n > cap THEN cap ELSE n

Fresh(m) == cache[m].age < CacheTtl

(* Mutant: an answer from the cache renews it. *)
GetStatus_Slides(m, answer, mayRaise) ==
  \/ /\ Fresh(m)
     /\ answer = cache[m].active
     /\ cache' = [cache EXCEPT ![m].age = 0]
  \/ /\ ~Fresh(m)
     /\ answer = Active
     /\ cache' = [cache EXCEPT ![m] = [active |-> Active, age |-> 0]]
  \/ ~Fresh(m) /\ mayRaise /\ answer = FALSE /\ UNCHANGED cache

(* get_status answers: the cached status, what the key says, or, if Redis  *)
(* raises, inactive, which is not cached.                                  *)
GetStatus(m, answer, mayRaise) ==
  \/ Fresh(m) /\ answer = cache[m].active /\ UNCHANGED cache
  \/ /\ ~Fresh(m)
     /\ answer = Active
     /\ cache' = [cache EXCEPT ![m] = [active |-> Active, age |-> 0]]
  \/ ~Fresh(m) /\ mayRaise /\ answer = FALSE /\ UNCHANGED cache

(* activate_sync and deactivate_sync, called by the operators' CLI. *)
ActivateSwitch ==
  /\ remaining' = SwitchTtl
  /\ UNCHANGED <<activeFor, cache>>

DeactivateSwitch ==
  /\ Active
  /\ remaining' = 0
  /\ activeFor' = 0
  /\ UNCHANGED cache

Aged(c) == [c EXCEPT !.age = UpTo(CacheTtl, @ + 1)]

SwitchTick ==
  /\ Active \/ \E m \in Managers : Fresh(m)
  /\ remaining' = IF Active THEN remaining - 1 ELSE 0
  /\ activeFor' = IF remaining' > 0 THEN UpTo(CacheTtl, activeFor + 1) ELSE 0
  /\ cache' = [m \in Managers |-> Aged(cache[m])]

=============================================================================
