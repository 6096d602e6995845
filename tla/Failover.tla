------------------------------ MODULE Failover ------------------------------
(***************************************************************************)
(* The failover manager of src/infrastructure/ha/failover.py: which of the *)
(* registered instances of a service is active, as health reports and      *)
(* operators move it.  Every method is synchronous, so one step; the       *)
(* monitor loop only sleeps and is left out, as are the callbacks, which   *)
(* see the steps and decide nothing.                                       *)
(*                                                                         *)
(* Abstractions.  A service has one primary.  (priority, -weight) is a     *)
(* rank.  The consecutive counters are read only against their thresholds  *)
(* and stop there; the time since the last failover stops at Horizon.      *)
(***************************************************************************)
EXTENDS Integers, FiniteSets

CONSTANTS
  Instances,
  Primary,             \* the instance with is_primary
  NoInstance,
  Rank,                \* (priority, -weight), smallest first
  FailureThreshold,    \* failure_threshold
  RecoveryThreshold,   \* recovery_threshold
  Cooldown,            \* cooldown_seconds, in ticks
  FailbackDelay,       \* failback_delay_seconds, in ticks
  AutoFailback,        \* auto_failback
  Volatile             \* instances that may come and go

ASSUME FailoverAssumption ==
  /\ Primary \in Instances
  /\ NoInstance \notin Instances
  /\ Rank \in [Instances -> Nat]
  /\ FailureThreshold \in Nat \ {0} /\ RecoveryThreshold \in Nat \ {0}
  /\ Cooldown \in Nat /\ FailbackDelay \in Nat
  /\ AutoFailback \in BOOLEAN
  /\ Volatile \subseteq Instances

VARIABLES
  registered,   \* the keys of _instances
  health,       \* health_status of each instance
  failures,     \* _consecutive_failures
  successes,    \* _consecutive_successes
  route,        \* the fields below
  since,        \* now - _last_failover_time, Never before the first failover
  lastCheck,    \* stands for last_check: every report changes it
  env           \* the conditions of this behaviour, chosen once

(* route.state is _state, route.active _active_instance_id, route.serving  *)
(* the instances with is_active.  FAILOVER_IN_PROGRESS is left within the  *)
(* call that enters it.                                                    *)
Routes == [state : {"PRIMARY_ACTIVE", "SECONDARY_ACTIVE", "UNAVAILABLE"},
           active : Instances \cup {NoInstance},
           serving : SUBSET Instances]

vars == <<registered, health, failures, successes, route, since, lastCheck, env>>

(* membershipChanges: the volatile instances do come and go; namesTarget:  *)
(* operators force failovers to an instance they name.                     *)
Environments == [membershipChanges : BOOLEAN, namesTarget : BOOLEAN]

(* "degraded" and "unknown" are one: neither counts, neither is chosen. *)
Statuses == {"healthy", "degraded", "unhealthy"}

Never == -1

Horizon == IF Cooldown > FailbackDelay THEN Cooldown ELSE FailbackDelay

TypeOK ==
  /\ registered \subseteq Instances
  /\ health \in [Instances -> Statuses]
  /\ failures \in [Instances -> 0..FailureThreshold]
  /\ successes \in [Instances -> 0..RecoveryThreshold]
  /\ route \in Routes
  /\ since \in {Never} \cup 0..Horizon
  /\ lastCheck \in BOOLEAN
  /\ env \in Environments
  /\ route.active \in registered \cup {NoInstance}

(* The instances have been registered: the primary was activated as the    *)
(* first one, or because nothing was active yet.                           *)
Init ==
  /\ registered = Instances
  /\ health \in [Instances -> {"healthy", "degraded"}]
  /\ failures = [i \in Instances |-> 0]
  /\ successes = [i \in Instances |-> 0]
  /\ route = [state |-> "PRIMARY_ACTIVE", active |-> Primary,
              serving |-> {Primary}]
  /\ since = Never
  /\ lastCheck = FALSE
  /\ env \in Environments

-----------------------------------------------------------------------------
(* _activate_instance, after the caller cleared is_active of the old one:  *)
(* the state is left to the caller unless the primary is activated.        *)
Activated(r, i, otherwise) ==
  [state |-> IF i = Primary THEN "PRIMARY_ACTIVE" ELSE otherwise,
   active |-> i,
   serving |-> r.serving \cup {i}]

Deactivated(r) ==
  [state |-> r.state, active |-> r.active, serving |-> r.serving \ {r.active}]

Unavailable(r, i) ==
  [state |-> "UNAVAILABLE", active |-> i, serving |-> r.serving]

(* _get_best_backup_instance: never the primary. *)
Backups(known, status) ==
  {i \in known : i # Primary /\ status[i] = "healthy"}

Best(candidates) ==
  CHOOSE i \in candidates : \A j \in candidates : Rank[i] <= Rank[j]

(* Mutant: _state still names the primary. *)
FailedOver_KeepsState(r, candidates) ==
  IF candidates = {}
    THEN Unavailable(r, r.active)
    ELSE Activated(Deactivated(r), Best(candidates), r.state)

(* _perform_failover and _perform_failback. *)
FailedOver(r, candidates) ==
  IF candidates = {}
    THEN Unavailable(r, r.active)
    ELSE Activated(Deactivated(r), Best(candidates), "SECONDARY_ACTIVE")

(* Mutant: the backup stays active. *)
FailedBack_KeepsBackup(r) == Activated(r, Primary, r.state)

FailedBack(r) == Activated(Deactivated(r), Primary, r.state)

(* Mutant: without an earlier failover there is nothing to compare with. *)
CooledDown_Never == since # Never /\ since >= Cooldown

(* _should_failover and _should_failback. *)
CooledDown == since = Never \/ since >= Cooldown

ShouldFailOver(i, failed) ==
  route.active = i /\ CooledDown /\ failed[i] >= FailureThreshold

ShouldFailBack(r, elapsed, succeeded, status) ==
  /\ AutoFailback
  /\ r.state = "SECONDARY_ACTIVE"
  /\ Primary \in registered
  /\ elapsed # Never /\ elapsed >= FailbackDelay
  /\ succeeded[Primary] >= RecoveryThreshold
  /\ status[Primary] = "healthy"

UpTo(cap, n) == IF n > cap THEN cap ELSE n

(* Mutant: a success does not add to the ones before it. *)
Counted_Restarts(i, status) ==
  \/ /\ status = "unhealthy"
     /\ failures' = [failures EXCEPT ![i] = UpTo(FailureThreshold, @ + 1)]
     /\ successes' = [successes EXCEPT ![i] = 0]
  \/ /\ status = "healthy"
     /\ failures' = [failures EXCEPT ![i] = 0]
     /\ successes' = [successes EXCEPT ![i] = 1]
  \/ /\ status = "degraded"
     /\ UNCHANGED <<failures, successes>>

(* The two counters after a report; "degraded" touches neither.             *)
Counted(i, status) ==
  \/ /\ status = "unhealthy"
     /\ failures' = [failures EXCEPT ![i] = UpTo(FailureThreshold, @ + 1)]
     /\ successes' = [successes EXCEPT ![i] = 0]
  \/ /\ status = "healthy"
     /\ failures' = [failures EXCEPT ![i] = 0]
     /\ successes' = [successes EXCEPT ![i] = UpTo(RecoveryThreshold, @ + 1)]
  \/ /\ status = "degraded"
     /\ UNCHANGED <<failures, successes>>

(* update_instance_health: count, fail over, then fail back. *)
UpdateHealth(i, status) ==
  /\ i \in registered
  /\ health' = [health EXCEPT ![i] = status]
  /\ Counted(i, status)
  /\ LET candidates == Backups(registered, health')
         failsOver == ShouldFailOver(i, failures')
         r == IF failsOver THEN FailedOver(route, candidates) ELSE route
         elapsed == IF failsOver /\ candidates # {} THEN 0 ELSE since
     IN  /\ since' = elapsed
         /\ route' = IF ShouldFailBack(r, elapsed, successes', health')
                       THEN FailedBack(r) ELSE r
  /\ lastCheck' = ~lastCheck
  /\ UNCHANGED <<registered, env>>

-----------------------------------------------------------------------------
(* The route once the InstanceInfo of i, with its is_active, is gone. *)
WithoutFlag(i) ==
  [state |-> route.state, active |-> route.active, serving |-> route.serving \ {i}]

(* register_instance: a new InstanceInfo replaces one of the same id. *)
Register(i, status) ==
  /\ env.membershipChanges /\ i \in Volatile
  /\ registered' = registered \cup {i}
  /\ health' = [health EXCEPT ![i] = status]
  /\ failures' = [failures EXCEPT ![i] = 0]
  /\ successes' = [successes EXCEPT ![i] = 0]
  /\ LET r == WithoutFlag(i)
     IN  route' = IF i = Primary /\ (registered' = {i} \/ r.state = "UNAVAILABLE")
                    THEN Activated(r, i, r.state) ELSE r
  /\ UNCHANGED <<since, lastCheck, env>>

(* Mutant: the instance removed stays the active one. *)
Unregister_KeepsActive(i) ==
  /\ env.membershipChanges /\ i \in Volatile
  /\ i \in registered
  /\ registered' = registered \ {i}
  /\ failures' = [failures EXCEPT ![i] = 0]
  /\ successes' = [successes EXCEPT ![i] = 0]
  /\ UNCHANGED <<health, route, since, lastCheck, env>>

Unregister(i) ==
  /\ env.membershipChanges /\ i \in Volatile
  /\ i \in registered
  /\ registered' = registered \ {i}
  /\ failures' = [failures EXCEPT ![i] = 0]
  /\ successes' = [successes EXCEPT ![i] = 0]
  /\ route' = IF route.active = i THEN Unavailable(WithoutFlag(i), NoInstance)
                                 ELSE WithoutFlag(i)
  /\ UNCHANGED <<health, since, lastCheck, env>>

(* force_failover: with a target _state changes only if it is the primary. *)
ForceFailoverTo(i) ==
  /\ env.namesTarget
  /\ i \in registered /\ health[i] = "healthy"
  /\ route' = Activated(Deactivated(route), i, route.state)
  /\ since' = 0
  /\ UNCHANGED <<registered, health, failures, successes, lastCheck, env>>

ForceFailover ==
  /\ route' = FailedOver(route, Backups(registered, health))
  /\ since' = IF Backups(registered, health) = {} THEN since ELSE 0
  /\ UNCHANGED <<registered, health, failures, successes, lastCheck, env>>

Tick ==
  /\ since # Never /\ since < Horizon
  /\ since' = since + 1
  /\ UNCHANGED <<registered, health, failures, successes, route, lastCheck, env>>

CheckHealth(i) == \E status \in Statuses : UpdateHealth(i, status)

Next ==
  \/ \E i \in Instances :
       \/ CheckHealth(i)
       \/ \E status \in Statuses : Register(i, status)
       \/ Unregister(i)
       \/ ForceFailoverTo(i)
  \/ ForceFailover
  \/ Tick

Spec == Init /\ [][Next]_vars

(* Time passes.  Nothing here makes the reports of health come: the        *)
(* properties that need them suppose them.                                 *)
Fairness == WF_vars(Tick)

FairSpec == Spec /\ Fairness

-----------------------------------------------------------------------------
(* Somebody keeps calling update_instance_health for every instance.  No   *)
(* loop of src/infrastructure/ha does: the periodic checks of              *)
(* health_check.py call no callback, and the manager's callback passes the *)
(* name of a service, which is no instance's.                              *)
ReportsKeepComing == \A i \in Instances : []<><<CheckHealth(i)>>_vars

(* The state tells which kind of instance is active, so that failback is   *)
(* tried exactly when a backup serves, through every order of reports,     *)
(* registrations and failovers, unless operators name the target.          *)
StateMatchesActive ==
  ~env.namesTarget =>
    /\ route.state = "PRIMARY_ACTIVE" =>
         route.active = Primary /\ Primary \in registered
    /\ route.state = "SECONDARY_ACTIVE" =>
         route.active \in registered \ {Primary}

(* Where the instances stay the same, exactly the active one is marked     *)
(* is_active, forced failovers included.                                   *)
OneServing == ~env.membershipChanges => route.serving = {route.active}

(* Where the instances stay the same, an active one that stays unhealthy   *)
(* is left for a backup that stays healthy, in spite of the cooldown, as   *)
(* long as reports keep coming.                                            *)
LeavesFailedInstance ==
  ~env.membershipChanges /\ ReportsKeepComing =>
    \A b \in Instances \ {Primary} :
      ~<>[](/\ \E i \in Instances : route.active = i /\ health[i] = "unhealthy"
            /\ health[b] = "healthy")

(* A backup gives way to a primary that stays healthy and keeps being      *)
(* reported, or the service becomes unavailable, unless there is one       *)
(* failover after another: each of them restarts the failback delay.       *)
FailsBack ==
  ~env.membershipChanges
  /\ []<><<CheckHealth(Primary)>>_vars
  /\ <>[](health[Primary] = "healthy")
  /\ <>[](since # 0)
  => []<>(route.state # "SECONDARY_ACTIVE")

(* "Critical functions must remain available": the manager does not report *)
(* UNAVAILABLE for ever while every instance is healthy and keeps being    *)
(* reported so.                                                            *)
AvailableWhenHealthy ==
  ReportsKeepComing
  /\ <>[](registered = Instances /\ \A i \in Instances : health[i] = "healthy")
  => []<>(route.state # "UNAVAILABLE")

=============================================================================
