--------------------------- MODULE FailoverProofs ---------------------------
(***************************************************************************)
(* Theorems about Failover: the types, and that without forced targets the *)
(* state always names the kind of instance that is active.                 *)
(***************************************************************************)
EXTENDS Failover, WellFoundedInduction, TLAPS

(* A set of naturals has a least element. *)
LEMMA LeastNatural ==
  ASSUME NEW T, T \subseteq Nat, T # {}
  PROVE  \E m \in T : \A n \in T : m <= n
<1>1. PICK m \in T : \A n \in T : <<n, m>> \notin OpToRel(<, Nat)
  BY Zenon, WFMin, NatLessThanWellFounded
<1>2. OpToRel(<, Nat) = {ss \in Nat \X Nat : ss[1] < ss[2]}
  BY Zenon DEF OpToRel
<1>3. \A n \in T : ~(n < m)
  <2> DEFINE below == OpToRel(<, Nat)
  <2>1. below = {ss \in Nat \X Nat : ss[1] < ss[2]}
    BY <1>2
  <2>2. \A n \in T : <<n, m>> \notin below
    BY <1>1
  <2> HIDE DEF below
  <2> QED BY <2>1, <2>2
<1> QED BY <1>3

(* Some candidate has the smallest rank, and Best is such a candidate. *)
LEMMA BestIsCandidate ==
  ASSUME NEW candidates \in SUBSET Instances, candidates # {}
  PROVE  Best(candidates) \in candidates
<1> DEFINE ranks == {Rank[i] : i \in candidates}
<1>1. ranks \subseteq Nat /\ ranks # {}
  BY FailoverAssumption DEF FailoverAssumption
<1>2. PICK m \in ranks : \A n \in ranks : m <= n
  <2> HIDE DEF ranks
  <2> QED BY <1>1, LeastNatural
<1>3. \E i \in candidates : \A j \in candidates : Rank[i] <= Rank[j]
  BY <1>2
<1> QED BY <1>3 DEF Best

(* What the two counters are after a report. *)
LEMMA CountedTypes ==
  ASSUME failures \in [Instances -> 0..FailureThreshold],
         successes \in [Instances -> 0..RecoveryThreshold],
         NEW i \in Instances, NEW status \in Statuses, Counted(i, status)
  PROVE  /\ failures' \in [Instances -> 0..FailureThreshold]
         /\ successes' \in [Instances -> 0..RecoveryThreshold]
BY FailoverAssumption DEF FailoverAssumption, Counted, UpTo, Statuses

(***************************************************************************)
(* The routing operators keep a route well-typed and its active instance   *)
(* among those known, and give the state the name of what they activated.  *)
(***************************************************************************)
Routed(r, known) == r \in Routes /\ r.active \in known \cup {NoInstance}

Named(r, known) ==
  /\ r.state = "PRIMARY_ACTIVE" => r.active = Primary /\ Primary \in known
  /\ r.state = "SECONDARY_ACTIVE" => r.active \in known \ {Primary}

LEMMA FailedOverRoutes ==
  ASSUME NEW known \in SUBSET Instances, NEW r, Routed(r, known),
         NEW status \in [Instances -> Statuses]
  PROVE  /\ Routed(FailedOver(r, Backups(known, status)), known)
         /\ Named(FailedOver(r, Backups(known, status)), known)
<1> DEFINE candidates == Backups(known, status)
<1>1. candidates \subseteq known \ {Primary}
  BY DEF Backups
<1>2. CASE candidates = {}
  BY <1>2 DEF FailedOver, Unavailable, Routed, Named, Routes
<1>3. CASE candidates # {}
  <2>1. Best(candidates) \in candidates
    BY <1>1, <1>3, BestIsCandidate
  <2> HIDE DEF candidates
  <2>2. PICK b \in known \ {Primary} : b = Best(candidates)
    BY <1>1, <2>1
  <2>3. FailedOver(r, candidates)
          = Activated(Deactivated(r), b, "SECONDARY_ACTIVE")
    BY <1>3, <2>2 DEF FailedOver
  <2> QED BY <2>2, <2>3
      DEF Routed, Named, Routes, Activated, Deactivated, candidates
<1> QED BY <1>2, <1>3

LEMMA FailedBackRoutes ==
  ASSUME NEW known \in SUBSET Instances, NEW r, Routed(r, known),
         Primary \in known
  PROVE  Routed(FailedBack(r), known) /\ Named(FailedBack(r), known)
BY FailoverAssumption
   DEF FailoverAssumption, FailedBack, Activated, Deactivated, Routed, Named, Routes

-----------------------------------------------------------------------------
(* The inductive invariant: the types, and unless operators name a target  *)
(* the agreement of state and active instance.                             *)
IInv == TypeOK /\ (~env.namesTarget => Named(route, registered))

LEMMA InitIInv == Init => IInv
<1> SUFFICES ASSUME Init PROVE IInv
  OBVIOUS
<1> USE FailoverAssumption DEF FailoverAssumption, Init
<1>1. Horizon \in Nat
  BY DEF Horizon
<1>2. health \in [Instances -> Statuses]
  BY DEF Statuses
<1>3. /\ failures \in [Instances -> 0..FailureThreshold]
      /\ successes \in [Instances -> 0..RecoveryThreshold]
  OBVIOUS
<1>4. route \in Routes /\ route.active \in registered \cup {NoInstance}
  BY DEF Routes
<1>5. Named(route, registered)
  BY DEF Named
<1> QED BY <1>1, <1>2, <1>3, <1>4, <1>5 DEF IInv, TypeOK

LEMMA NextIInv == IInv /\ [Next]_vars => IInv'
<1> SUFFICES ASSUME IInv, [Next]_vars PROVE IInv'
  OBVIOUS
<1> USE FailoverAssumption DEF FailoverAssumption
<1>0. /\ Horizon \in Nat /\ Never \notin Nat
      /\ registered \in SUBSET Instances
      /\ Routed(route, registered) /\ (~env.namesTarget => Named(route, registered))
  BY DEF Horizon, Never, IInv, TypeOK, Routed
<1>1. ASSUME NEW i \in Instances, CheckHealth(i) PROVE IInv'
  <2>1. PICK status \in Statuses : UpdateHealth(i, status)
    BY <1>1 DEF CheckHealth
  <2>2. /\ health' \in [Instances -> Statuses]
        /\ failures' \in [Instances -> 0..FailureThreshold]
        /\ successes' \in [Instances -> 0..RecoveryThreshold]
        /\ registered' = registered
        /\ lastCheck' \in BOOLEAN /\ env' = env
    BY <2>1, CountedTypes DEF UpdateHealth, IInv, TypeOK
  <2> DEFINE candidates == Backups(registered, health')
             failsOver == ShouldFailOver(i, failures')
             r == IF failsOver THEN FailedOver(route, candidates) ELSE route
             elapsed == IF failsOver /\ candidates # {} THEN 0 ELSE since
             failsBack == ShouldFailBack(r, elapsed, successes', health')
  <2>3. since' = elapsed /\ route' = IF failsBack THEN FailedBack(r) ELSE r
    BY <2>1 DEF UpdateHealth
  <2>4. since' \in {Never} \cup 0..Horizon
    BY <2>3, <1>0 DEF IInv, TypeOK
  <2>5. Routed(r, registered) /\ (~env.namesTarget => Named(r, registered))
    <3>1. /\ Routed(FailedOver(route, candidates), registered)
          /\ Named(FailedOver(route, candidates), registered)
      BY <1>0, <2>2, FailedOverRoutes
    <3> QED BY <1>0, <3>1
  <2>6. failsBack => Primary \in registered
    BY DEF ShouldFailBack
  <2>7. Routed(route', registered) /\ (~env.namesTarget => Named(route', registered))
    <3> HIDE DEF r, failsBack
    <3> QED BY <1>0, <2>3, <2>5, <2>6, FailedBackRoutes
  <2> QED BY <2>2, <2>4, <2>7 DEF IInv, TypeOK, Routed
<1>2. ASSUME NEW i \in Instances, NEW status \in Statuses, Register(i, status)
      PROVE IInv'
  <2>1. /\ registered' \in SUBSET Instances
        /\ health' \in [Instances -> Statuses]
        /\ failures' \in [Instances -> 0..FailureThreshold]
        /\ successes' \in [Instances -> 0..RecoveryThreshold]
        /\ UNCHANGED <<since, lastCheck, env>>
    BY <1>2 DEF Register, IInv, TypeOK
  <2>2. Routed(route', registered') /\ (~env.namesTarget => Named(route', registered'))
    BY <1>0, <1>2 DEF Register, WithoutFlag, Activated, Routed, Named, Routes
  <2> QED BY <2>1, <2>2 DEF IInv, TypeOK, Routed
<1>3. ASSUME NEW i \in Instances, Unregister(i) PROVE IInv'
  <2>1. /\ registered' \in SUBSET Instances
        /\ failures' \in [Instances -> 0..FailureThreshold]
        /\ successes' \in [Instances -> 0..RecoveryThreshold]
        /\ UNCHANGED <<health, since, lastCheck, env>>
    BY <1>3 DEF Unregister, IInv, TypeOK
  <2>2. Routed(route', registered') /\ (~env.namesTarget => Named(route', registered'))
    BY <1>0, <1>3 DEF Unregister, WithoutFlag, Unavailable, Routed, Named, Routes
  <2> QED BY <2>1, <2>2 DEF IInv, TypeOK, Routed
<1>4. ASSUME NEW i \in Instances, ForceFailoverTo(i) PROVE IInv'
  <2>1. Routed(route', registered)
    BY <1>0, <1>4 DEF ForceFailoverTo, Activated, Deactivated, Routed, Routes
  <2> QED BY <1>0, <1>4, <2>1 DEF ForceFailoverTo, IInv, TypeOK, Routed
<1>5. ASSUME ForceFailover PROVE IInv'
  <2>1. health \in [Instances -> Statuses]
    BY DEF IInv, TypeOK
  <2>2. Routed(route', registered) /\ Named(route', registered)
    BY <1>0, <1>5, <2>1, FailedOverRoutes DEF ForceFailover
  <2> QED BY <1>0, <1>5, <2>2 DEF ForceFailover, IInv, TypeOK, Routed
<1>6. ASSUME Tick PROVE IInv'
  BY <1>0, <1>6 DEF Tick, IInv, TypeOK, Never
<1>7. ASSUME UNCHANGED vars PROVE IInv'
  BY <1>7 DEF vars, IInv, TypeOK
<1> QED BY <1>1, <1>2, <1>3, <1>4, <1>5, <1>6, <1>7 DEF Next

LEMMA Invariance == Spec => []IInv
BY InitIInv, NextIInv, PTL DEF Spec

(* The types hold, and the active instance is always a registered one.     *)
THEOREM TypeCorrect == Spec => []TypeOK
<1>1. IInv => TypeOK
  BY DEF IInv
<1> QED BY Invariance, <1>1, PTL

(* However reports, registrations and automatic failovers are ordered, the *)
(* state names the kind of instance that is active.                        *)
THEOREM StateNamesActive == Spec => []StateMatchesActive
<1>1. IInv => StateMatchesActive
  BY DEF IInv, Named, StateMatchesActive
<1> QED BY Invariance, <1>1, PTL

-----------------------------------------------------------------------------
(* The flags follow the active instance through every internal method.     *)
Serves(r) == r.serving = {r.active}

LEMMA RoutingServes ==
  ASSUME NEW r, Serves(r), NEW i, NEW state, NEW candidates
  PROVE  /\ Serves(Activated(Deactivated(r), i, state))
         /\ Serves(FailedOver(r, candidates)) /\ Serves(FailedBack(r))
<1>1. \A j, s : Serves(Activated(Deactivated(r), j, s))
  BY DEF Serves, Activated, Deactivated
<1>2. Serves(Unavailable(r, r.active))
  BY DEF Serves, Unavailable
<1> QED
  BY <1>1, <1>2 DEF FailedOver, FailedBack

LEMMA ServingStep ==
  ASSUME ~env.membershipChanges, Serves(route), [Next]_vars
  PROVE  Serves(route') /\ ~env'.membershipChanges
<1>1. ASSUME NEW i \in Instances, CheckHealth(i)
      PROVE  Serves(route') /\ env' = env
  <2>1. PICK status \in Statuses : UpdateHealth(i, status)
    BY <1>1 DEF CheckHealth
  <2>2. env' = env /\ \E r \in {route, FailedOver(route, Backups(registered, health'))} :
                        route' = r \/ route' = FailedBack(r)
    BY <2>1 DEF UpdateHealth
  <2> QED
    BY <2>2, RoutingServes
<1>2. ASSUME NEW i \in Instances, ForceFailoverTo(i)
      PROVE  Serves(route') /\ env' = env
  BY <1>2, RoutingServes DEF ForceFailoverTo
<1>3. ASSUME ForceFailover
      PROVE  Serves(route') /\ env' = env
  BY <1>3, RoutingServes DEF ForceFailover
<1>4. ASSUME Tick \/ UNCHANGED vars
      PROVE  UNCHANGED <<route, env>>
  BY <1>4 DEF Tick, vars
<1> QED
  BY <1>1, <1>2, <1>3, <1>4 DEF Next, Register, Unregister, Serves

(* Where the instances stay the same, exactly the active one is marked,    *)
(* whatever fails over, fails back or is forced.                           *)
THEOREM OneIsServing == Spec => []OneServing
<1> DEFINE SInv == ~env.membershipChanges => Serves(route)
<1>1. Init => SInv
  BY DEF Init, Serves
<1>2. SInv /\ [Next]_vars => SInv'
  <2>1. [Next]_vars => env' = env
    BY DEF Next, CheckHealth, UpdateHealth, Register, Unregister,
           ForceFailoverTo, ForceFailover, Tick, vars
  <2> QED
    BY <2>1, ServingStep
<1>3. SInv => OneServing
  BY DEF OneServing, Serves
<1> QED
  BY <1>1, <1>2, <1>3, PTL DEF Spec

=============================================================================
