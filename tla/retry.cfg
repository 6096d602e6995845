\* The fewest slots that can close the breaker; tasks may be cancelled, and
\* once all probes were the breaker really is stuck.
SPECIFICATION FairSpec
CONSTANTS
  t1 = t1  t2 = t2  t3 = t3
  Tasks <- MCTasks
  FailureThreshold = 2
  RecoveryTimeout = 2
  HalfOpenMaxCalls = 1
  SuccessThreshold = 2
CHECK_DEADLOCK FALSE
INVARIANTS TypeOK ProbesBounded NeverWedged
PROPERTIES StepsOfBreaker NeverBlockedForGood
