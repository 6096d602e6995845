\* Late results, operators, and probes that report or do not.
SPECIFICATION FairSpec
CONSTANTS
  c1 = c1  c2 = c2  c3 = c3
  Callers <- MCCallers
  FailureThreshold = 2
  HalfOpenMaxCalls = 2
  Timeout = 2
INVARIANTS TypeOK ProbesBounded EvidenceIsFresh NeverWedged
PROPERTIES StepsOfBreaker RecoversWithService
