\* A probe that ends unreported keeps its slot.
SPECIFICATION FairSpec
CONSTANTS
  c1 = c1  c2 = c2  c3 = c3
  Callers <- MCCallers
  FailureThreshold = 2
  HalfOpenMaxCalls = 2
  Timeout = 2
PROPERTIES BlocksOnlyTemporarily
