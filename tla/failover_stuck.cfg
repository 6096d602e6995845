\* Every instance recovers.
SPECIFICATION FairSpec
CONSTANTS
  a = a  b = b  c = c
  Instances = {a, b}
  Primary = a
  NoInstance = NoInstance
  Rank <- MCRank
  FailureThreshold = 2
  RecoveryThreshold = 2
  Cooldown = 1
  FailbackDelay = 2
  AutoFailback = TRUE
  Volatile = {}
PROPERTIES AvailableWhenHealthy
