\* A primary that comes and goes and two backups; forced failovers.
SPECIFICATION FairSpec
CONSTANTS
  a = a  b = b  c = c
  Instances = {a, b, c}
  Primary = a
  NoInstance = NoInstance
  Rank <- MCRank
  FailureThreshold = 1
  RecoveryThreshold = 2
  Cooldown = 1
  FailbackDelay = 1
  AutoFailback = TRUE
  Volatile = {a}
INVARIANTS TypeOK StateMatchesActive OneServing
PROPERTIES LeavesFailedInstance FailsBack
