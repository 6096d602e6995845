\* Conditions one at a time, then those that act together.
SPECIFICATION FairSpec
CONSTANTS
  a = a  b = b  message = message  both = both
  Managers <- MCManagers
  Keyed = {both}
  Streamed = {both, message}
  NoSignal = NoSignal
  Conditions <- MCConditions
  SwitchTtl = 3
  CacheTtl = 2
INVARIANTS TypeOK LockExcludes
PROPERTIES TakesIn TakenOver SwitchStopsPolls
