\* Two calls and one position: lost answers, queued commands, an open breaker.
\* The theorems of KillSwitchProofs cover any numbers.
SPECIFICATION FairSpec
CONSTANTS
  t1 = t1  t2 = t2  p1 = p1
  Triggers <- MCTriggers
  Positions <- MCPositions
  NoPosition = NoPosition
  MaxCloseRetries = 2
  RequireReauthorization = FALSE
  MaxWaiting = 1
  MaxWorking = 2
  FailureThreshold = 1
  RecoveryTimeout = 1
  HalfOpenMaxCalls = 1
  SuccessThreshold = 1
INVARIANTS TypeOK NoPositionEscapes BooksNotAhead LocksMoveOn RefusesOnlyMeanwhile
PROPERTIES Liquidates BreakerKept EveryCallReturns
