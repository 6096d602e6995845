\* The switch is disabled while a trigger waits for the state lock.
SPECIFICATION Spec
CONSTANTS
  t1 = t1  t2 = t2  p1 = p1
  Triggers = {t1}
  Positions <- MCPositions
  NoPosition = NoPosition
  MaxCloseRetries = 2
  RequireReauthorization = TRUE
  MaxWaiting = 1
  MaxWorking = 2
  FailureThreshold = 1
  RecoveryTimeout = 1
  HalfOpenMaxCalls = 1
  SuccessThreshold = 1
PROPERTIES DisabledDoesNotTrigger
