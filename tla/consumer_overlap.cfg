\* Two instances poll, and nothing fails.
SPECIFICATION Spec
CONSTANTS
  a = a  b = b  message = message  both = both
  Managers <- MCManagers
  Keyed = {both}
  Streamed = {message}
  NoSignal = NoSignal
  Conditions <- MCConditions
  SwitchTtl = 3
  CacheTtl = 2
INVARIANTS LockPreventsDoubles
