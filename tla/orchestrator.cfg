SPECIFICATION FairSpec
CONSTANTS
  Symbols = {btc}
  Owners = {c1, c2}
  NoOwner = NoOwner
  NoTask = NoTask
  Loop = Loop
  Operator = Operator
  RegistryTtl = 3
  CallSpan = 1
  EvalInterval = 2
  Deployments <- MCDeployments
INVARIANTS TypeOK OnePositionPerSymbol HeldForReason
PROPERTIES KeepsBook SymbolComesFree TriggersActed
