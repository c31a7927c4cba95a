SPECIFICATION Spec
CONSTANTS
  Contexts = {main, other}
  Main = main
  Tasks = {t}
  SetCalls = {u}
  Environments <- MCEnvironments
  Overrides <- MCOverrides
  Updates <- MCUpdates
  Signatures <- MCSignatures
  ArgLists <- MCArgLists
  Fits <- MCFits
  MaxMemory = 2
  MaxU64 = 4
  MaxFfiArgs = 1
  MaxDepth <- MCDepth
  DefaultLimit <- MCDefault
  DefaultProcesses = 2
  NotInt = NotInt
  None = None
INVARIANTS ScopesUnwind LimitsReachTheTask IsolatedCallReturns
CHECK_DEADLOCK FALSE
