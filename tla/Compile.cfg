SPECIFICATION MCSpec
CONSTANTS
  a1 = a1
  a2 = a2
  b = b
  procA = procA
  procB = procB
  old = old
  Callers = {a1, a2, b}
  Procs = {procA, procB}
  ProcOf <- MCProcOf
  Locks = {"compile.lock", "wasm-compile.lock"}
  Gone = {}
  None = None
  LangsOf <- MCLangsOf
INVARIANTS SerializedWhileAllLive PublishedWhole
PROPERTY CompileReturns
CHECK_DEADLOCK FALSE
