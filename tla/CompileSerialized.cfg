INIT Init
NEXT Next
CONSTANTS
  a1 = a1
  a2 = a2
  b = b
  procA = procA
  procB = procB
  old = old
  Callers = {a1, a2, b}
  Procs = {procA, procB, old}
  ProcOf <- MCProcOf
  Locks = {"compile.lock", "wasm-compile.lock"}
  Gone = {old}
  None = None
  LangsOf <- MCNative
INVARIANT CompilationSerialized
CHECK_DEADLOCK FALSE
