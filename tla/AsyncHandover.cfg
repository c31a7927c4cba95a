INIT Init
NEXT AsyncNext
CONSTANTS
  t1 = t1
  t2 = t2
  x = x
  y = y
  l1 = l1
  l2 = l2
  Tasks = {t1, t2}
  Loops = {l1, l2}
  Coros = {x, y}
  TaskOf <- MCTaskOf
  LoopOf <- MCHandover
  Children = {}
  Timed = {x}
  Keeps = {x}
  EndsOf <- MCEnds
  Shared = {}
  PipeSize = 1
  ReadSize = 1
  Free = Free
INVARIANT ResolvedOnOwningLoop
CHECK_DEADLOCK FALSE
