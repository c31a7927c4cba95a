SPECIFICATION AsyncSpec
CONSTANTS
  t1 = t1
  t2 = t2
  x = x
  y = y
  l1 = l1
  l2 = l2
  Tasks = {t1, t2}
  Loops = {l1, l2}
  Coros = {x, y}
  TaskOf <- MCTaskOf
  LoopOf <- MCLoopOf
  Children = {}
  Timed = {x}
  Keeps = {x}
  EndsOf <- MCEnds
  Shared = {t1}
  PipeSize = 1
  ReadSize = 1
  Free = Free
INVARIANT TablesExact
PROPERTY AwaitsReturn
CHECK_DEADLOCK FALSE
