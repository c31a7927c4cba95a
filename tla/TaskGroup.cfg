SPECIFICATION MCSpec
CONSTANTS
  t1 = t1
  t2 = t2
  g1 = g1
  g2 = g2
  x = x
  loop = loop
  Tasks = {t1, t2}
  Loops = {loop}
  Coros = {g1, g2, x}
  TaskOf <- MCTaskOf
  LoopOf <- MCLoopOf
  Children = {g1, g2}
  Timed = {}
  Keeps = {g1, g2, x}
  EndsOf <- MCEnds
  Shared = {t1}
  SaysCancelled = {t2}
  GroupLoop = loop
  PipeSize = 1
  ReadSize = 1
  Free = Free
INVARIANT GroupExitSound
PROPERTY GroupExits
CHECK_DEADLOCK FALSE
