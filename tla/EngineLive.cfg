SPECIFICATION Spec
CONSTANTS
  t1 = t1
  t2 = t2
  t3 = t3
  c1 = c1
  c2 = c2
  c3 = c3
  s1 = s1
  s2 = s2
  s3 = s3
  Calls = {c1, c2, c3}
  Batches = {}
  Batch <- Singles
  Timeout <- Endless
  Capacity = 1
  Tasks = {t1, t2, t3}
  Isolated = {}
  Workers = {w}
  IsoWorkers = {v}
  Cancels = {}
  NoTask = NoTask
  Dropped = {}
  Shutdowns = {s1, s2, s3}
  Waiting = {s1, s2}
  Cancelling = {s1}
  Caller <- FromTask
  STOP = STOP
PROPERTIES ShutdownCompletes AcceptedCompletes SubmissionsReturn
CHECK_DEADLOCK FALSE
