SPECIFICATION Safety
CONSTANTS
  t1 = t1
  t2 = t2
  t3 = t3
  c1 = c1
  c2 = c2
  c3 = c3
  s1 = s1
  s2 = s2
  s3 = s3
  Calls = {c1, c2}
  Batches = {c1}
  Batch <- PairAndOne
  Timeout <- Patient
  Capacity = 2
  Tasks = {t1, t2, t3}
  Isolated = {t3}
  Workers = {w}
  IsoWorkers = {v}
  Cancels = {k}
  NoTask = NoTask
  Dropped = {t1}
  Shutdowns = {s1}
  Waiting = {s1}
  Cancelling = {s1}
  Caller <- ByUsers
  STOP = STOP
INVARIANTS SendNeverFails HeldExact DrainedAtShutdown BooksBalance
PROPERTIES NothingEntersAfterShutdown PartsRefined
CONSTRAINT CancelHits
CHECK_DEADLOCK FALSE
