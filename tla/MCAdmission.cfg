SPECIFICATION Spec
CONSTANTS
  pair = pair
  single = single
  try = try
  huge = huge
  Calls = {pair, single, try, huge}
  Items = {1, 2, 3, 4, 5, 6, 7}
  Batch <- MCBatch
  Timeout <- MCTimeout
  Capacity = 2
INVARIANTS TypeOK Conservation NoLostWakeup
PROPERTIES ClosedAdmitsNothing CloseUnblocks DeadlineBoundsWait
