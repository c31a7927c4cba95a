SPECIFICATION BufferedSafety
CONSTANTS
  Tasks = {t}
  Isolated = {}
  Workers = {w}
  IsoWorkers = {}
  Cancels = {}
  Waits = {}
  TimedWaits = {}
  NoTask = NoTask
INVARIANT ClosedIsFreed
