SPECIFICATION MCSpec
CONSTANTS
  Tasks = {t, u}
  Isolated = {u}
  Workers = {w}
  IsoWorkers = {v}
  Cancels = {k1, k2}
  Waits = {q1, q2}
  TimedWaits = {q2}
  NoTask = NoTask
INVARIANTS ResultBeforeStatus PendingCancelSkips ShutdownPrecedesClaim
  FreedOnlyTerminal NoLeak StatsExactWhenQuiet CountedWhenCompleted
PROPERTIES ImplementsContract SubmittedCompletes WaitReturns CancelCompletes
