SPECIFICATION Safety
CONSTANTS
  lib = lib
  Names = {lib, mod}
  Wasms = {mod}
  Builds = {A, B}
  Users = {u1, u2}
  Coordinators = {v1, v2}
  Procs = {p1, p2}
  Tasks = {t1, t2}
  Target <- OnLib
  MaxGeneration = 2
  MaxTasks = 2
  MinWorkers = 1
  None = None
INVARIANTS RunsCurrentRegistration OwnAnswer OneOwner TablesAgree
CONSTRAINT OverlapFirst
SYMMETRY Symmetry
CHECK_DEADLOCK FALSE
