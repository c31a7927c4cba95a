------------------------------- MODULE Plugins --------------------------------
(* Native libraries and WebAssembly modules: the registration calls of        *)
(* _native_plugins.py, _wasm_proxy.py and src/py_api.rs, the registry with    *)
(* its generations (src/registry.rs), and the worker processes of             *)
(* src/process_pool.rs that coordinators (src/worker.rs) bring up to date     *)
(* before they send them a task.                                              *)
(*                                                                            *)
(* A registration lives in two tables: the loaded plugin, for tasks in this   *)
(* process, and the path or the bytes with a generation, for worker processes. *)
(* A worker process has tables of its own; `known` is what the engine         *)
(* believes of them.                                                          *)
EXTENDS Integers, Sequences, FiniteSets

CONSTANTS
  Names,        \* registered names
  Wasms,        \* those of WebAssembly modules
  Builds,       \* libraries or module bytes that can be registered
  Users,        \* threads that register, load and unregister
  Coordinators, \* isolated_worker_loop threads
  Procs,        \* worker processes that may ever be started
  Tasks,        \* isolated tasks
  Target,       \* [Tasks -> Names]
  MaxGeneration,\* bound on registrations
  MaxTasks,     \* PYROXIDE_MAX_TASKS_PER_WORKER, 0 for no limit
  MinWorkers,   \* PYROXIDE_MIN_WORKERS
  None

(* An entry of the path table, and what a worker process answers: which task  *)
(* it is about, what was run, and whether the result is in a segment.         *)
RegistryEntry == [build : Builds, gen : Nat]
Response == [task : Tasks, ran : RegistryEntry \cup {None}, shm : BOOLEAN]

ASSUME PluginsAssumption ==
  /\ Wasms \subseteq Names /\ Target \in [Tasks -> Names]
  /\ MaxGeneration \in Nat /\ MaxTasks \in Nat /\ MinWorkers \in Nat
  /\ None \notin Names /\ None \notin Builds /\ None \notin Procs
  /\ None \notin RegistryEntry /\ None \notin Response /\ "ack" \notin Tasks

VARIABLES
  plugins,    \* DYLIB_PLUGINS and WASM_REGISTRY: the loaded build
  paths,      \* DYLIB_PATHS and WASM_BYTES: [build, gen] or None
  generation, \* NEXT_REGISTRY_GENERATION
  ucall,      \* a user's call: [at, name, build]
  tpc,        \* per task: "new", "queued", "running", "done"
  cancelled,  \* tasks whose `cancelled` flag is set
  vpc, vtask, \* coordinators: where they are and with which task
  own, reg,   \* their worker, and the registration they read
  child,      \* worker process: "unborn", "alive", "dead"
  has,        \* its own tables
  known,      \* registered_wasms and registered_dylibs of its IpcWorker
  inn, out,   \* its stream, in both directions
  runs,       \* tasks_run
  shm,        \* processes with a response segment in /dev/shm
  pool,       \* the idle workers
  victims,    \* workers the idle reaper has taken and not yet killed
  shutdown,   \* the flag of the pool that shutdown_process_pool sets
  (* History: *)
  seen,       \* the registrations of its name while a task was in the engine
  last,       \* what the last register or unregister call asked for
  raced,      \* names whose calls have overlapped
  abandoned   \* processes given up, alive, in the middle of an exchange

tables  == <<plugins, paths, generation, ucall, last, raced>>
tasks   == <<tpc, cancelled, seen>>
coords  == <<vpc, vtask, own, reg, abandoned>>
procs   == <<child, has, known, inn, out, runs, shm>>
idlers  == <<pool, victims, shutdown>>
vars == <<plugins, paths, generation, ucall, last, raced, tpc, cancelled, seen,
          vpc, vtask, own, reg, abandoned, child, has, known, inn, out, runs, shm,
          pool, victims, shutdown>>

Idle == [at |-> "idle", name |-> None, build |-> None]

Init ==
  /\ plugins = [n \in Names |-> None] /\ paths = [n \in Names |-> None]
  /\ generation = 1
  /\ ucall = [u \in Users |-> Idle]
  /\ last = [n \in Names |-> None] /\ raced = {}
  /\ tpc = [t \in Tasks |-> "new"] /\ cancelled = {}
  /\ seen = [t \in Tasks |-> {}]
  /\ vpc = [v \in Coordinators |-> "idle"]
  /\ vtask = [v \in Coordinators |-> None]
  /\ own = [v \in Coordinators |-> None]
  /\ reg = [v \in Coordinators |-> None] /\ abandoned = {}
  /\ child = [p \in Procs |-> "unborn"]
  /\ has = [p \in Procs |-> [n \in Names |-> None]]
  /\ known = [p \in Procs |-> [n \in Names |-> 0]]
  /\ inn = [p \in Procs |-> <<>>] /\ out = [p \in Procs |-> None]
  /\ runs = [p \in Procs |-> 0] /\ shm = {}
  /\ pool = <<>> /\ victims = {} /\ shutdown = FALSE
-------------------------------------------------------------------------------
(* Registration, from Python.                                                 *)

Calling(n) == {u \in Users : ucall[u].name = n}

Begin(u, at, n, b, asked) ==
  /\ ucall' = [ucall EXCEPT ![u] = [at |-> at, name |-> n, build |-> b]]
  /\ raced' = IF Calling(n) = {} THEN raced ELSE raced \cup {n}
  /\ last' = [last EXCEPT ![n] = IF n \in raced' THEN None ELSE asked]

(* The path table changes under its lock; tasks in the engine may see it.     *)
SetPath(n, r) ==
  /\ paths' = [paths EXCEPT ![n] = r]
  /\ seen' = [t \in Tasks |-> IF tpc[t] \in {"queued", "running"} /\ Target[t] = n
                              THEN seen[t] \cup {r} ELSE seen[t]]

Bounded == generation + Cardinality({u \in Users : ucall[u].at = "path"})
             <= MaxGeneration

(* register_dylib, register_wasm, register_wasm_wat: the library is loaded or *)
(* the module compiled, and entered in the plugin table ...                   *)
RegisterPlugin(u, n, b) ==
  /\ ucall[u] = Idle /\ Bounded
  /\ Begin(u, "path", n, b, b)
  /\ plugins' = [plugins EXCEPT ![n] = b]
  /\ UNCHANGED <<tasks, coords, procs, idlers, paths, generation>>

(* ... and then its path or bytes, under a new generation, in the other.      *)
RegisterPath(u) ==
  /\ ucall[u].at = "path"
  /\ SetPath(ucall[u].name, [build |-> ucall[u].build, gen |-> generation])
  /\ generation' = generation + 1
  /\ ucall' = [ucall EXCEPT ![u] = Idle]
  /\ UNCHANGED <<coords, procs, idlers, plugins, last, raced, tpc, cancelled>>

(* unregister_dylib: first the path ...                                       *)
UnregisterPath(u, n) ==
  /\ ucall[u] = Idle /\ n \notin Wasms
  /\ <<plugins[n], paths[n]>> # <<None, None>>
  /\ Begin(u, "plugin", n, None, None)
  /\ SetPath(n, None)
  /\ UNCHANGED <<coords, procs, idlers, plugins, generation, tpc, cancelled>>

(* Mutant: the plugin stays loaded.                                           *)
UnregisterPluginKept(u) ==
  /\ ucall[u].at = "plugin"
  /\ ucall' = [ucall EXCEPT ![u] = Idle]
  /\ UNCHANGED <<tasks, coords, procs, idlers, plugins, paths, generation, last,
                 raced>>

(* ... then the plugin.                                                       *)
UnregisterPlugin(u) ==
  /\ ucall[u].at = "plugin"
  /\ plugins' = [plugins EXCEPT ![ucall[u].name] = None]
  /\ ucall' = [ucall EXCEPT ![u] = Idle]
  /\ UNCHANGED <<tasks, coords, procs, idlers, paths, generation, last, raced>>

(* load_dylib looks the path up: with free_fn_name, what it finds will be     *)
(* registered again; what it does not find is registered with the name as its *)
(* path ...                                                                   *)
LoadDylib(u, n) ==
  /\ ucall[u] = Idle /\ n \notin Wasms /\ Bounded
  /\ \/ paths[n] # None /\ Begin(u, "load", n, paths[n].build, last[n])
     \/ paths[n] = None /\ \E b \in Builds : Begin(u, "load", n, b, b)
  /\ UNCHANGED <<tasks, coords, procs, idlers, plugins, paths, generation>>

(* ... whatever has happened to the name since.                               *)
LoadRegister(u) ==
  /\ ucall[u].at = "load" /\ Bounded
  /\ plugins' = [plugins EXCEPT ![ucall[u].name] = ucall[u].build]
  /\ ucall' = [ucall EXCEPT ![u].at = "path"]
  /\ UNCHANGED <<tasks, coords, procs, idlers, paths, generation, last, raced>>
-------------------------------------------------------------------------------
(* Isolated tasks and their coordinators.                                     *)

Goto(v, at) == vpc' = [vpc EXCEPT ![v] = at]

Done(t) ==
  /\ tpc' = [tpc EXCEPT ![t] = "done"]
  /\ cancelled' = cancelled \ {t}
  /\ seen' = [seen EXCEPT ![t] = {}]

SubmitTask(t) ==
  /\ tpc[t] = "new" /\ ~shutdown
  /\ tpc' = [tpc EXCEPT ![t] = "queued"]
  /\ seen' = [seen EXCEPT ![t] = {paths[Target[t]]}]
  /\ UNCHANGED <<tables, coords, procs, idlers, cancelled>>

CancelTask(t) ==
  /\ tpc[t] = "running" /\ t \notin cancelled
  /\ cancelled' = cancelled \cup {t}
  /\ UNCHANGED <<tables, coords, procs, idlers, tpc, seen>>

(* A worker that is dropped: its process is dead and nothing is kept of it.   *)
Forget(S) ==
  /\ child' = [p \in Procs |-> IF p \in S THEN "dead" ELSE child[p]]
  /\ has' = [p \in Procs |-> IF p \in S THEN [n \in Names |-> None] ELSE has[p]]
  /\ known' = [p \in Procs |-> IF p \in S THEN [n \in Names |-> 0] ELSE known[p]]
  /\ inn' = [p \in Procs |-> IF p \in S THEN <<>> ELSE inn[p]]
  /\ out' = [p \in Procs |-> IF p \in S THEN None ELSE out[p]]
  /\ runs' = [p \in Procs |-> IF p \in S THEN 0 ELSE runs[p]]

(* acquire_worker: the last idle worker that is alive, if there is one; the   *)
(* dead ones on the way are dropped, which removes their segments.            *)
LastAlive(i) ==
  /\ i # 0 => child[pool[i]] = "alive"
  /\ \A j \in (i + 1)..Len(pool) : child[pool[j]] # "alive"

TakeWorker(v, i) ==
  LET dropped == {pool[j] : j \in (i + 1)..Len(pool)} IN
  /\ pool' = [j \in 1..(i - 1) |-> pool[j]]
  /\ Forget(dropped) /\ shm' = shm \ dropped
  /\ own' = [own EXCEPT ![v] = IF i = 0 THEN None ELSE pool[i]]
  /\ Goto(v, IF i = 0 THEN "spawn" ELSE "sync")

(* A coordinator takes a task.  It fails at once if its name is not           *)
(* registered or the pool is shut down.                                       *)
Take(v, t) ==
  /\ vpc[v] = "idle" /\ tpc[t] = "queued"
  /\ IF paths[Target[t]] # None /\ ~shutdown
     THEN /\ tpc' = [tpc EXCEPT ![t] = "running"]
          /\ vtask' = [vtask EXCEPT ![v] = t]
          /\ \E i \in 0..Len(pool) : LastAlive(i) /\ TakeWorker(v, i)
          /\ UNCHANGED <<cancelled, seen>>
     ELSE Done(t) /\ UNCHANGED <<vpc, vtask, own, pool, procs>>
  /\ UNCHANGED <<tables, reg, abandoned, victims, shutdown>>

(* The registrations of S as a new worker gets them, and what the engine      *)
(* notes of them.                                                             *)
Copied(p, S) ==
  /\ has' = [has EXCEPT ![p] = [n \in Names |-> IF n \in S THEN paths[n] ELSE @[n]]]
  /\ known' = [known EXCEPT ![p] =
       [n \in Names |-> IF n \in S /\ paths[n] # None THEN paths[n].gen ELSE @[n]]]

(* spawn_new_worker and the first loop of sync_registries ...                 *)
Spawn(v, p) ==
  /\ vpc[v] = "spawn" /\ child[p] = "unborn"
  /\ child' = [child EXCEPT ![p] = "alive"]
  /\ own' = [own EXCEPT ![v] = p]
  /\ Copied(p, Wasms)
  /\ Goto(v, "copy")
  /\ UNCHANGED <<tables, tasks, idlers, vtask, reg, abandoned, inn, out, runs, shm>>

(* The process does not start or does not connect in time.                    *)
SpawnFails(v) ==
  /\ vpc[v] = "spawn"
  /\ Done(vtask[v])
  /\ vtask' = [vtask EXCEPT ![v] = None]
  /\ Goto(v, "idle")
  /\ UNCHANGED <<tables, procs, idlers, own, reg, abandoned>>

(* An error ends the task and drops the worker.                               *)
Fail(v) ==
  /\ Done(vtask[v])
  /\ vtask' = [vtask EXCEPT ![v] = None]
  /\ reg' = [reg EXCEPT ![v] = None]
  /\ Goto(v, "drop")
  /\ UNCHANGED own

(* ... and its second loop; a registration of either may be refused.          *)
SpawnCopy(v) ==
  /\ vpc[v] = "copy"
  /\ \/ /\ child[own[v]] = "alive"
        /\ Copied(own[v], Names \ Wasms)
        /\ Goto(v, "sync") /\ UNCHANGED <<tasks, vtask, own, reg>>
     \/ Fail(v) /\ UNCHANGED <<has, known>>
  /\ UNCHANGED <<tables, idlers, abandoned, child, inn, out, runs, shm>>

(* Mutant: a name the worker knows is not looked at again.                    *)
SyncOnce(v) ==
  LET n == Target[vtask[v]]
      now == paths[n] IN
  /\ vpc[v] = "sync"
  /\ IF now = None
     THEN /\ Done(vtask[v])
          /\ vtask' = [vtask EXCEPT ![v] = None]
          /\ Goto(v, "release") /\ UNCHANGED reg
     ELSE /\ IF known[own[v]][n] # 0 THEN Goto(v, "send") /\ UNCHANGED reg
             ELSE Goto(v, "register") /\ reg' = [reg EXCEPT ![v] = now]
          /\ UNCHANGED <<tasks, vtask>>
  /\ UNCHANGED <<tables, procs, idlers, own, abandoned>>

(* registry_sync: Missing, Current or Changed.                                *)
Sync(v) ==
  LET n == Target[vtask[v]]
      now == paths[n] IN
  /\ vpc[v] = "sync"
  /\ IF now = None
     THEN /\ Done(vtask[v])
          /\ vtask' = [vtask EXCEPT ![v] = None]
          /\ Goto(v, "release") /\ UNCHANGED reg
     ELSE /\ IF known[own[v]][n] = now.gen THEN Goto(v, "send") /\ UNCHANGED reg
             ELSE Goto(v, "register") /\ reg' = [reg EXCEPT ![v] = now]
          /\ UNCHANGED <<tasks, vtask>>
  /\ UNCHANGED <<tables, procs, idlers, own, abandoned>>

(* A changed registration is sent, for a library after the old one has been   *)
(* removed; the answer is awaited and may be an error.                        *)
SyncRegister(v, accepted) ==
  LET n == Target[vtask[v]] IN
  /\ vpc[v] = "register"
  /\ IF accepted /\ child[own[v]] = "alive"
     THEN /\ has' = [has EXCEPT ![own[v]][n] = reg[v]]
          /\ known' = [known EXCEPT ![own[v]][n] = reg[v].gen]
          /\ Goto(v, "send") /\ reg' = [reg EXCEPT ![v] = None]
          /\ UNCHANGED <<tasks, vtask, own>>
     ELSE Fail(v) /\ UNCHANGED <<has, known>>
  /\ UNCHANGED <<tables, idlers, abandoned, child, inn, out, runs, shm>>

(* The task is sent; its name may be too long for the header, or the write    *)
(* may fail.                                                                  *)
Send(v) ==
  /\ vpc[v] = "send"
  /\ \/ /\ child[own[v]] = "alive"
        /\ inn' = [inn EXCEPT ![own[v]] = Append(@, vtask[v])]
        /\ Goto(v, "read") /\ UNCHANGED <<tasks, vtask, own, reg>>
     \/ Fail(v) /\ UNCHANGED inn
  /\ UNCHANGED <<tables, idlers, abandoned, child, has, known, out, runs, shm>>

(* Mutant: the worker of a cancelled task goes back to the pool.              *)
ReadCancelledKeeps(v) ==
  /\ vpc[v] = "read" /\ vtask[v] \in cancelled
  /\ Done(vtask[v])
  /\ vtask' = [vtask EXCEPT ![v] = None]
  /\ Goto(v, "release")
  /\ UNCHANGED <<tables, procs, idlers, own, reg, abandoned>>

(* The loop that reads the answer notices the cancellation: the process is    *)
(* killed and its segments are removed.                                       *)
ReadCancelled(v) ==
  /\ vpc[v] = "read" /\ vtask[v] \in cancelled
  /\ child' = [child EXCEPT ![own[v]] = "dead"]
  /\ shm' = shm \ {own[v]}
  /\ Fail(v)
  /\ UNCHANGED <<tables, idlers, abandoned, has, known, inn, out, runs>>

(* The answer: a segment is read and acknowledged.  Or, at any moment, an     *)
(* error: the end of the stream, a poll or a read that fails, a header that   *)
(* is not understood, a segment that is too large.  Only the first means that *)
(* the process is dead.                                                       *)
Read(v) ==
  LET p == own[v] IN
  /\ vpc[v] = "read"
  /\ \/ /\ out[p] # None
        /\ Done(vtask[v])
        /\ out' = [out EXCEPT ![p] = None]
        /\ inn' = IF out[p].shm THEN [inn EXCEPT ![p] = Append(@, "ack")] ELSE inn
        /\ runs' = [runs EXCEPT ![p] = @ + 1]
        /\ vtask' = [vtask EXCEPT ![v] = None]
        /\ Goto(v, "release")
        /\ UNCHANGED <<own, reg, abandoned>>
     \/ /\ Fail(v)
        /\ abandoned' = abandoned \cup {q \in {p} : child[q] = "alive"}
        /\ UNCHANGED <<inn, out, runs>>
  /\ UNCHANGED <<tables, idlers, child, has, known, shm>>

(* release_worker: a worker that is spent or dead, or whose pool has been     *)
(* shut down, is dropped.                                                     *)
Release(v) ==
  LET p == own[v]
      keep == /\ ~shutdown /\ (MaxTasks = 0 \/ runs[p] < MaxTasks)
              /\ child[p] = "alive" IN
  /\ vpc[v] = "release"
  /\ pool' = IF keep THEN Append(pool, p) ELSE pool
  /\ own' = [own EXCEPT ![v] = IF keep THEN None ELSE p]
  /\ Goto(v, IF keep THEN "idle" ELSE "drop")
  /\ UNCHANGED <<tables, tasks, procs, vtask, reg, abandoned, victims, shutdown>>

(* Drop for IpcWorker: the segments are removed, then the process is killed.  *)
(* One that is still serving may make a segment in between.                   *)
DropClean(v) ==
  /\ vpc[v] = "drop"
  /\ shm' = shm \ {own[v]}
  /\ Goto(v, "kill")
  /\ UNCHANGED <<tables, tasks, idlers, vtask, own, reg, abandoned, child, has,
                 known, inn, out, runs>>

DropKill(v) ==
  /\ vpc[v] = "kill"
  /\ Forget({own[v]})
  /\ own' = [own EXCEPT ![v] = None]
  /\ Goto(v, "idle")
  /\ UNCHANGED <<tables, tasks, idlers, vtask, reg, abandoned, shm>>
-------------------------------------------------------------------------------
(* A worker process.                                                          *)

Serving(p) == child[p] = "alive" /\ inn[p] # <<>> /\ Head(inn[p]) \in Tasks

(* A large answer is put into a segment before the response is written.       *)
ChildSegment(p) ==
  /\ Serving(p) /\ p \notin shm /\ has[p][Target[Head(inn[p])]] # None
  /\ shm' = shm \cup {p}
  /\ UNCHANGED <<tables, tasks, coords, idlers, child, has, known, inn, out, runs>>

(* execute_worker_task, with the process's own tables, and write_response.    *)
ChildRespond(p) ==
  LET t == Head(inn[p]) IN
  /\ Serving(p) /\ out[p] = None
  /\ out' = [out EXCEPT ![p] = [task |-> t, ran |-> has[p][Target[t]],
                                shm |-> p \in shm]]
  /\ inn' = [inn EXCEPT ![p] = Tail(@)]
  /\ UNCHANGED <<tables, tasks, coords, idlers, child, has, known, runs, shm>>

(* The acknowledgement lets it remove the segment and read on.                *)
ChildAck(p) ==
  /\ child[p] = "alive" /\ inn[p] # <<>> /\ Head(inn[p]) = "ack"
  /\ inn' = [inn EXCEPT ![p] = Tail(@)]
  /\ shm' = shm \ {p}
  /\ UNCHANGED <<tables, tasks, coords, idlers, child, has, known, out, runs>>

(* It may die at any moment; its segment stays.                               *)
ChildCrash(p) ==
  /\ child[p] = "alive"
  /\ child' = [child EXCEPT ![p] = "dead"]
  /\ has' = [has EXCEPT ![p] = [n \in Names |-> None]]
  /\ inn' = [inn EXCEPT ![p] = <<>>]
  /\ UNCHANGED <<tables, tasks, coords, idlers, known, out, runs, shm>>
-------------------------------------------------------------------------------
(* The idle reaper and shutdown.                                              *)

(* Workers that have been idle too long are taken from the pool ...           *)
ReapTake(i) ==
  /\ i \in DOMAIN pool /\ Len(pool) > MinWorkers
  /\ pool' = [j \in 1..(Len(pool) - 1) |-> IF j = i THEN pool[Len(pool)] ELSE pool[j]]
  /\ victims' = victims \cup {pool[i]}
  /\ UNCHANGED <<tables, tasks, coords, procs, shutdown>>

(* ... and killed, with the lock released, and dropped.                       *)
ReapKill(p) ==
  /\ p \in victims
  /\ Forget({p}) /\ shm' = shm \ {p}
  /\ victims' = victims \ {p}
  /\ UNCHANGED <<tables, tasks, coords, pool, shutdown>>

Joined == \A v \in Coordinators : vpc[v] = "idle"

(* Mutant: the coordinators are not joined.                                   *)
ShutdownPoolEarly ==
  LET S == {pool[i] : i \in DOMAIN pool} IN
  /\ ~shutdown /\ shutdown' = TRUE
  /\ pool' = <<>>
  /\ Forget(S) /\ shm' = shm \ S
  /\ UNCHANGED <<tables, tasks, coords, victims>>

(* shutdown(), once submissions have ended and the coordinators have drained  *)
(* their queue and been joined: shutdown_process_pool sets the pool's flag    *)
(* and drops the idle workers.                                                *)
ShutdownPool ==
  LET S == {pool[i] : i \in DOMAIN pool} IN
  /\ ~shutdown /\ Joined /\ \A t \in Tasks : tpc[t] # "queued"
  /\ shutdown' = TRUE
  /\ pool' = <<>>
  /\ Forget(S) /\ shm' = shm \ S
  /\ UNCHANGED <<tables, tasks, coords, victims>>
-------------------------------------------------------------------------------
UserStep(u) ==
  \/ \E n \in Names : \/ \E b \in Builds : RegisterPlugin(u, n, b)
                      \/ UnregisterPath(u, n) \/ LoadDylib(u, n)
  \/ RegisterPath(u) \/ UnregisterPlugin(u) \/ LoadRegister(u)

CoordinatorStep(v) ==
  \/ \E t \in Tasks : Take(v, t)
  \/ (\E p \in Procs : Spawn(v, p)) \/ SpawnFails(v) \/ SpawnCopy(v)
  \/ Sync(v) \/ (\E ok \in BOOLEAN : SyncRegister(v, ok)) \/ Send(v)
  \/ ReadCancelled(v) \/ Read(v) \/ Release(v) \/ DropClean(v) \/ DropKill(v)

ChildStep(p) == ChildSegment(p) \/ ChildRespond(p) \/ ChildAck(p)

Next ==
  \/ \E u \in Users : UserStep(u)
  \/ \E t \in Tasks : SubmitTask(t) \/ CancelTask(t)
  \/ \E v \in Coordinators : CoordinatorStep(v)
  \/ \E p \in Procs : ChildStep(p) \/ ChildCrash(p) \/ ReapKill(p)
  \/ \E i \in 1..Cardinality(Procs) : ReapTake(i)
  \/ ShutdownPool

Safety == Init /\ [][Next]_vars
-------------------------------------------------------------------------------
(* The answer a coordinator is about to take.                                 *)
Answered(v) == vpc[v] = "read" /\ out[own[v]] # None
Answer(v)   == out[own[v]]

(* "unregister_dylib(name) prevents future lookup through that registration", *)
(* and a replaced library is never used again: an isolated task only ever     *)
(* runs a registration that was in force at some moment between its           *)
(* submission and its execution, although worker processes keep copies.       *)
RunsCurrentRegistration ==
  \A v \in Coordinators : Answered(v) =>
    Answer(v).ran \in seen[vtask[v]] \cup {None}

(* A coordinator never takes another task's answer for its own, and a worker  *)
(* in the pool owes nobody an answer.                                         *)
OwnAnswer ==
  /\ \A v \in Coordinators : Answered(v) => Answer(v).task = vtask[v]
  /\ \A i \in DOMAIN pool : out[pool[i]] = None

(* Every worker process that is alive, and every segment it left, belongs to  *)
(* exactly one of a coordinator, the pool and the reaper, so that it is used  *)
(* by one task at a time and is killed and cleaned up at the latest when the  *)
(* pool has been shut down.  The one exception is a process that was given up *)
(* in the middle of an exchange while it was alive: Drop removes its segments *)
(* before it kills it, and one made in between stays until the next start of  *)
(* a pool sweeps /dev/shm.                                                    *)
Owners(p) == {<<"coordinator", v>> : v \in {w \in Coordinators : own[w] = p}}
             \cup {<<"pool", i>> : i \in {j \in DOMAIN pool : pool[j] = p}}
             \cup {<<"reaper", q>> : q \in victims \cap {p}}

OneOwner ==
  /\ \A p \in Procs : child[p] = "alive" \/ p \in shm \ abandoned => Owners(p) # {}
  /\ \A p \in Procs : \A x, y \in Owners(p) : x = y
  /\ shutdown => \A p \in Procs : child[p] = "alive" => p \in victims

(* Calls about one name that do not overlap leave both tables with what the   *)
(* last register or unregister call asked for: load_dylib changes nothing,    *)
(* and tasks in this process and in worker processes use the same build.      *)
TablesAgree ==
  \A n \in Names \ raced : Calling(n) = {} =>
    /\ plugins[n] = last[n]
    /\ paths[n] = None <=> last[n] = None
    /\ paths[n] # None => paths[n].build = last[n]
===============================================================================
