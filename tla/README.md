# Pyroxide: TLA+ specifications and proofs

Pyroxide runs Python callables, native plugins and WebAssembly modules on a pool
of Rust threads, or in worker processes for *isolated* tasks. This directory
holds its specifications: the engine that accepts, runs, cancels and frees tasks
and shuts down; the worker processes and plugin registries behind isolated
tasks; and the Python side, where tasks are submitted under limits, awaited from
asyncio, grouped, and compiled from source.

## The system and what is modelled

| Part | Source | Module |
|---|---|---|
| Queue admission (capacity, backpressure, close) | `src/broker.rs` | `Admission` |
| Task record, workers, cancel, wait, close | `src/task.rs`, `src/worker.rs`, `src/broker.rs`, `python/pyroxide/types.py` | `Lifecycle` |
| What a task promises its user | (abstract) | `TaskContract` |
| Memory order of `set_autofree` | `src/broker.rs` | `AutofreeOrder` |
| Submission, channels, shutdown | `src/broker.rs` | `EngineState`, `Engine` |
| Registries, worker processes, their pool | `src/py_api.rs`, `src/registry.rs`, `src/process_pool.rs`, `src/worker.rs`, `src/worker_process.rs`, `python/pyroxide/_native_plugins.py` | `Plugins` |
| Awaiting a task from asyncio | `src/async_waker.rs`, `python/pyroxide/_async_waker.py`, `types.py` | `AsyncWait` |
| Task groups | `python/pyroxide/workflows.py` | `TaskGroup` |
| Directory lock between processes | `python/pyroxide/_native_compile.py` | `CrossProcessLock` |
| Compile functions and library cache | `python/pyroxide/_native_compile.py`, `_wasm_compile.py` | `Compile` |
| Limits, decorators and proxies | `python/pyroxide/config.py`, `decorators.py`, `_native_plugins.py`, `_wasm_proxy.py`, `_ffi_proxy.py`, `src/config.rs` | `Scopes` |

How they interact: a decorator or proxy reads the limits of the calling context
and submits. A submission reserves units from admission, enters the submission
gate (the read side of an `RwLock`), inserts its records into the slab and sends
their ids to one of two bounded channels. A worker receives an id, gives its unit
back, claims the record by compare-exchange, executes it and finishes it; a
coordinator does so by way of a worker process, which it first brings up to date
with the registries. User threads cancel, wait and close at any time; coroutines
are woken through a pipe and a table of futures. Shutdown takes the write side of
the gate, closes admission, and a thread of its own sends one STOP per worker and
joins them; then the process pool and the waker are taken down.

## Modules

**Admission.** `available`, `closed` and the sleepers of `QueueAdmission`. One
action per lock region of `reserve`, `release` and `close`; `held` is a history
of which task each reserved unit belongs to. `WakeUp` is a wakeup without
notification: deadline, the 24 hour chunk of an unbounded wait, or spurious.

**Lifecycle.** The atomic fields of `Task`, the slab, the counters, and a
program counter per worker, `cancel()` call, `result()` call and handle. Every
atomic or locked access is a step. Operations are merged only where no other
thread can tell:

- `StoreResult` reads the status inside the result mutex; `cancel_task` writes
  the result under that mutex after its exchange, so a later overwrite by it
  gives the same outcome as any finer interleaving.
- The shutdown flag is only ever set, so reading it and the exchange that
  follows are one step.
- Ids are not visible before `enqueue_*` returns, so inserting a batch is one
  step. The partial insertion that `RegistryFull` undoes leaves no trace.
- Executing user code is one step, `Execute`, with outcome ok or err. For an
  isolated task the err also stands for the kill after a cancel.

**TaskContract.** A task is pending, running, and then Completed, Failed or
Cancelled for ever; only a pending or an isolated running task is cancelled; the
outcome is published once it is final; a `result()` call is told that outcome or
nothing. `Lifecycle` implements it (`ImplementsContract`), where a claimed task
counts as pending until its worker has looked at the shutdown flag again.

**AutofreeOrder.** `Lifecycle` takes memory operations in program order. That is
sound for fields under a mutex, for the exchanges on the single location
`status`, and for the SeqCst shutdown flag. It is an assumption for
`set_autofree`, whose Release store and Acquire load of different fields may be
reordered; this module adds the store buffer.

**Engine.** Instances of `Admission` and `Lifecycle` joined by the channels, the
gate, the stopper thread, and calls made by the code of running tasks. Nested
calls come from in-process tasks only; isolated code runs in another process
with an engine of its own. The rollback after a failing `try_send` is left out
because `SendNeverFails` shows that it is unreachable. `PartsRefined` says that
an engine step is a step of `Admission` and of `Lifecycle`, so what is proved of
the parts holds of the engine. `EngineState` holds the variables, the operators
on channels and units, and the invariants that mention nothing else; the proofs
about single steps need no more than that.

**Plugins.** A registration lives in two tables, the loaded plugin and the path
or bytes with a generation; `register` and `unregister` update them one after the
other, `load_dylib` reads one and registers what it found. A coordinator takes an
idle worker process or spawns one (copying both registries in two parts),
compares generations, sends what has changed, sends the task, and reads the
answer while watching for a cancellation. `has` is what the process really holds,
`known` what the engine believes. The process answers, may put a large answer in
a shared-memory segment, and may die at any moment. Every step of the exchange
may also fail with the process alive; `Drop` then removes its segments and kills
it, in this order. Reading a request and
awaiting the answer to a registration are merged with the child's step: the
stream has one reader at each end. The idle reaper takes workers under the lock
and kills them outside it. `seen`, `last`, `raced` and `abandoned` (processes
given up alive in the middle of an exchange) are histories.

**AsyncWait.** `result_async` as one step per lock region and engine call; the
byte per completion, dropped when the pipe is full; the reader thread that takes
a snapshot of the futures and posts callbacks; `_resolve_future_safe`, which looks
the task up again; `_cleanup_waker` and a waker made anew. An event loop runs one
callback or one stretch of a coroutine at a time. `by` remembers which loop's
thread completed a future: a loop is woken only by its own.

**TaskGroup.** `__aexit__` over `AsyncWait`: the exception of the body, the child
calls, `asyncio.wait(FIRST_EXCEPTION)`, cancelling at the first failure, the
filters that drop cancellations, and what is raised in the end. The body may end
with a `BaseException`, and the asyncio task that runs `__aexit__` may itself be
cancelled while it waits.

**CrossProcessLock, Compile.** The lock is a directory with a pid file in it;
`mkdir`, `open`, `write`, `read`, `kill(pid, 0)`, `remove` and `rmdir` are steps
of their own; each may fail, as the code allows for or not, and a process may end
between any two. A file is named by its
creator, so that a write to an unlinked file is lost. `Compile` puts the eight
compile functions on top: thread lock, directory lock, temporary directory,
compiler runs with fallbacks, publication by `mkstemp`, `copy2` and `os.replace`,
registration, and the way out.

**Scopes.** Context variables per thread or asyncio task, `scoped()` blocks with
their tokens, the global limits with value and flag stored separately, the
environment as Python validates it (all settings) and as Rust reads the three
limits, and every decorator, proxy method and batch that submits. A wrapper called
in a worker process asks for `PYROXIDE_WORKER`, which `spawn_new_worker` sets. Numbers are scaled down: 2 stands for 2^31 - 1 and 4 for
2^64 - 1.

Operators introduced by "Mutant:" are variants of the definition after them with
a plausible mistake. Nothing uses them; each shows, when it replaces that
definition, that a property can fail.

## Runs

| Run | Instance | Properties | States |
|---|---|---|---|
| `admission` | four calls, capacity 2, all kinds of timeout | `TypeOK`, `Conservation`, `NoLostWakeup`, `ClosedAdmitsNothing`, `CloseUnblocks`, `DeadlineBoundsWait` | 1,322 |
| `lifecycle` | one task, in-process or isolated; 2 cancels, 2 waits (one timed), a close, a shutdown | `ResultBeforeStatus`, `PendingCancelSkips`, `ShutdownPrecedesClaim`, `FreedOnlyTerminal`, `NoLeak`, `StatsExactWhenQuiet`, `CountedWhenCompleted`, `ImplementsContract`, `SubmittedCompletes`, `WaitReturns`, `CancelCompletes` | 149,520 |
| `engine` | a batch and a single call on both channels, capacity 2, a cancel, a dropped handle, a cancelling shutdown | `SendNeverFails`, `HeldExact`, `DrainedAtShutdown`, `BooksBalance`, `NothingEntersAfterShutdown`, `PartsRefined` | 877,145 |
| `engine_live` | three calls, one by a running task; three shutdowns, two by a running task; capacity 1 | `ShutdownCompletes`, `AcceptedCompletes`, `SubmissionsReturn` | 84,130 |
| `plugins` | 2 users, a library in two builds and a module, 2 coordinators, 2 processes, 2 tasks | `RunsCurrentRegistration`, `OwnAnswer`, `OneOwner`, `TablesAgree` | 1,044,510 |
| `async_wait` | 2 calls for one task on one loop, a second task, a pipe of one byte, a closed handle, a teardown | `TablesExact`, `AwaitsReturn` | 100,475 |
| `task_group` | 2 tasks, a third call for one of them, another thread that cancels or closes it, an exit that is cancelled | `GroupExitSound`, `GroupExits` | 390,414 |
| `compile` | 2 threads of one process and a second process, all compile functions, failing system calls, processes that end | `SerializedWhileAllLive`, `PublishedWhole`, `CompileReturns` | 103,642 |
| `scopes` | 2 contexts, nesting up to 2, a set call, seven environments, every way to submit | `ScopesUnwind`, `LimitsReachTheTask`, `IsolatedCallReturns` | 761,812 |

Three runs end in a counterexample, each against a sentence of the repository:

- `compile_serialized`: after a process has died with the lock, two waiters read
  its pid; the slower one removes the directory the faster one has made anew, and
  both compile (`docs/src/native_plugins.md:167` says that compilation is
  serialized across processes). No partly written library results:
  `PublishedWhole` holds.
- `async_handover`: a call times out and a call on another loop awaits the same
  task before the first one's callback runs; the callback then completes the
  other loop's future, and that loop is not woken
  (`docs/src/concurrency_async.md:38` says completion is scheduled on each owning
  loop).
- `autofree_leak`: if the store in `set_autofree` takes effect after the load
  behind it, the record of a dropped handle is never freed
  (`python/pyroxide/types.py:169`). The window is a few instructions long.

Other places where the models had to make room for what the code does:

- A cancelled isolated task may be signalled complete before it is counted:
  `cancel_task` exchanges the status first and counts afterwards
  (`src/broker.rs:789-801`), while `src/worker.rs:639` says counters are final by
  then. `CountedWhenCompleted` exempts these tasks.
- `cancel()` of a running isolated task returns `True` before the child is
  terminated (`docs/src/cancellation.md:10` says after). What holds is
  `CancelCompletes`.
- If `mkdtemp` raises in a native compile function, neither lock is released
  (`python/pyroxide/_native_compile.py:200`). Calls of other processes then run
  out of their 60 seconds; later calls of that process wait for ever, and
  `CompileReturns` exempts them.
- `acquire` ignores an error of `os.remove` on a dead owner's `owner.pid`, and
  goes round again without a look at its deadline
  (`python/pyroxide/_native_compile.py:109-117`). If the file can never be removed
  (it belongs to somebody else, the file system is read-only) it loops for ever,
  without sleeping. `CompileReturns` has as its premise that the removal, tried
  again and again, succeeds at some time (`RemovalSucceeds`).
- An exit of a group that is cancelled in its wait leaves at once: the
  `CancelledError` passes both `except Exception` (`python/pyroxide/workflows.py:82`,
  `92`), nothing is cancelled, the children run on, and their failures are not
  reported. `docs/src/batch_submission.md:59` says that the context manager waits
  for all handles and groups failures. `GroupExitSound` is about the other exits;
  `GroupExits` includes these.
- If the body of a group ended with a `BaseException` and a child failed as well,
  the built-in `ExceptionGroup` refuses to hold the former, and a `TypeError`
  takes the place of the failures (`python/pyroxide/workflows.py:114`, Python 3.11
  and later).
- `Drop` removes the shared-memory segments of a worker process before it kills it
  (`src/process_pool.rs:25-27`). A process that was given up alive, after an error
  while its answer was being read (`src/worker.rs:902-942`, `989-993`), may make
  one in between. It stays until the next start of a pool sweeps `/dev/shm`
  (`src/process_pool.rs:140-162`). `OneOwner` exempts the segments of these
  processes.
- A `scoped()` call that refuses a later argument leaves the earlier ones
  overridden (`python/pyroxide/config.py:182-190`). `ScopesUnwind` exempts
  exactly those.
- A library compiled again under the same name is published, but the process that
  has the old one mapped from that path keeps using it (`RegisterDylib`).
- Two overlapping calls for one plugin name may leave the two tables with
  different builds. `TablesAgree` is about calls that do not overlap.

**Bounds.** In most modules each call happens at most once, so the number of
calls in the instance bounds the run. `Plugins` bounds the registrations
(`MaxGeneration`) and the processes ever started, `AsyncWait` the wakers (`Gens`:
one torn down and one after it), `Scopes` the nesting (`MaxDepth`). Every race the
`Lifecycle` properties are about involves one record and at most one worker, two
cancels, two waits, a close and a shutdown; several records matter where they
share a worker, a counter, a channel or the units, which the `Engine` instances
have. A capacity of one or two is where a queue is full at once; two builds, two
registrations and two reusable processes are what it takes for a copy to be
stale; a pipe of one byte is full after one completion; three callers in two
processes give a thread to compete with and a process to die. The proofs remove
the bounds for every safety property that holds. Users, coordinators, processes,
tasks and builds of the `plugins` instance are interchangeable, and its
properties are invariants, so it uses symmetry.

Some instances leave out interleavings that add states and no new case, each by a
condition in its MC module. In `engine` nothing is explored behind a `cancel()`
that came too late and changed nothing (`CancelHits`). In `plugins` calls of two users overlap only before
the first task is submitted (`OverlapFirst`): the tasks then meet every state of
the tables that an overlap can leave, and single calls at any moment. In
`task_group` the third call, or the close, comes before the group's own call for
that task has returned (`CalledInTime`), and a body that raises does so with a
`BaseException` (`BodyRaisesBase`), after which every way of exiting is possible;
the proof is about all kinds. In `compile` one process calls a native and a
WebAssembly function, and the other meets these calls with a native or a
WebAssembly function of its own; the rest, which use the same locks in the same
way, it calls after they have returned (`RestAlone`). `lifecycle` has liveness
properties and fixes by hand which of its interchangeable `cancel()` calls comes
first.

**Deadlock.** Programs may stop calling, engines shut down and groups exit, so
the runs do not check for deadlock, except `admission`, and `lifecycle`, where
the shutdown flag can always be set again and the check says nothing; the
liveness properties take its place.

**Fairness.** Threads inside the engine go on: weak fairness of each worker,
call and stopper step. `TaskFairness` says user code returns; in `Lifecycle` it
is a premise of the properties that need it, in `Engine` a part of `Fairness`.
`KillFairness` says the coordinator of a cancelled isolated task gets to the
kill: on Unix it polls the flag every 5 ms while it reads the answer
(`src/worker.rs:880-945`). In `AsyncWait` the engine finishes tasks, the reader
thread makes progress, and an event loop that has a coroutine or a callback to run
runs one, no matter which; a coroutine is sure to be resumed only if its own loop
completed its future. In `Compile` some call that can move does: a call is finite
but for the loop of `acquire`, so no more is needed for all of them to end. Strong fairness of `Expire` says that when calls keep waiting for a
directory lock one of them runs out of its 60 seconds, however often it looks in
between.
Nobody is obliged to submit, cancel, wait, close, compile or shut down.

## Proofs

The theorems hold for every value of the constants that satisfies the named
assumptions: `AdmissionAssumption`, `LifecycleAssumption`, `EngineAssumption`,
`LockAssumption`, `CompileAssumption`, `PluginsAssumption`, `LimitsAssumption`,
`AsyncAssumption` and `GroupAssumption`, each evaluated by TLC in the runs of its
module. They say that sets are finite where they are counted, that numbers are
numbers, and that None, Free and the like are not members of the sets they are
added to.

- `AdmissionProofs`: `AdmissionTypeCorrect`, `UnitsConserved`, `WakeupsNotLost`,
  `ClosedStaysClosed`. The inductive invariant joins the three invariants and
  adds that the batches of calls that have not been granted are not held, since
  a grant must add exactly its count.
- `LifecycleProofs`: `LifecycleTypeCorrect`, `ResultAvailable`,
  `CancelledPendingNeverRuns`, `ShutdownNoticed`, `LiveRecordsStay`,
  `NoRecordLeaks` and `ContractImplemented`. The inductive invariant `IInv` says
  where a task is: in a queue or with exactly one worker until it has an outcome
  (`Alone`, `PlaceInv`); what a worker, a `cancel()` and a `result()` call may
  rely on in the middle of their handlers (`WorkerInv`, `CancelInv`, `WaitInv`);
  and how the fields of a record relate (`TaskInv`). `NoLeak` alone is not
  inductive: it needs that the record of a closed handle has `autofree` set and
  is still on its way to a worker's last step. Frame lemmas carry the parts an
  action does not touch; `ContractImplemented` groups the steps into hidden,
  status, publishing, cancelling and waiting ones.
  The second half of the module proves `LifecycleCounts`, `StatisticsExact` and
  `CountedBeforeSignal`. That the counters are exact when nobody is counting is
  not inductive. `SInv` adds to `IInv` that every counter is, at every moment,
  the size of a set of tasks: those being run, those with an outcome that no
  worker is about to count, those cancelled that neither a worker nor a
  `cancel()` call is about to record (`CountInv`). A step then has to move a
  counter by one exactly when it moves one task into or out of the set, which
  needs that at most one thread has won the right to count a task (`OneWinner`,
  `WinnerInv`, `HolderInv`) and that an outcome not yet published is in
  somebody's hands (`Unpublished`).
- `EngineSteps`, `EngineProofs`: `EngineInvariant`, `EngineImplementsParts`,
  `UnitsHeldExactly`, `SendsSucceed`, `ShutdownDrains`, `StatisticsBalance` and
  `ShutdownIsFinal`.
  The invariant is that of `Admission`, that of `Lifecycle` with its statistics,
  and `EngineInv`: the tasks of a call are new, inserted, sent or handed out
  together, save while it sends (`CallInv`); a channel holds distinct tasks of
  its lane and then only STOP messages (`LaneInv`); only those are left where a
  worker has left (`LeftInv`); nobody sends once a shutdown has been through the
  gate (`GateInv`); and units are held exactly where `HeldExact` says.
  The argument is circular in appearance only: the invariants before a step give
  that the step is one of both parts (`StepsOfParts`), the theorems about the
  parts then keep their invariants, and these keep `EngineInv` (`EngineStep`).
  `SendNeverFails` follows by counting: the channel and the tasks still to be
  sent are disjoint sets of held units, of which there are at most `Capacity`
  (`SendFromInv`); `BooksBalance` because a drained engine is quiet, so that the
  counters are the sizes of sets that split the tasks handed out
  (`BooksFromInv`). `EngineSteps` states for every kind of step what it changes
  and that `EngineInv` survives; `EngineProofs` shows that the actions change
  just that.
- `CompileProofs`: `CompilationIsSerialized` and `CacheHoldsWholeLibraries`. The
  inductive invariant says that a call past the thread lock has it
  (`ThreadInv`), that one between the locks' acquisition and release has its lock
  object in state "held" (`HeldInv`), that a call about to rename has staged its
  whole build (`StagedInv`), and, as long as every process lives, that nobody
  removes a stale directory and each directory has at most one owner, which sees
  it exist (`OwnerInv`). The last part fails as soon as a process ends, which is
  what `compile_serialized` shows. A step that touches no lock is covered by one
  lemma (`QuietStep`), a step of the lock object by `LockStepTyped`,
  `LockStepOwned` and `LockMove`.
- `PluginsProofs`: `PluginsInvariant`, `CurrentRegistration`, `AnswersMatch`,
  `RegistrationAgrees` and `WorkersOwned`. The inductive invariant `PInv` says
  four things. A call in progress for a name that nobody else calls about has done
  its part of the update of the two tables (`NameInv`, `CallInv`). What a process
  holds has the generation the engine believes it to have, and is the
  registration in force if it has that one's generation (`HoldInv`, `Copy`): this
  is what makes comparing generations enough. The stream between a coordinator
  and its process holds nothing, the task, or the task's answer (`Quiet`,
  `Asked`, `Told`), according to where the coordinator is (`CoordInv`); a process
  given back, idle or reaped is quiet, so that no answer outlives its task. And
  a process is with one coordinator, once in the pool, or with the reaper
  (`Apart`, `PoolInv`, `OwnerInv`), where a process may die at any moment. A
  coordinator that is about to drop its process after an error may leave it in the
  middle of an exchange; the invariant then only knows that the process is
  `abandoned`, and that nobody else has it. Each action has a lemma; frame lemmas
  carry the parts it leaves alone.
- `ScopesProofs`: `ScopesInvariant`, `ScopesNest`, `LimitsArrive` and
  `IsolatedReturns`. `ScopesUnwind` speaks of the values in a context, but what a
  block restores is in its token. The invariant therefore says of each token what
  `ScopesUnwind` says of the context: it holds what the blocks below it say, or
  what the context inherited, unless a refused `scoped()` had left the setting
  overridden (`TokenInv`). Leaving a block makes its token's statement the
  context's, so no induction over the stack is needed. For the limits, `GlobalInv`
  says that a value whose call has finished is the stored one, unless another
  call is between its two stores; `CarriesInv` and `ReturnsInv` say what a
  submitted task carries.
- `AsyncProofs`: `AsyncTables` for `AsyncWait`; `GroupInvariant`,
  `GroupExitTruthful` and `GroupTables` for `TaskGroup`. `TableInv` ties both
  tables to the places of the calls. `GroupExitSound` says nothing until
  `__aexit__` has returned; `GroupInv` says what it has collected on the way: the
  exceptions of exactly the calls it no longer awaits, save the cancellations
  that the body's own exception explains (`Collected`). `ResultInv` adds that a
  call that returned a value did so for a completed task. An exit that was
  cancelled has collected nothing, and nothing is claimed of it.

Model-checked only:

- All liveness: `CloseUnblocks`, `DeadlineBoundsWait`, `SubmittedCompletes`,
  `WaitReturns`, `CancelCompletes`, `ShutdownCompletes`, `AcceptedCompletes`,
  `SubmissionsReturn`, `AwaitsReturn`, `GroupExits`, `CompileReturns`. Fairness
  and ENABLED are outside the prover's reach.
- The properties of the three runs that end in a counterexample, which do not
  hold.

## Not modelled

- The byte level: IPC frames, shared-memory layout, FFI packing and unpacking
  beyond what refuses a call, the range check of WASM outputs. They are codecs
  without state; their failures are outcomes of the steps that use them.
- Execution of C functions through pointers and of WASM modules, and the WASM
  epoch ticker: a run is one step with outcome ok or err.
- Windows: the socket pair of the waker and the reader thread of the coordinator.
- A descriptor number or a process id that the system hands out again while
  somebody still remembers it, and processes of different users (`os.kill`
  refuses, and the lock takes the owner for dead).
- The snapshot of `get_engine_stats` (documented as approximate), counter
  wrap-around, engine construction and fork detection, the slab library's
  deferred removal of a record somebody still holds, spurious wakeups of
  `wait_task` (its loop tests the flag again).
- The asyncio tasks that `__aexit__` creates are local to it; that something
  cancels one of them by itself is not modelled.
- `TaskGroup.wait` and `result`, which call the handles one by one; the command
  line, stub generation, re-exports, examples and benchmarks.
