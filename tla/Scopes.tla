-------------------------------- MODULE Scopes --------------------------------
(* Limits and how they reach a task: the environment, the set_ calls and      *)
(* `with scoped(...)` of python/pyroxide/config.py; the decorators and proxies *)
(* that read the limits of the calling context when they submit; the getters  *)
(* of src/config.rs that fill in what a task does not carry.                  *)
(*                                                                            *)
(* A context is a contextvars.Context: one per thread, and one per asyncio    *)
(* task, which starts as a copy.  Only its owner reads and writes it, so a    *)
(* call to scoped() is one step.  The set_ calls write atomics that every     *)
(* thread reads; their stores are separate steps.                             *)
EXTENDS Integers, Sequences, FiniteSets

CONSTANTS
  Contexts,     \* contexts; Main is the importing thread's
  Main,
  Tasks,
  SetCalls,     \* set_wasm_limits and set_queue_timeout calls
  Environments, \* the environments the process may be started with
  Overrides,    \* argument lists of scoped(): [Settings -> Values or None]
  Updates,      \* the same for the set_ calls
  Signatures,   \* FFI signatures given to a proxy: [args, ret]
  ArgLists,     \* argument tuples of FFI calls
  Fits,         \* the pairs <<type, value>> that struct.pack accepts
  MaxMemory,    \* 2**31 - 1, scaled down
  MaxU64,       \* 2**64 - 1, scaled down
  MaxFfiArgs,   \* 8, scaled down
  MaxDepth,     \* bound: nested scoped() blocks, [Contexts -> Nat]
  DefaultLimit, \* [Settings -> Nat]
  DefaultProcesses,
  NotInt,       \* a value whose type is not int, or a text int() rejects
  None

Settings == {"wasm_timeout", "wasm_memory", "queue_timeout"}
IntNames == Settings \cup
  {"workers", "queue_capacity", "max_processes", "shm_threshold", "wasm_tick",
   "max_tasks_per_worker", "worker_startup_timeout", "idle_timeout", "min_workers",
   "max_ipc_frame", "max_native_output"}
EnvNames == IntNames \cup {"compiler_timeout"}

(* What an argument or a context variable may hold.                           *)
Limit == Int \cup {NotInt, None}

(* The order in which scoped() and the set_ calls treat their arguments.      *)
ScopedOrder == <<"wasm_timeout", "wasm_memory", "queue_timeout">>
SetOrder    == <<"wasm_memory", "wasm_timeout", "queue_timeout">>

ASSUME LimitsAssumption ==
  /\ Main \in Contexts /\ MaxMemory \in Nat /\ MaxU64 \in Nat
  /\ MaxMemory <= MaxU64
  /\ DefaultLimit \in [Settings -> 1..MaxMemory]
  /\ Overrides \subseteq [Settings -> Limit]
  /\ None \notin {"function", "wrapper", "nothing"}

VARIABLES
  env,      \* [EnvNames -> None or [int, plain]]; plain: Rust's parse takes it
  imported, \* whether `import pyroxide` succeeded: "no", "yes", "failed"
  glob,     \* CONFIG: the stored global values
  gset,     \* the GLOBAL_..._SET flags
  setting,  \* per set_ call: the arguments it has yet to apply
  spc,      \* per set_ call: "idle", "value", "flag", "ok", "refused"
  ctx,      \* the context variables: [Contexts -> [Settings -> value or None]]
  blocks,   \* the open `with scoped(...)` blocks of a context, with tokens
  born,     \* contexts that exist
  via,      \* how a task was submitted: [kind, target, resolves]
  opts,     \* the limits a task carries
  waited,   \* the queue timeout the submission used
  outcome,  \* of a Python task: "value", "handle" or "unpicklable"
  (* History: *)
  lost,     \* settings a refused scoped() left overridden, per context
  base,     \* what a context inherited
  scope,    \* the override in force around the submission of a task
  chosen    \* the last value a completed set_ call stored, or None

process == <<env, imported>>
globals == <<glob, gset, setting, spc, chosen>>
scopes  == <<ctx, blocks, born, lost, base>>
tasks   == <<via, opts, waited, outcome, scope>>
vars == <<env, imported, glob, gset, setting, spc, chosen, ctx, blocks, born,
          lost, base, via, opts, waited, outcome, scope>>

NoLimits == [s \in Settings |-> None]
Kind(k)  == [kind |-> k, target |-> None, resolves |-> None]

Init ==
  /\ env \in Environments /\ imported = "no"
  /\ glob = DefaultLimit /\ gset = [s \in Settings |-> FALSE]
  /\ setting = [u \in SetCalls |-> NoLimits]
  /\ spc = [u \in SetCalls |-> "idle"]
  /\ ctx = [c \in Contexts |-> NoLimits]
  /\ blocks = [c \in Contexts |-> <<>>]
  /\ born = {Main}
  /\ via = [t \in Tasks |-> Kind("new")]
  /\ opts = [t \in Tasks |-> NoLimits]
  /\ waited = [t \in Tasks |-> None]
  /\ outcome = [t \in Tasks |-> "none"]
  /\ lost = [c \in Contexts |-> {}]
  /\ base = [c \in Contexts |-> NoLimits]
  /\ scope = [t \in Tasks |-> NoLimits]
  /\ chosen = NoLimits
-------------------------------------------------------------------------------
(* Validation.                                                                *)

PositiveInt(v) == v # NotInt /\ v > 0

NonnegativeInt(v) == v # NotInt /\ v >= 0

WasmMemoryBytes(v) == PositiveInt(v) /\ v <= MaxMemory

Valid(s, v) ==
  \/ s = "wasm_timeout" /\ PositiveInt(v)
  \/ s = "wasm_memory" /\ WasmMemoryBytes(v)
  \/ s = "queue_timeout" /\ NonnegativeInt(v)

Minimum(s) ==
  IF s \in {"queue_timeout", "max_tasks_per_worker", "idle_timeout", "min_workers"}
  THEN 0 ELSE 1

(* _validate_environment.  The compiler's timeout is a float: its `int` is a  *)
(* number of the sign it has, or NotInt if it is none or not finite.          *)
ValidEnvironment ==
  LET Given(s) == env[s] # None
      Or(s, d) == IF Given(s) THEN env[s].int ELSE d IN
  /\ \A s \in IntNames : Given(s) => /\ env[s].int # NotInt
                                   /\ env[s].int >= Minimum(s)
  /\ Given("compiler_timeout") => PositiveInt(env["compiler_timeout"].int)
  /\ Given("wasm_memory") => env["wasm_memory"].int <= MaxMemory
  /\ Or("min_workers", 0) <= Or("max_processes", DefaultProcesses)

(* `import pyroxide` runs _validate_environment.                              *)
Import ==
  /\ imported = "no"
  /\ imported' = IF ValidEnvironment THEN "yes" ELSE "failed"
  /\ UNCHANGED <<env, globals, scopes, tasks>>
-------------------------------------------------------------------------------
(* The global limits.                                                         *)

(* What a getter of src/config.rs takes from the environment: a text Rust     *)
(* parses as an unsigned integer and finds in range; Python's int() accepts   *)
(* more texts than that.                                                      *)
FromEnvironment(s) ==
  /\ env[s] # None /\ env[s].plain
  /\ env[s].int # NotInt /\ env[s].int \in 0..MaxU64
  /\ s # "queue_timeout" => env[s].int > 0
  /\ s = "wasm_memory" => env[s].int <= MaxMemory

(* get_wasm_memory_limit_bytes, get_wasm_timeout_ms, get_queue_timeout_ms     *)
Get(s) == IF gset[s] THEN glob[s]
          ELSE IF FromEnvironment(s) THEN env[s].int ELSE DefaultLimit[s]

(* The first argument of a set_ call that is given, and the one a call in     *)
(* progress applies next.                                                     *)
FirstGiven(a) ==
  LET todo == SelectSeq(SetOrder, LAMBDA s : a[s] # None) IN
  IF todo = <<>> THEN None ELSE Head(todo)

NextOf(u) == FirstGiven(setting[u])

(* set_wasm_limits(...) or set_queue_timeout(...) is called.                  *)
SetBegin(u) ==
  /\ imported = "yes" /\ spc[u] = "idle"
  /\ \E a \in Updates : setting' = [setting EXCEPT ![u] = a]
  /\ spc' = [spc EXCEPT ![u] = "value"]
  /\ UNCHANGED <<process, scopes, tasks, glob, gset, chosen>>

(* The next argument is validated and stored; a value that the Rust function  *)
(* cannot take is refused as well.  What was applied before stays.            *)
SetValue(u) ==
  LET s == NextOf(u) IN
  /\ spc[u] = "value"
  /\ IF s = None
     THEN spc' = [spc EXCEPT ![u] = "ok"] /\ UNCHANGED glob
     ELSE IF Valid(s, setting[u][s]) /\ setting[u][s] <= MaxU64
     THEN /\ glob' = [glob EXCEPT ![s] = setting[u][s]]
          /\ spc' = [spc EXCEPT ![u] = "flag"]
     ELSE spc' = [spc EXCEPT ![u] = "refused"] /\ UNCHANGED glob
  /\ UNCHANGED <<process, scopes, tasks, gset, setting, chosen>>

SetFlag(u) ==
  LET s == NextOf(u) IN
  /\ spc[u] = "flag"
  /\ gset' = [gset EXCEPT ![s] = TRUE]
  /\ chosen' = [chosen EXCEPT ![s] = glob[s]]
  /\ setting' = [setting EXCEPT ![u][s] = None]
  /\ spc' = [spc EXCEPT ![u] = "value"]
  /\ UNCHANGED <<process, scopes, tasks, glob>>
-------------------------------------------------------------------------------
(* Contexts and scoped().                                                     *)

(* asyncio copies the context of the creator of a task; a thread starts with  *)
(* an empty one, or with a copy where the interpreter is built that way.      *)
NewContext(c, d, copied) ==
  /\ imported = "yes" /\ c \in born /\ d \notin born
  /\ born' = born \cup {d}
  /\ ctx' = [ctx EXCEPT ![d] = IF copied THEN ctx[c] ELSE NoLimits]
  /\ base' = [base EXCEPT ![d] = IF copied THEN ctx[c] ELSE NoLimits]
  /\ lost' = [lost EXCEPT ![d] = IF copied THEN lost[c] ELSE {}]
  /\ UNCHANGED <<process, globals, tasks, blocks>>

Given(a) == {s \in Settings : a[s] # None}

(* The arguments that are set before the first one that is refused.           *)
Accepted(a) ==
  {s \in Given(a) :
     LET i == CHOOSE i \in 1..3 : ScopedOrder[i] = s IN
     \A j \in 1..i : a[ScopedOrder[j]] # None =>
                     Valid(ScopedOrder[j], a[ScopedOrder[j]])}

(* __enter__: each argument is validated and set before the next is looked at; *)
(* an argument that is refused raises before the try, so nothing is reset.    *)
EnterScoped(c, a) ==
  /\ imported = "yes" /\ c \in born /\ Len(blocks[c]) < MaxDepth[c]
  /\ ctx' = [ctx EXCEPT ![c] =
               [s \in Settings |-> IF s \in Accepted(a) THEN a[s] ELSE @[s]]]
  /\ IF Accepted(a) = Given(a)
     THEN /\ blocks' = [blocks EXCEPT ![c] = Append(@,
               [over |-> [s \in Given(a) |-> a[s]],
                tokens |-> [s \in Given(a) |-> ctx[c][s]],
                lost |-> lost[c] \cap Given(a)])]
          /\ lost' = [lost EXCEPT ![c] = @ \ Given(a)]
     ELSE /\ lost' = [lost EXCEPT ![c] = @ \cup Accepted(a)]
          /\ UNCHANGED blocks
  /\ UNCHANGED <<process, globals, tasks, born, base>>

Innermost(c) == blocks[c][Len(blocks[c])]

(* Mutant: __exit__ clears the variables instead of using the tokens.         *)
ExitScopedClearing(c) ==
  /\ blocks[c] # <<>>
  /\ LET b == Innermost(c) IN
     /\ ctx' = [ctx EXCEPT ![c] =
                  [s \in Settings |-> IF s \in DOMAIN b.tokens THEN None ELSE @[s]]]
     /\ lost' = [lost EXCEPT ![c] = (@ \ DOMAIN b.tokens) \cup b.lost]
  /\ blocks' = [blocks EXCEPT ![c] = SubSeq(@, 1, Len(@) - 1)]
  /\ UNCHANGED <<process, globals, tasks, born, base>>

(* __exit__, also when the body raised: every token is used.                  *)
ExitScoped(c) ==
  /\ blocks[c] # <<>>
  /\ LET b == Innermost(c) IN
     /\ ctx' = [ctx EXCEPT ![c] =
                  [s \in Settings |-> IF s \in DOMAIN b.tokens THEN b.tokens[s]
                                      ELSE @[s]]]
     /\ lost' = [lost EXCEPT ![c] = (@ \ DOMAIN b.tokens) \cup b.lost]
  /\ blocks' = [blocks EXCEPT ![c] = SubSeq(@, 1, Len(@) - 1)]
  /\ UNCHANGED <<process, globals, tasks, born, base>>

(* The override around a point of a context: that of the innermost open block *)
(* that names the setting, or what the context inherited.                     *)
InScope(c, s) ==
  LET named == {i \in DOMAIN blocks[c] : s \in DOMAIN blocks[c][i].over} IN
  IF named = {} THEN base[c][s]
  ELSE blocks[c][CHOOSE i \in named : \A j \in named : j <= i].over[s]
-------------------------------------------------------------------------------
(* Submission: each wrapper reads the overrides it passes on just before it   *)
(* submits, a batch once for all of its tasks.                                *)

Read(c, S) == [s \in Settings |-> IF s \in S THEN ctx[c][s] ELSE None]

(* The engine takes the tasks with options o, unless a number does not fit;   *)
(* resolve_queue_timeout_ms fills in the queue timeout at once.               *)
Submit(c, T, how, o) ==
  /\ imported = "yes" /\ c \in born /\ T # {}
  /\ \A t \in T : via[t].kind = "new"
  /\ \A s \in Settings : o[s] # None => o[s] <= MaxU64
  /\ via' = [t \in Tasks |-> IF t \in T THEN how ELSE via[t]]
  /\ opts' = [t \in Tasks |-> IF t \in T THEN o ELSE opts[t]]
  /\ waited' = [t \in Tasks |-> IF t \notin T THEN waited[t]
                                ELSE IF o["queue_timeout"] # None
                                THEN o["queue_timeout"] ELSE Get("queue_timeout")]
  /\ scope' = [t \in Tasks |-> IF t \notin T THEN scope[t]
                ELSE [s \in Settings |-> IF s \in lost[c] THEN ctx[c][s]
                                         ELSE InScope(c, s)]]
  /\ UNCHANGED <<process, globals, scopes, outcome>>

QueueOnly == {"queue_timeout"}

(* Mutant: the original is pickled although its name is the wrapper's.        *)
TargetOriginal(isolated, resolves) == "function"

(* What task() hands to the engine; `resolves` is what the module attribute   *)
(* named by the function is: the function, its wrapper, or nothing.           *)
Target(isolated, resolves) ==
  IF ~isolated THEN "function"
  ELSE IF resolves = "function" THEN "functional" ELSE "wrapper"

PythonCall(isolated, resolves) ==
  [kind |-> IF isolated THEN "isolated" ELSE "python",
   target |-> Target(isolated, resolves), resolves |-> resolves]

(* The tasks a decorated function submits, one or a batch.                    *)
TaskWrapper(c, t, isolated, resolves) ==
  Submit(c, {t}, PythonCall(isolated, resolves),
         Read(c, QueueOnly))

TaskBatch(c, T, isolated, resolves) ==
  Submit(c, T, PythonCall(isolated, resolves),
         Read(c, QueueOnly))

DylibWrapper(c, t) == Submit(c, {t}, Kind("dylib"), Read(c, QueueOnly))

DylibBatch(c, T) == Submit(c, T, Kind("dylib"), Read(c, QueueOnly))

WasmWrapper(c, t) == Submit(c, {t}, Kind("wasm"), Read(c, Settings))

WasmMethod(c, t) == Submit(c, {t}, Kind("wasm"), Read(c, Settings))

(* Mutant: the batch forgets the memory limit.                                *)
WasmBatchUnlimited(c, T) ==
  Submit(c, T, Kind("wasm"), Read(c, Settings \ {"wasm_memory"}))

WasmBatch(c, T) == Submit(c, T, Kind("wasm"), Read(c, Settings))

(* DylibProxy.__getattr__: a declared signature must be one the engine knows. *)
SignatureOK(sig) ==
  /\ sig.ret # None /\ Len(sig.args) <= MaxFfiArgs
  /\ \A y \in {sig.args[i] : i \in DOMAIN sig.args} \cup {sig.ret} :
       \E p \in Fits : p[1] = y

(* struct.pack: as many arguments as declared, each in the range of its type. *)
Packs(sig, args) ==
  /\ Len(args) = Len(sig.args)
  /\ \A i \in DOMAIN args : <<sig.args[i], args[i]>> \in Fits

FfiMethod(c, t, sig, args) ==
  /\ SignatureOK(sig) /\ Packs(sig, args)
  /\ Submit(c, {t}, Kind("dylib"), Read(c, QueueOnly))

(* One payload that does not pack refuses the batch: the engine calls         *)
(* pack_payload on every payload before it takes any task.                    *)
FfiBatch(c, T, sig, args) ==
  /\ SignatureOK(sig) /\ \A t \in T : Packs(sig, args[t])
  /\ Submit(c, T, Kind("dylib"), Read(c, QueueOnly))

DylibMethod(c, t) == Submit(c, {t}, Kind("dylib"), Read(c, QueueOnly))

DylibMethodBatch(c, T) == Submit(c, T, Kind("dylib"), Read(c, QueueOnly))
-------------------------------------------------------------------------------
(* Execution.                                                                 *)

(* The variable PYROXIDE_WORKER of a process that spawn_new_worker starts.    *)
PyroxideWorker == "1"

(* In a process where it is set a wrapper calls its function; anywhere else   *)
(* it would submit it again and come back with a handle.                      *)
CalledInWorker(target) ==
  IF target = "wrapper" /\ PyroxideWorker # "1" THEN "handle" ELSE "value"

(* pickle stores a function by its name, which must lead back to it.          *)
Picklable(w) ==
  \/ w.target \in {"function", "functional"} /\ w.resolves = "function"
  \/ w.target = "wrapper" /\ w.resolves = "wrapper"

(* A WebAssembly task runs with the limits it carries; the globals fill in    *)
(* for those it does not, as they are when it runs.                           *)
RunsWith(t, s) == IF opts[t][s] # None THEN opts[t][s] ELSE Get(s)

Pending(t) == via[t].kind \notin {"new", "done"}

Run(t) ==
  /\ Pending(t)
  /\ outcome' = [outcome EXCEPT ![t] =
       IF via[t].kind # "isolated" THEN "value"
       ELSE IF Picklable(via[t]) THEN CalledInWorker(via[t].target)
       ELSE "unpicklable"]
  /\ via' = [via EXCEPT ![t].kind = "done", ![t].target = None]
  /\ opts' = [opts EXCEPT ![t] = NoLimits]
  /\ waited' = [waited EXCEPT ![t] = None]
  /\ scope' = [scope EXCEPT ![t] = NoLimits]
  /\ UNCHANGED <<process, globals, scopes>>
-------------------------------------------------------------------------------
Call(c, T) ==
  \/ \E isolated \in BOOLEAN, r \in {"function", "wrapper", "nothing"} :
       \/ \E t \in T : TaskWrapper(c, t, isolated, r)
       \/ TaskBatch(c, T, isolated, r)
  \/ \E t \in T : \/ DylibWrapper(c, t) \/ DylibMethod(c, t)
                  \/ WasmWrapper(c, t) \/ WasmMethod(c, t)
                  \/ \E sig \in Signatures, a \in ArgLists : FfiMethod(c, t, sig, a)
  \/ DylibBatch(c, T) \/ DylibMethodBatch(c, T) \/ WasmBatch(c, T)
  \/ \E sig \in Signatures, a \in [T -> ArgLists] : FfiBatch(c, T, sig, a)

Next ==
  \/ Import
  \/ \E u \in SetCalls : SetBegin(u) \/ SetValue(u) \/ SetFlag(u)
  \/ \E c, d \in Contexts, copied \in BOOLEAN : NewContext(c, d, copied)
  \/ \E c \in Contexts : \/ \E a \in Overrides : EnterScoped(c, a)
                         \/ ExitScoped(c)
                         \/ \E T \in SUBSET Tasks : Call(c, T)
  \/ \E t \in Tasks : Run(t)

Spec == Init /\ [][Next]_vars
-------------------------------------------------------------------------------
(* scoped() nests and unwinds: at every point a context variable holds what   *)
(* the innermost open block says, then what the context inherited; only       *)
(* settings a refused scoped() call left behind (`lost`) are exempt.          *)
ScopesUnwind ==
  \A c \in born, s \in Settings : s \notin lost[c] => ctx[c][s] = InScope(c, s)

(* Whenever a submitted task comes to run, it does so under the limits of the *)
(* block it was submitted in, whatever was opened, closed or set since; its   *)
(* submission waited for the queue as that block says.  A limit no block      *)
(* names is the one the last set_ call stored (any, while one is storing).    *)
LimitsReachTheTask ==
  \A t \in Tasks : Pending(t) =>
    /\ scope[t]["queue_timeout"] # None => waited[t] = scope[t]["queue_timeout"]
    /\ via[t].kind = "wasm" => \A s \in {"wasm_timeout", "wasm_memory"} :
         /\ scope[t][s] # None => RunsWith(t, s) = scope[t][s]
         /\ scope[t][s] = None /\ chosen[s] # None
            /\ (\A u \in SetCalls : spc[u] # "flag") => RunsWith(t, s) = chosen[s]

(* An isolated Python task whose function can be found by name comes back     *)
(* with the function's value: it is picklable under the target task() chose,  *)
(* and the worker process does not submit it once more.                       *)
IsolatedCallReturns ==
  \A t \in Tasks : via[t].kind = "done" /\ via[t].resolves # "nothing"
                   => outcome[t] = "value"
===============================================================================
