------------------------------ MODULE Compile ------------------------------
(***************************************************************************)
(* On-the-fly compilation (python/pyroxide/_native_compile.py and          *)
(* _wasm_compile.py).  A native call builds a library in a temporary       *)
(* directory, publishes it in the shared cache under its name and loads it *)
(* from there; a WebAssembly call registers the bytes it built.  Calls are *)
(* serialised by _compile_lock inside a process and by a CrossProcessLock  *)
(* between processes, one directory for native code and one for wasm.      *)
(*                                                                         *)
(* All calls are for the same name; a build is named by the call that made *)
(* it.  A compiler run, a copy or a registration may fail; so may mkdtemp. *)
(***************************************************************************)
EXTENDS CrossProcessLock

CONSTANT LangsOf   \* LangsOf[c]: the compile functions caller c may call

ASSUME CompileAssumption == {"compile.lock", "wasm-compile.lock"} \subseteq Locks

VARIABLES
  pc,          \* pc[c]: where the call is
  lang,        \* lang[c]: the compile function it runs
  mutex,       \* mutex[p]: the holder of _compile_lock in process p
  temp,        \* calls whose temporary directory exists
  staged,      \* staged[c]: c's mkstemp file in the cache directory
  cache,       \* the library in the cache, under the calls' common name
  loaded,      \* loaded[p]: the library process p has mapped from that path
  registered   \* registered[c]: what c's registration put under the name

callVars == <<pc, lang, mutex, temp, staged, cache, loaded, registered>>
vars == <<lockVars, callVars>>

Partial == "partial"
Returned(c) == pc[c] \in {"ok", "error", "unreleased", "killed"}

Init ==
  /\ LockInit
  /\ pc = [c \in Callers |-> "idle"]
  /\ lang = [c \in Callers |-> "none"]
  /\ mutex = [p \in Procs |-> None]
  /\ temp = {}
  /\ staged = [c \in Callers |-> None]
  /\ cache = None
  /\ loaded = [p \in Procs |-> None]
  /\ registered = [c \in Callers |-> None]

Running(c, s) == alive[ProcOf[c]] /\ pc[c] = s
Step(c, from, to) == Running(c, from) /\ pc' = [pc EXCEPT ![c] = to]
-----------------------------------------------------------------------------
(* The steps the compile functions share. *)

(* _check_compilation_enabled and _verify_compiler raise before any lock.   *)
CheckEnvironment(c, l) ==
  /\ l \in LangsOf[c]
  /\ lang' = [lang EXCEPT ![c] = l]
  /\ Step(c, "idle", "mutex") \/ Step(c, "idle", "error")
  /\ UNCHANGED <<lockVars, mutex, temp, staged, cache, loaded, registered>>

(* Mutant: the thread lock is kept when the directory lock is not obtained. *)
AcquireLocksKeepsMutex(c, l) ==
  \/ /\ mutex[ProcOf[c]] = None
     /\ Step(c, "mutex", "locking")
     /\ mutex' = [mutex EXCEPT ![ProcOf[c]] = c]
     /\ NewLock(c, l)
     /\ UNCHANGED <<lang, temp, staged, cache, loaded, registered>>
  \/ /\ Running(c, "locking") /\ Acquire(c) /\ UNCHANGED callVars
  \/ /\ lpc[c] = "held"
     /\ Step(c, "locking", "mkdtemp")
     /\ UNCHANGED <<lockVars, lang, mutex, temp, staged, cache, loaded, registered>>
  \/ /\ lpc[c] = "failed"
     /\ Step(c, "locking", "error")
     /\ UNCHANGED <<lockVars, lang, mutex, temp, staged, cache, loaded, registered>>

(* _acquire_compilation_locks: the thread lock, then the directory lock; an *)
(* exception from the second releases the first.                            *)
AcquireLocks(c, l) ==
  \/ /\ mutex[ProcOf[c]] = None
     /\ Step(c, "mutex", "locking")
     /\ mutex' = [mutex EXCEPT ![ProcOf[c]] = c]
     /\ NewLock(c, l)
     /\ UNCHANGED <<lang, temp, staged, cache, loaded, registered>>
  \/ /\ Running(c, "locking") /\ Acquire(c) /\ UNCHANGED callVars
  \/ /\ lpc[c] = "held"
     /\ Step(c, "locking", "mkdtemp")
     /\ UNCHANGED <<lockVars, lang, mutex, temp, staged, cache, loaded, registered>>
  \/ /\ lpc[c] = "failed"
     /\ Step(c, "locking", "error")
     /\ mutex' = [mutex EXCEPT ![ProcOf[c]] = None]
     /\ UNCHANGED <<lockVars, lang, temp, staged, cache, loaded, registered>>

(* tempfile.mkdtemp, which may raise OSError: `onError` is where the call   *)
(* is then.                                                                 *)
MakeTempDir(c, next, onError) ==
  /\ \/ Step(c, "mkdtemp", next) /\ temp' = temp \cup {c}
     \/ Step(c, "mkdtemp", onError) /\ UNCHANGED temp
  /\ UNCHANGED <<lockVars, lang, mutex, staged, cache, loaded, registered>>

(* A compiler process, bounded by _compiler_timeout_seconds: it succeeds    *)
(* and its output exists, or it does not, or the timeout ends the attempt.  *)
RunCompiler(c, attempt, next, onFailure) ==
  /\ \/ Step(c, attempt, next) \/ Step(c, attempt, onFailure)
     \/ Step(c, attempt, "rmtree")
  /\ UNCHANGED <<lockVars, lang, mutex, temp, staged, cache, loaded, registered>>

(* rmtree, then both locks, on every way out of the `try`.                  *)
LeaveGuard(c) ==
  \/ /\ Step(c, "rmtree", "unlock")
     /\ temp' = temp \ {c}
     /\ UNCHANGED <<lockVars, lang, mutex, staged, cache, loaded, registered>>
  \/ /\ Running(c, "unlock") /\ Release(c) /\ UNCHANGED callVars
  \/ /\ lpc[c] = "idle"
     /\ Step(c, "unlock", "unmutex")
     /\ UNCHANGED <<lockVars, lang, mutex, temp, staged, cache, loaded, registered>>
  \/ /\ Step(c, "unmutex", IF registered[c] = None THEN "error" ELSE "ok")
     /\ mutex' = [mutex EXCEPT ![ProcOf[c]] = None]
     /\ UNCHANGED <<lockVars, lang, temp, staged, cache, loaded, registered>>
-----------------------------------------------------------------------------
(* Native code *)

(* Mutant: the copy goes to the cached file itself.                         *)
PublishInPlace(c) ==
  /\ \/ Step(c, "stage", "copy") /\ cache' = Partial
     \/ Step(c, "copy", "register") /\ cache' = c
     \/ Step(c, "copy", "rmtree") /\ UNCHANGED cache
  /\ UNCHANGED <<lockVars, lang, mutex, temp, staged, loaded, registered>>

(* _publish_library: mkstemp beside the destination, copy2, os.replace; the *)
(* `finally` unlinks what is left of the staged file.  A copy that fails    *)
(* may have written a part.                                                 *)
PublishLibrary(c) ==
  /\ \/ /\ Step(c, "stage", "copy")
        /\ staged' = [staged EXCEPT ![c] = Partial] /\ UNCHANGED cache
     \/ Step(c, "stage", "rmtree") /\ UNCHANGED <<staged, cache>>
     \/ /\ Step(c, "copy", "replace")
        /\ staged' = [staged EXCEPT ![c] = c] /\ UNCHANGED cache
     \/ Step(c, "copy", "unstage") /\ UNCHANGED <<staged, cache>>
     \/ /\ Step(c, "replace", "register")
        /\ cache' = staged[c] /\ staged' = [staged EXCEPT ![c] = None]
     \/ Step(c, "replace", "unstage") /\ UNCHANGED <<staged, cache>>
     \/ /\ Step(c, "unstage", "rmtree")
        /\ staged' = [staged EXCEPT ![c] = None] /\ UNCHANGED cache
  /\ UNCHANGED <<lockVars, lang, mutex, temp, loaded, registered>>

(* register_dylib(name, dest_path): dlopen maps the file at the path, but   *)
(* hands back the library it already has mapped from that path (the plugin  *)
(* table still holds the previous one while it loads the next).             *)
RegisterDylib(c) ==
  /\ \/ LET lib == IF loaded[ProcOf[c]] = None THEN cache ELSE loaded[ProcOf[c]]
        IN  /\ lib \in Callers
            /\ Step(c, "register", "rmtree")
            /\ loaded' = [loaded EXCEPT ![ProcOf[c]] = lib]
            /\ registered' = [registered EXCEPT ![c] = lib]
     \/ Step(c, "register", "rmtree") /\ UNCHANGED <<loaded, registered>>
  /\ UNCHANGED <<lockVars, lang, mutex, temp, staged, cache>>

(* In the three native functions mkdtemp comes after the locks and before   *)
(* the `try` whose `finally` releases them.                                 *)
CompileRust(c) ==
  \/ CheckEnvironment(c, "rust")
  \/ /\ lang[c] = "rust"
     /\ \/ AcquireLocks(c, "compile.lock")
        \/ MakeTempDir(c, "init", "unreleased")
        \/ RunCompiler(c, "init", "build", "rmtree")
        \/ RunCompiler(c, "build", "stage", "rmtree")
        \/ PublishLibrary(c) \/ RegisterDylib(c) \/ LeaveGuard(c)

CompileC(c) ==
  \/ CheckEnvironment(c, "c")
  \/ /\ lang[c] = "c"
     /\ \/ AcquireLocks(c, "compile.lock")
        \/ MakeTempDir(c, "build", "unreleased")
        \/ RunCompiler(c, "build", "stage", "rmtree")
        \/ PublishLibrary(c) \/ RegisterDylib(c) \/ LeaveGuard(c)

CompileZig(c) ==
  \/ CheckEnvironment(c, "zig")
  \/ /\ lang[c] = "zig"
     /\ \/ AcquireLocks(c, "compile.lock")
        \/ MakeTempDir(c, "build", "unreleased")
        \/ RunCompiler(c, "build", "stage", "rmtree")
        \/ PublishLibrary(c) \/ RegisterDylib(c) \/ LeaveGuard(c)
-----------------------------------------------------------------------------
(* WebAssembly *)

(* register_wasm_wat, without a lock: for WAT, and for source of any        *)
(* language that starts with "(module".                                     *)
CompileWatWasm(c, l) ==
  /\ l \in LangsOf[c]
  /\ lang' = [lang EXCEPT ![c] = l]
  /\ \/ Step(c, "idle", "ok") /\ registered' = [registered EXCEPT ![c] = c]
     \/ Step(c, "idle", "error") /\ UNCHANGED registered
  /\ UNCHANGED <<lockVars, mutex, temp, staged, cache, loaded>>

(* Read the output from the temporary directory and register the bytes.     *)
RegisterWasm(c) ==
  /\ \/ Step(c, "register", "rmtree") /\ registered' = [registered EXCEPT ![c] = c]
     \/ Step(c, "register", "rmtree") /\ UNCHANGED registered
  /\ UNCHANGED <<lockVars, lang, mutex, temp, staged, cache, loaded>>

(* _wasm_compilation_guard: mkdtemp is inside, so its failure unlocks too.  *)
WasmCompilationGuard(c, first) ==
  \/ AcquireLocks(c, "wasm-compile.lock")
  \/ MakeTempDir(c, first, "unlock")
  \/ LeaveGuard(c)

CompileCWasm(c) ==
  \/ CompileWatWasm(c, "c_wasm") \/ CheckEnvironment(c, "c_wasm")
  \/ /\ lang[c] = "c_wasm"
     /\ \/ WasmCompilationGuard(c, "build")
        \/ RunCompiler(c, "build", "register", "fallback")
        \/ RunCompiler(c, "fallback", "register", "rmtree")
        \/ RegisterWasm(c)

CompileRustWasm(c) ==
  \/ CompileWatWasm(c, "rust_wasm") \/ CheckEnvironment(c, "rust_wasm")
  \/ /\ lang[c] = "rust_wasm"
     /\ \/ WasmCompilationGuard(c, "init")
        \/ RunCompiler(c, "init", "build", "rmtree")
        \/ RunCompiler(c, "build", "register", "fallback")
        \/ RunCompiler(c, "fallback", "register", "rmtree")
        \/ RegisterWasm(c)

CompileZigWasm(c) ==
  \/ CompileWatWasm(c, "zig_wasm") \/ CheckEnvironment(c, "zig_wasm")
  \/ /\ lang[c] = "zig_wasm"
     /\ \/ WasmCompilationGuard(c, "build")
        \/ RunCompiler(c, "build", "register", "rmtree")
        \/ RegisterWasm(c)

(* compile_wasm dispatches on the language; any other raises ValueError.    *)
CompileWasm(c) ==
  \/ CompileWatWasm(c, "wat")
  \/ CompileCWasm(c) \/ CompileRustWasm(c) \/ CompileZigWasm(c)
  \/ /\ "other" \in LangsOf[c]
     /\ lang' = [lang EXCEPT ![c] = "other"]
     /\ Step(c, "idle", "error")
     /\ UNCHANGED <<lockVars, mutex, temp, staged, cache, loaded, registered>>
-----------------------------------------------------------------------------
(* What a process leaves behind when it ends: its temporary directories,    *)
(* its staged files, and the lock directory if it held one.                 *)
ProcessEnds(p) ==
  /\ LockProcessEnds(p)
  /\ pc' = [c \in Callers |-> IF ProcOf[c] = p THEN "killed" ELSE pc[c]]
  /\ mutex' = [mutex EXCEPT ![p] = None]
  /\ loaded' = [loaded EXCEPT ![p] = None]
  /\ registered' = [c \in Callers |-> IF ProcOf[c] = p THEN None ELSE registered[c]]
  /\ UNCHANGED <<lang, temp, staged, cache>>

Call(c) == CompileRust(c) \/ CompileC(c) \/ CompileZig(c) \/ CompileWasm(c)

Next ==
  \/ \E c \in Callers : Call(c)
  \/ \E p \in Procs : ProcessEnds(p)

(* As long as calls can move, one of them does, and when calls keep waiting *)
(* for a directory lock, one of them runs out of its 60 seconds.            *)
Fairness ==
  /\ WF_vars(\E c \in Callers : pc[c] # "idle" /\ Call(c))
  /\ SF_vars(\E c \in Callers : pc[c] = "locking" /\ Expire(c) /\ UNCHANGED callVars)

Spec == Init /\ [][Next]_vars /\ Fairness
-----------------------------------------------------------------------------
(* Properties *)

Compiling(c) ==
  pc[c] \in {"mkdtemp", "init", "build", "fallback", "stage", "copy",
             "replace", "unstage", "register", "rmtree"}

(* Two threads of a process never compile at the same time, whatever other  *)
(* processes do; and while no process has ended, neither do two processes   *)
(* that compile for the same kind of target (_acquire_compilation_locks).   *)
SerializedWhileAllLive ==
  \A c, d \in Callers :
    c # d /\ Compiling(c) /\ Compiling(d) =>
      /\ ProcOf[c] # ProcOf[d]
      /\ (\A p \in Procs : alive[p]) => path[c] # path[d]

(* A cached library is always one whole build: a process that is killed in  *)
(* the middle of a publication, a copy that fails, or two processes that    *)
(* both believe they hold the lock, never leave a partly written file under *)
(* the library's name (_publish_library).                                   *)
PublishedWhole == cache \in Callers \cup {None}

(* os.remove, tried again and again on the owner.pid of a dead process,     *)
(* succeeds at some time: acquire looks at its deadline only when it does.  *)
RemovalSucceeds ==
  SF_vars(\E c \in Callers : pc[c] = "locking" /\ Removed(c, "remove", "rmdir")
                              /\ UNCHANGED callVars)

(* _compile_lock is kept by a call that has returned: mkdtemp has failed in *)
(* a native function.                                                       *)
LostLock(p) == \E c \in Callers : ProcOf[c] = p /\ pc[c] = "unreleased"

(* Every compile call returns, by a result or an exception: no waiter is    *)
(* left behind by a process that died with the lock, an interrupted         *)
(* recovery, an error in another thread's call, or another process that     *)
(* lost its lock.  Only a call of the process that lost it waits for ever.  *)
CompileReturns ==
  RemovalSucceeds =>
    \A c \in Callers : pc[c] = "mutex" ~> Returned(c) \/ LostLock(ProcOf[c])

(* "Compilation is serialized across threads and processes"                 *)
(* (docs/src/native_plugins.md): no two calls compile native code at once.  *)
CompilationSerialized ==
  \A c, d \in Callers :
    c # d /\ Compiling(c) /\ Compiling(d) => path[c] # path[d]
=============================================================================
