--------------------------- MODULE CompileProofs ---------------------------
(***************************************************************************)
(* Proofs about Compile, for any number of calls, threads and processes:   *)
(* compilation is serialised inside a process always, and between          *)
(* processes as long as none of them ends; and the cache only ever holds   *)
(* whole libraries.                                                        *)
(***************************************************************************)
EXTENDS Compile, TLAPS

Inside == {"mkdtemp", "init", "build", "fallback", "stage", "copy",
           "replace", "unstage", "register", "rmtree"}

(* Where a call has the thread lock, and where it has the directory lock.  *)
Guarded == Inside \cup {"locking", "unlock", "unmutex", "unreleased"}
Locked  == Inside \cup {"unreleased"}
CallStates == Guarded \cup {"idle", "mutex", "ok", "error", "killed"}
Owning  == {"open", "write", "held", "unlocking"}
AllLive == \A p \in Procs : alive[p]

CallTypeOK ==
  /\ pc \in [Callers -> CallStates]
  /\ mutex \in [Procs -> Callers \cup {None}]
  /\ staged \in [Callers -> Callers \cup {None, Partial}]

(* _compile_lock belongs to the call that is past its acquisition.         *)
ThreadInv == \A c \in Callers : pc[c] \in Guarded => mutex[ProcOf[c]] = c

(* Between _acquire_compilation_locks and the release the call's lock      *)
(* object has its directory.                                               *)
HeldInv == \A c \in Callers : pc[c] \in Locked => lpc[c] = "held"

(* While every process runs, a directory has one owner, which sees it      *)
(* exist, and nobody is removing a stale one.                              *)
OwnerInv ==
  /\ \A c \in Callers : lpc[c] \notin {"remove", "rmdir"}
  /\ \A c \in Callers : lpc[c] = "probe" => seen[c] \in Procs
  /\ \A c \in Callers : lpc[c] \in Owning => dir[path[c]]
  /\ \A c, d \in Callers :
       lpc[c] \in Owning /\ lpc[d] \in Owning /\ path[c] = path[d] => c = d

StagedInv ==
  /\ cache \in Callers \cup {None}
  /\ \A c \in Callers : pc[c] = "replace" => staged[c] = c

IInv ==
  /\ LockTypeOK /\ CallTypeOK /\ ThreadInv /\ HeldInv
  /\ AllLive => OwnerInv
  /\ StagedInv
-----------------------------------------------------------------------------
(* The directory lock *)

LockStep(c) == (\E l \in Locks : NewLock(c, l)) \/ Acquire(c) \/ Release(c)

(* A step of one lock object keeps the types, and only that object moves.  *)
LEMMA LockStepTyped ==
  ASSUME LockTypeOK, NEW c \in Callers, LockStep(c)
  PROVE  LockTypeOK' /\ alive' = alive
         /\ \A d \in Callers \ {c} : lpc'[d] = lpc[d]
<1> USE LockAssumption DEF LockTypeOK, LockStates, At, Goto
<1>1. CASE \E l \in Locks : NewLock(c, l)  BY <1>1 DEF NewLock
<1>2. CASE Mkdir(c)  BY <1>2 DEF Mkdir
<1>3. CASE OpenPid(c)
  <2>1. CASE Goto(c, "failed") /\ UNCHANGED <<pidfile, fd>>  BY <1>3, <2>1 DEF OpenPid
  <2>2. CASE ~(Goto(c, "failed") /\ UNCHANGED <<pidfile, fd>>)
    <3> DEFINE ino == IF pidfile[path[c]] = None THEN c ELSE pidfile[path[c]].ino
    <3>1. ino \in Callers \cup {None} /\ path[c] \in Locks  BY DEF Files
    <3>2. [ino |-> ino, pid |-> None] \in Files  BY <3>1 DEF Files
    <3> HIDE DEF ino
    <3>3. /\ pidfile' = [pidfile EXCEPT ![path[c]] = [ino |-> ino, pid |-> None]]
          /\ fd' = [fd EXCEPT ![c] = ino] /\ lpc' = [lpc EXCEPT ![c] = "write"]
          /\ UNCHANGED <<alive, dir, path, seen>>
      BY <1>3, <2>2 DEF OpenPid, ino
    <3> QED  BY <3>1, <3>2, <3>3
  <2> QED  BY <2>1, <2>2
<1>4. CASE WritePid(c)
  <2>0. CASE Goto(c, "failed") /\ UNCHANGED pidfile  BY <1>4, <2>0 DEF WritePid
  <2> SUFFICES ASSUME ~(Goto(c, "failed") /\ UNCHANGED pidfile)
               PROVE  LockTypeOK' /\ alive' = alive
                      /\ \A d \in Callers \ {c} : lpc'[d] = lpc[d]
    BY <2>0
  <2> DEFINE f == pidfile[path[c]]
  <2>1. path[c] \in Locks /\ ProcOf[c] \in Procs  OBVIOUS
  <2>2. ASSUME f # None PROVE [f EXCEPT !.pid = ProcOf[c]] \in Files
    <3>1. f \in Files  BY <2>1, <2>2
    <3> HIDE DEF f
    <3> QED  BY <2>1, <3>1 DEF Files
  <2>3. pidfile' \in [Locks -> Files \cup {None}]  BY <1>4, <2>1, <2>2 DEF WritePid
  <2> QED  BY <1>4, <2>3 DEF WritePid
<1>5. CASE ReadPid(c)
  <2>1. seen' \in [Callers -> Procs \cup {None}]  BY <1>5 DEF ReadPid, Files
  <2> QED  BY <1>5, <2>1 DEF ReadPid
<1>6. CASE Probe(c)  BY <1>6 DEF Probe
<1>7. CASE Unlink(c, "remove", "rmdir") \/ Unlink(c, "held", "unlocking")
  BY <1>7 DEF Unlink, Removed
<1>8. CASE Rmdir(c, "rmdir", "mkdir") \/ Rmdir(c, "unlocking", "idle")
  BY <1>8 DEF Rmdir
<1>9. CASE Expire(c) \/ Sleep(c)  BY <1>9 DEF Expire, Sleep
<1> QED  BY <1>1, <1>2, <1>3, <1>4, <1>5, <1>6, <1>7, <1>8, <1>9
         DEF LockStep, Acquire, BreakStale, Release

(* While every process runs, mkdir picks one owner and only the owner      *)
(* removes the directory.                                                  *)
LEMMA LockStepOwned ==
  ASSUME LockTypeOK, AllLive, OwnerInv, NEW c \in Callers, LockStep(c)
  PROVE  OwnerInv'
<1> USE LockAssumption DEF LockTypeOK, At, Goto, Owning
<1>1. CASE \E l \in Locks : NewLock(c, l)  BY <1>1 DEF NewLock, OwnerInv
<1>2. CASE Mkdir(c)  BY <1>2 DEF Mkdir, OwnerInv
<1>3. CASE OpenPid(c)
  <2>1. /\ lpc[c] = "open" /\ UNCHANGED <<dir, path, seen>>
        /\ \E s \in {"write", "failed"} : lpc' = [lpc EXCEPT ![c] = s]
    BY <1>3 DEF OpenPid
  <2> QED  BY <2>1 DEF OwnerInv
<1>4. CASE WritePid(c)
  <2>1. /\ lpc[c] = "write" /\ UNCHANGED <<dir, path, seen>>
        /\ \E s \in {"held", "failed"} : lpc' = [lpc EXCEPT ![c] = s]
    BY <1>4 DEF WritePid
  <2> QED  BY <2>1 DEF OwnerInv
<1>5. CASE ReadPid(c)
  <2>1. /\ seen' \in [Callers -> Procs \cup {None}]
        /\ \A d \in Callers \ {c} : seen'[d] = seen[d]
    BY <1>5 DEF ReadPid, Files
  <2>2. /\ UNCHANGED <<dir, path>>
        /\ lpc' = [lpc EXCEPT ![c] = IF seen'[c] = None THEN "wait" ELSE "probe"]
    BY <1>5 DEF ReadPid
  <2> QED  BY <2>1, <2>2 DEF OwnerInv
<1>6. CASE Probe(c)
  <2>1. alive[seen[c]]  BY <1>6 DEF Probe, OwnerInv, AllLive
  <2> QED  BY <1>6, <2>1 DEF Probe, OwnerInv
<1>7. CASE Unlink(c, "held", "unlocking")  BY <1>7 DEF Unlink, Removed, OwnerInv
<1>8. CASE Rmdir(c, "unlocking", "idle")  BY <1>8 DEF Rmdir, OwnerInv
<1>9. CASE Expire(c) \/ Sleep(c)  BY <1>9 DEF Expire, Sleep, OwnerInv
<1>10. ~Unlink(c, "remove", "rmdir") /\ ~Rmdir(c, "rmdir", "mkdir")
  BY DEF Unlink, Removed, Rmdir, OwnerInv
<1> QED  BY <1>1, <1>2, <1>3, <1>4, <1>5, <1>6, <1>7, <1>8, <1>9, <1>10
         DEF LockStep, Acquire, BreakStale, Release
-----------------------------------------------------------------------------
(* The compile functions *)

(* A step that touches neither lock, and takes the call into no region it  *)
(* was not in.                                                             *)
LEMMA QuietStep ==
  ASSUME IInv, NEW c \in Callers, NEW from, NEW to \in CallStates, Step(c, from, to),
         UNCHANGED <<lockVars, mutex, staged, cache>>,
         to \in Guarded => from \in Guarded,
         to \in Locked => from \in Locked,
         to # "replace"
  PROVE  IInv'
<1>1. /\ pc[c] = from /\ pc' = [pc EXCEPT ![c] = to]
      /\ UNCHANGED <<alive, dir, pidfile, path, lpc, fd, seen>>
  BY DEF Step, Running, lockVars
<1>2. LockTypeOK' /\ (AllLive => OwnerInv)'
  BY <1>1 DEF IInv, LockTypeOK, AllLive, OwnerInv
<1>3. CallTypeOK'  BY <1>1 DEF IInv, CallTypeOK
<1>4. ThreadInv' /\ HeldInv' /\ StagedInv'
  BY <1>1 DEF IInv, CallTypeOK, ThreadInv, HeldInv, StagedInv
<1> QED  BY <1>2, <1>3, <1>4 DEF IInv

(* A step of the lock object, while the call is taking or releasing it.    *)
LEMMA LockMove ==
  ASSUME IInv, NEW c \in Callers, pc[c] \notin Locked, LockStep(c),
         UNCHANGED callVars
  PROVE  IInv'
<1>1. /\ LockTypeOK' /\ alive' = alive
      /\ \A d \in Callers \ {c} : lpc'[d] = lpc[d]
  BY LockStepTyped DEF IInv
<1>2. (AllLive => OwnerInv)'  BY <1>1, LockStepOwned DEF IInv, AllLive
<1>3. UNCHANGED <<pc, mutex, staged, cache>>  BY DEF callVars
<1>4. CallTypeOK' /\ ThreadInv' /\ StagedInv'
  BY <1>3 DEF IInv, CallTypeOK, ThreadInv, StagedInv
<1>5. HeldInv'  BY <1>1, <1>3 DEF IInv, HeldInv
<1> QED  BY <1>1, <1>2, <1>4, <1>5 DEF IInv

(* _compile_lock.release(): nobody else in the process is past it.         *)
LEMMA MutexReleased ==
  ASSUME IInv, NEW c \in Callers, NEW from \in Guarded, NEW to \in {"ok", "error"},
         Step(c, from, to), mutex' = [mutex EXCEPT ![ProcOf[c]] = None],
         UNCHANGED <<lockVars, staged, cache>>
  PROVE  IInv'
<1>1. /\ pc[c] = from /\ pc' = [pc EXCEPT ![c] = to]
      /\ UNCHANGED <<alive, dir, pidfile, path, lpc, fd, seen>>
  BY DEF Step, Running, lockVars
<1>2. LockTypeOK' /\ (AllLive => OwnerInv)'
  BY <1>1 DEF IInv, LockTypeOK, AllLive, OwnerInv
<1>3. CallTypeOK'  BY <1>1, LockAssumption DEF IInv, CallTypeOK, CallStates
<1>4. to \notin Guarded /\ to \notin Locked  BY DEF Guarded, Locked, Inside
<1>5. ThreadInv'
  BY <1>1, <1>4, LockAssumption DEF IInv, CallTypeOK, ThreadInv
<1>6. HeldInv' /\ StagedInv'
  BY <1>1, <1>4 DEF IInv, CallTypeOK, HeldInv, StagedInv
<1> QED  BY <1>2, <1>3, <1>5, <1>6 DEF IInv

LEMMA AcquireLocksSafe ==
  ASSUME IInv, NEW c \in Callers, NEW l \in Locks, AcquireLocks(c, l)
  PROVE  IInv'
<1>1. CASE /\ mutex[ProcOf[c]] = None /\ Step(c, "mutex", "locking")
           /\ mutex' = [mutex EXCEPT ![ProcOf[c]] = c] /\ NewLock(c, l)
           /\ UNCHANGED <<lang, temp, staged, cache, loaded, registered>>
  <2>1. pc[c] = "mutex" /\ pc' = [pc EXCEPT ![c] = "locking"]
    BY <1>1 DEF Step, Running
  <2>2. LockStep(c)  BY <1>1 DEF LockStep
  <2>3. LockTypeOK' /\ alive' = alive /\ \A d \in Callers \ {c} : lpc'[d] = lpc[d]
    BY <2>2, LockStepTyped DEF IInv
  <2>4. (AllLive => OwnerInv)'  BY <2>2, <2>3, LockStepOwned DEF IInv, AllLive
  <2>5. CallTypeOK'
    BY <1>1, <2>1, LockAssumption DEF IInv, CallTypeOK, CallStates, Guarded
  <2>6. ThreadInv'
    <3>1. \A d \in Callers : pc[d] \in Guarded => ProcOf[d] # ProcOf[c]
      BY <1>1, LockAssumption DEF IInv, ThreadInv
    <3> QED  BY <1>1, <2>1, <3>1, LockAssumption DEF IInv, CallTypeOK, ThreadInv
  <2>7. HeldInv' /\ StagedInv'
    BY <1>1, <2>1, <2>3 DEF IInv, CallTypeOK, HeldInv, StagedInv, Locked, Inside
  <2> QED  BY <2>3, <2>4, <2>5, <2>6, <2>7 DEF IInv
<1>2. CASE Running(c, "locking") /\ Acquire(c) /\ UNCHANGED callVars
  BY <1>2, LockMove DEF Running, Locked, Inside, LockStep
<1>3. CASE /\ lpc[c] = "held" /\ Step(c, "locking", "mkdtemp")
           /\ UNCHANGED <<lockVars, lang, mutex, temp, staged, cache, loaded, registered>>
  <2>1. /\ pc[c] = "locking" /\ pc' = [pc EXCEPT ![c] = "mkdtemp"]
        /\ UNCHANGED <<alive, dir, pidfile, path, lpc, fd, seen>>
    BY <1>3 DEF Step, Running, lockVars
  <2>2. LockTypeOK' /\ (AllLive => OwnerInv)'
    BY <2>1 DEF IInv, LockTypeOK, AllLive, OwnerInv
  <2>3. CallTypeOK'
    BY <1>3, <2>1 DEF IInv, CallTypeOK, CallStates, Guarded, Inside
  <2>4. ThreadInv'  BY <1>3, <2>1 DEF IInv, CallTypeOK, ThreadInv, Guarded
  <2>5. HeldInv' /\ StagedInv'
    BY <1>3, <2>1 DEF IInv, CallTypeOK, HeldInv, StagedInv
  <2> QED  BY <2>2, <2>3, <2>4, <2>5 DEF IInv
<1>4. CASE /\ lpc[c] = "failed" /\ Step(c, "locking", "error")
           /\ mutex' = [mutex EXCEPT ![ProcOf[c]] = None]
           /\ UNCHANGED <<lockVars, lang, temp, staged, cache, loaded, registered>>
  <2>1. "locking" \in Guarded  BY DEF Guarded
  <2> QED  BY <1>4, <2>1, MutexReleased
<1> QED  BY <1>1, <1>2, <1>3, <1>4 DEF AcquireLocks

LEMMA LeaveGuardSafe ==
  ASSUME IInv, NEW c \in Callers, LeaveGuard(c)
  PROVE  IInv'
<1>1. CASE Step(c, "rmtree", "unlock") /\ UNCHANGED <<lockVars, mutex, staged, cache>>
  BY <1>1, QuietStep DEF CallStates, Guarded, Locked, Inside
<1>2. CASE Running(c, "unlock") /\ Release(c) /\ UNCHANGED callVars
  BY <1>2, LockMove DEF Running, Locked, Inside, LockStep
<1>3. CASE Step(c, "unlock", "unmutex") /\ UNCHANGED <<lockVars, mutex, staged, cache>>
  BY <1>3, QuietStep DEF CallStates, Guarded, Locked, Inside
<1>4. CASE /\ Step(c, "unmutex", IF registered[c] = None THEN "error" ELSE "ok")
           /\ mutex' = [mutex EXCEPT ![ProcOf[c]] = None]
           /\ UNCHANGED <<lockVars, staged, cache>>
  <2>1. "unmutex" \in Guarded  BY DEF Guarded
  <2> QED  BY <1>4, <2>1, MutexReleased
<1> QED  BY <1>1, <1>2, <1>3, <1>4 DEF LeaveGuard

LEMMA CheckEnvironmentSafe ==
  ASSUME IInv, NEW c \in Callers, NEW l, CheckEnvironment(c, l)
  PROVE  IInv'
<1>1. UNCHANGED <<lockVars, mutex, staged, cache>>  BY DEF CheckEnvironment
<1>2. CASE Step(c, "idle", "mutex")
  BY <1>1, <1>2, QuietStep DEF CallStates, Guarded, Locked, Inside
<1>3. CASE Step(c, "idle", "error")
  BY <1>1, <1>3, QuietStep DEF CallStates, Guarded, Locked, Inside
<1> QED  BY <1>2, <1>3 DEF CheckEnvironment

LEMMA MakeTempDirSafe ==
  ASSUME IInv, NEW c \in Callers, NEW next \in {"init", "build"},
         NEW onError \in {"unreleased", "unlock"}, MakeTempDir(c, next, onError)
  PROVE  IInv'
<1>1. UNCHANGED <<lockVars, mutex, staged, cache>>  BY DEF MakeTempDir
<1>2. CASE Step(c, "mkdtemp", next)
  BY <1>1, <1>2, QuietStep DEF CallStates, Guarded, Locked, Inside
<1>3. CASE Step(c, "mkdtemp", onError)
  BY <1>1, <1>3, QuietStep DEF CallStates, Guarded, Locked, Inside
<1> QED  BY <1>2, <1>3 DEF MakeTempDir

LEMMA RunCompilerSafe ==
  ASSUME IInv, NEW c \in Callers, NEW attempt \in {"init", "build", "fallback"},
         NEW next \in {"build", "stage", "register"},
         NEW onFailure \in {"fallback", "rmtree"},
         RunCompiler(c, attempt, next, onFailure)
  PROVE  IInv'
<1>1. UNCHANGED <<lockVars, mutex, staged, cache>>  BY DEF RunCompiler
<1>2. \E to \in {"build", "stage", "register", "fallback", "rmtree"} : Step(c, attempt, to)
  BY DEF RunCompiler
<1>3. PICK to \in {"build", "stage", "register", "fallback", "rmtree"} : Step(c, attempt, to)
  BY <1>2
<1> QED  BY <1>1, <1>3, QuietStep DEF CallStates, Guarded, Locked, Inside

(* A published file is the staged copy, and that is complete before        *)
(* os.replace.                                                             *)
LEMMA PublishLibrarySafe ==
  ASSUME IInv, NEW c \in Callers, PublishLibrary(c)
  PROVE  IInv'
<1>1. UNCHANGED <<alive, dir, pidfile, path, lpc, fd, seen, mutex>>
  BY DEF PublishLibrary, lockVars
<1>2. PICK from \in Inside, to \in Inside :
        /\ pc[c] = from /\ pc' = [pc EXCEPT ![c] = to]
  BY DEF PublishLibrary, Step, Running, Inside
<1>3. LockTypeOK' /\ (AllLive => OwnerInv)'
  BY <1>1 DEF IInv, LockTypeOK, AllLive, OwnerInv
<1>4. Inside \subseteq Guarded /\ Inside \subseteq Locked /\ Inside \subseteq CallStates
  BY DEF Guarded, Locked, CallStates
<1>5. /\ cache' \in Callers \cup {None}
      /\ staged' \in [Callers -> Callers \cup {None, Partial}]
      /\ \A d \in Callers \ {c} : staged'[d] = staged[d]
      /\ pc'[c] = "replace" => staged'[c] = c
  BY DEF PublishLibrary, Step, Running, IInv, CallTypeOK, StagedInv
<1>6. CallTypeOK'  BY <1>1, <1>2, <1>4, <1>5 DEF IInv, CallTypeOK
<1>7. ThreadInv' /\ HeldInv'
  BY <1>1, <1>2, <1>4 DEF IInv, CallTypeOK, ThreadInv, HeldInv
<1>8. StagedInv'  BY <1>2, <1>5 DEF IInv, CallTypeOK, StagedInv
<1> QED  BY <1>3, <1>6, <1>7, <1>8 DEF IInv

LEMMA RegistrationSafe ==
  ASSUME IInv, NEW c \in Callers, RegisterDylib(c) \/ RegisterWasm(c)
  PROVE  IInv'
<1>1. Step(c, "register", "rmtree") /\ UNCHANGED <<lockVars, mutex, staged, cache>>
  BY DEF RegisterDylib, RegisterWasm
<1> QED  BY <1>1, QuietStep DEF CallStates, Guarded, Locked, Inside

LEMMA CompileWatWasmSafe ==
  ASSUME IInv, NEW c \in Callers, NEW l, CompileWatWasm(c, l)
  PROVE  IInv'
<1>1. UNCHANGED <<lockVars, mutex, staged, cache>>  BY DEF CompileWatWasm
<1>2. CASE Step(c, "idle", "ok")
  BY <1>1, <1>2, QuietStep DEF CallStates, Guarded, Locked, Inside
<1>3. CASE Step(c, "idle", "error")
  BY <1>1, <1>3, QuietStep DEF CallStates, Guarded, Locked, Inside
<1> QED  BY <1>2, <1>3 DEF CompileWatWasm
-----------------------------------------------------------------------------
(* Every call, and the end of a process *)

LEMMA NativeSafe ==
  ASSUME IInv, NEW c \in Callers, CompileRust(c) \/ CompileC(c) \/ CompileZig(c)
  PROVE  IInv'
<1>1. CASE \E l \in {"rust", "c", "zig"} : CheckEnvironment(c, l)
  BY <1>1, CheckEnvironmentSafe
<1>2. CASE AcquireLocks(c, "compile.lock")
  BY <1>2, AcquireLocksSafe, CompileAssumption
<1>3. CASE \E next \in {"init", "build"} : MakeTempDir(c, next, "unreleased")
  BY <1>3, MakeTempDirSafe
<1>4. CASE RunCompiler(c, "init", "build", "rmtree") \/ RunCompiler(c, "build", "stage", "rmtree")
  BY <1>4, RunCompilerSafe
<1>5. CASE PublishLibrary(c)  BY <1>5, PublishLibrarySafe
<1>6. CASE RegisterDylib(c)  BY <1>6, RegistrationSafe
<1>7. CASE LeaveGuard(c)  BY <1>7, LeaveGuardSafe
<1> QED
  BY <1>1, <1>2, <1>3, <1>4, <1>5, <1>6, <1>7 DEF CompileRust, CompileC, CompileZig

LEMMA WasmSafe ==
  ASSUME IInv, NEW c \in Callers, CompileWasm(c)
  PROVE  IInv'
<1>1. CASE \E l \in {"wat", "c_wasm", "rust_wasm", "zig_wasm"} :
             CheckEnvironment(c, l) \/ CompileWatWasm(c, l)
  BY <1>1, CheckEnvironmentSafe, CompileWatWasmSafe
<1>2. CASE AcquireLocks(c, "wasm-compile.lock")
  BY <1>2, AcquireLocksSafe, CompileAssumption
<1>3. CASE \E next \in {"init", "build"} : MakeTempDir(c, next, "unlock")
  BY <1>3, MakeTempDirSafe
<1>4. CASE \/ RunCompiler(c, "init", "build", "rmtree")
           \/ RunCompiler(c, "build", "register", "fallback")
           \/ RunCompiler(c, "build", "register", "rmtree")
           \/ RunCompiler(c, "fallback", "register", "rmtree")
  BY <1>4, RunCompilerSafe
<1>5. CASE RegisterWasm(c)  BY <1>5, RegistrationSafe
<1>6. CASE LeaveGuard(c)  BY <1>6, LeaveGuardSafe
<1>7. CASE Step(c, "idle", "error") /\ UNCHANGED <<lockVars, mutex, staged, cache>>
  BY <1>7, QuietStep DEF CallStates, Guarded, Locked, Inside
<1> QED
  BY <1>1, <1>2, <1>3, <1>4, <1>5, <1>6, <1>7
  DEF CompileWasm, CompileCWasm, CompileRustWasm, CompileZigWasm, WasmCompilationGuard

LEMMA ProcessEndsSafe ==
  ASSUME IInv, NEW p \in Procs, ProcessEnds(p)
  PROVE  IInv'
<1>1. ~AllLive'
  BY DEF ProcessEnds, LockProcessEnds, AllLive, IInv, LockTypeOK
<1>2. LockTypeOK'
  BY LockAssumption DEF ProcessEnds, LockProcessEnds, IInv, LockTypeOK, LockStates
<1>3. CallTypeOK'
  BY LockAssumption DEF ProcessEnds, IInv, CallTypeOK, CallStates
<1>4. "killed" \notin Guarded /\ "killed" \notin Locked /\ "killed" # "replace"
  BY DEF Guarded, Locked, Inside
<1>5. ThreadInv'
  BY <1>4, LockAssumption DEF ProcessEnds, IInv, CallTypeOK, ThreadInv
<1>6. HeldInv'
  BY <1>4, LockAssumption DEF ProcessEnds, LockProcessEnds, IInv, HeldInv
<1>7. StagedInv'
  BY <1>4 DEF ProcessEnds, IInv, StagedInv
<1> QED  BY <1>1, <1>2, <1>3, <1>5, <1>6, <1>7 DEF IInv

LEMMA InitSafe == Init => IInv
<1> SUFFICES ASSUME Init PROVE IInv  OBVIOUS
<1>1. LockTypeOK
  <2>1. PICK left \in [Locks -> [ino : {None}, pid : Gone \cup {None}] \cup {None}] :
          pidfile = [l \in Locks |-> IF dir[l] THEN left[l] ELSE None]
    BY DEF Init, LockInit
  <2>2. [ino : {None}, pid : Gone \cup {None}] \subseteq Files
    BY LockAssumption DEF Files
  <2>3. pidfile \in [Locks -> Files \cup {None}]  BY <2>1, <2>2
  <2>4. path \in [Callers -> Locks]  BY LockAssumption DEF Init, LockInit
  <2>5. dir \in [Locks -> BOOLEAN]  BY DEF Init, LockInit
  <2> QED  BY <2>3, <2>4, <2>5 DEF Init, LockInit, LockTypeOK, LockStates
<1>2. CallTypeOK  BY DEF Init, CallTypeOK, CallStates
<1>3. ThreadInv /\ HeldInv /\ StagedInv
  BY DEF Init, ThreadInv, HeldInv, StagedInv, Guarded, Locked, Inside
<1>4. OwnerInv  BY DEF Init, LockInit, OwnerInv, Owning
<1> QED  BY <1>1, <1>2, <1>3, <1>4 DEF IInv

LEMMA NextSafe == IInv /\ [Next]_vars => IInv'
<1> SUFFICES ASSUME IInv, [Next]_vars PROVE IInv'  OBVIOUS
<1>1. CASE \E c \in Callers : Call(c)  BY <1>1, NativeSafe, WasmSafe DEF Call
<1>2. CASE \E p \in Procs : ProcessEnds(p)  BY <1>2, ProcessEndsSafe
<1>3. CASE UNCHANGED vars
  <2>1. UNCHANGED <<alive, dir, pidfile, path, lpc, fd, seen, pc, mutex, staged, cache>>
    BY <1>3 DEF vars, lockVars, callVars
  <2> QED
    BY <2>1 DEF IInv, LockTypeOK, CallTypeOK, ThreadInv, HeldInv, AllLive, OwnerInv, StagedInv
<1> QED  BY <1>1, <1>2, <1>3 DEF Next
-----------------------------------------------------------------------------
(* _acquire_compilation_locks serialises compilation: between the threads  *)
(* of a process always, and between processes for each lock directory as   *)
(* long as no process has ended, for any number of calls and processes.    *)
THEOREM CompilationIsSerialized == Spec => []SerializedWhileAllLive
<1>1. IInv => SerializedWhileAllLive
  <2> SUFFICES ASSUME IInv, NEW c \in Callers, NEW d \in Callers, c # d,
                      Compiling(c), Compiling(d)
               PROVE  ProcOf[c] # ProcOf[d] /\ (AllLive => path[c] # path[d])
    BY DEF SerializedWhileAllLive, AllLive
  <2>1. /\ pc[c] \in Guarded /\ pc[d] \in Guarded
        /\ pc[c] \in Locked /\ pc[d] \in Locked
    BY DEF Compiling, Guarded, Locked, Inside
  <2>2. ProcOf[c] # ProcOf[d]  BY <2>1 DEF IInv, ThreadInv
  <2>3. lpc[c] \in Owning /\ lpc[d] \in Owning  BY <2>1 DEF IInv, HeldInv, Owning
  <2> QED  BY <2>2, <2>3 DEF IInv, OwnerInv
<1> QED  BY <1>1, InitSafe, NextSafe, PTL DEF Spec

(* _publish_library never leaves a partly written file under the name of a *)
(* library: not when processes are killed, not when copies fail, and not   *)
(* when two processes publish at once because the lock let both in.        *)
THEOREM CacheHoldsWholeLibraries == Spec => []PublishedWhole
<1>1. IInv => PublishedWhole  BY DEF IInv, StagedInv, PublishedWhole
<1> QED  BY <1>1, InitSafe, NextSafe, PTL DEF Spec
=============================================================================
