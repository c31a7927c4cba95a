------------------------- MODULE CrossProcessLock -------------------------
(***************************************************************************)
(* The directory lock that serialises compilation across processes         *)
(* (python/pyroxide/_native_compile.py, class CrossProcessLock).  Taking   *)
(* the lock is a mkdir; the owner then writes its pid to <lock>/owner.pid. *)
(* A waiter that reads the pid of a process that no longer runs removes    *)
(* the file and the directory and tries again.  Every system call is a     *)
(* step of its own, because any process can run between two of them, and   *)
(* any of them may fail with an OSError.                                   *)
(*                                                                         *)
(* A caller is one call of a compile function by a thread of some process; *)
(* it uses one lock object.  A process may end at any moment, by a crash   *)
(* or an ordinary exit; what it wrote to the disk stays.                   *)
(***************************************************************************)

CONSTANTS
  Callers,   \* calls of the compile functions
  Procs,     \* processes, named by their pids
  ProcOf,    \* ProcOf[c]: the process that makes call c
  Locks,     \* lock directories
  Gone,      \* processes that ended before the first call
  None       \* no file, no pid, no caller

ASSUME LockAssumption ==
  /\ ProcOf \in [Callers -> Procs]
  /\ Gone \subseteq Procs
  /\ None \notin Procs \cup Callers
  /\ Locks # {}

VARIABLES
  alive,     \* alive[p]: os.kill(p, 0) succeeds
  dir,       \* dir[l]: the lock directory exists
  pidfile,   \* pidfile[l]: its owner.pid, None or [ino, pid]
  path,      \* path[c]: the directory c's lock object is for
  lpc,       \* lpc[c]: how far c's lock object is
  fd,        \* fd[c]: the file c opened for writing, named by its creator
  seen       \* seen[c]: the pid c read from owner.pid

lockVars == <<alive, dir, pidfile, path, lpc, fd, seen>>

LockStates == {"idle", "mkdir", "open", "write", "read", "probe", "remove",
               "rmdir", "wait", "held", "unlocking", "failed"}
Files == [ino : Callers \cup {None}, pid : Procs \cup {None}]

LockTypeOK ==
  /\ alive \in [Procs -> BOOLEAN]
  /\ dir \in [Locks -> BOOLEAN]
  /\ pidfile \in [Locks -> Files \cup {None}]
  /\ path \in [Callers -> Locks]
  /\ lpc \in [Callers -> LockStates]
  /\ fd \in [Callers -> Callers \cup {None}]
  /\ seen \in [Callers -> Procs \cup {None}]

(* What a process that is gone may have left: nothing, a directory without *)
(* owner.pid, one with an empty owner.pid, or one that names it.           *)
LockInit ==
  /\ alive = [p \in Procs |-> p \notin Gone]
  /\ dir \in [Locks -> IF Gone = {} THEN {FALSE} ELSE BOOLEAN]
  /\ \E left \in [Locks -> [ino : {None}, pid : Gone \cup {None}] \cup {None}] :
       pidfile = [l \in Locks |-> IF dir[l] THEN left[l] ELSE None]
  /\ path = [c \in Callers |-> CHOOSE l \in Locks : TRUE]
  /\ lpc = [c \in Callers |-> "idle"]
  /\ fd = [c \in Callers |-> None]
  /\ seen = [c \in Callers |-> None]
-----------------------------------------------------------------------------
(* acquire *)

At(c, s) == alive[ProcOf[c]] /\ lpc[c] = s
Goto(c, s) == lpc' = [lpc EXCEPT ![c] = s]

NewLock(c, l) ==
  /\ At(c, "idle")
  /\ path' = [path EXCEPT ![c] = l]
  /\ Goto(c, "mkdir")
  /\ UNCHANGED <<alive, dir, pidfile, fd, seen>>

(* Mutant: a test for the directory followed by its creation, which never   *)
(* reports that another caller got there first.                             *)
MkdirUnchecked(c) ==
  /\ At(c, "mkdir")
  /\ dir' = [dir EXCEPT ![path[c]] = TRUE]
  /\ Goto(c, "open")
  /\ UNCHANGED <<alive, pidfile, path, fd, seen>>

(* os.mkdir: succeeds for one caller, FileExistsError for the others.  Any   *)
(* other OSError leaves acquire.                                            *)
Mkdir(c) ==
  /\ At(c, "mkdir")
  /\ \/ /\ dir' = [dir EXCEPT ![path[c]] = TRUE]
        /\ Goto(c, IF dir[path[c]] THEN "read" ELSE "open")
     \/ Goto(c, "failed") /\ UNCHANGED dir
  /\ UNCHANGED <<alive, pidfile, path, fd, seen>>

(* open(pid_file, "w") creates the file or truncates the one it finds.  It  *)
(* raises FileNotFoundError when the directory has been removed meanwhile,  *)
(* or another OSError; either leaves acquire.                               *)
OpenPid(c) ==
  /\ At(c, "open")
  /\ \/ /\ dir[path[c]]
        /\ LET ino == IF pidfile[path[c]] = None THEN c ELSE pidfile[path[c]].ino
           IN  /\ pidfile' = [pidfile EXCEPT ![path[c]] = [ino |-> ino, pid |-> None]]
               /\ fd' = [fd EXCEPT ![c] = ino]
        /\ Goto(c, "write")
     \/ Goto(c, "failed") /\ UNCHANGED <<pidfile, fd>>
  /\ UNCHANGED <<alive, dir, path, seen>>

(* f.write(str(my_pid)) and close; lost when the file has been unlinked.  A *)
(* write that fails leaves acquire, and the directory as it is.             *)
WritePid(c) ==
  /\ At(c, "write")
  /\ \/ /\ pidfile' = IF pidfile[path[c]] # None /\ pidfile[path[c]].ino = fd[c]
                      THEN [pidfile EXCEPT ![path[c]].pid = ProcOf[c]] ELSE pidfile
        /\ Goto(c, "held")
     \/ Goto(c, "failed") /\ UNCHANGED pidfile
  /\ fd' = [fd EXCEPT ![c] = None]
  /\ UNCHANGED <<alive, dir, path, seen>>

(* owner_pid: None when the file is missing (OSError) or still empty        *)
(* (ValueError).                                                            *)
ReadPid(c) ==
  /\ At(c, "read")
  /\ seen' = [seen EXCEPT ![c] = IF pidfile[path[c]] = None THEN None
                                 ELSE pidfile[path[c]].pid]
  /\ Goto(c, IF seen'[c] = None THEN "wait" ELSE "probe")
  /\ UNCHANGED <<alive, dir, pidfile, path, fd>>

(* _is_pid_running *)
Probe(c) ==
  /\ At(c, "probe")
  /\ Goto(c, IF alive[seen[c]] THEN "wait" ELSE "remove")
  /\ seen' = [seen EXCEPT ![c] = None]
  /\ UNCHANGED <<alive, dir, pidfile, path, fd>>

(* os.remove(pid_file) and os.rmdir(lock_path): an OSError is ignored, and  *)
(* leaves the file or the directory.  rmdir fails on a directory that holds *)
(* a file.                                                                  *)
Removed(c, from, to) ==
  /\ At(c, from)
  /\ pidfile' = [pidfile EXCEPT ![path[c]] = None]
  /\ Goto(c, to)
  /\ UNCHANGED <<alive, dir, path, fd, seen>>

Unlink(c, from, to) ==
  \/ Removed(c, from, to)
  \/ At(c, from) /\ Goto(c, to) /\ UNCHANGED <<alive, dir, pidfile, path, fd, seen>>

Rmdir(c, from, to) ==
  /\ At(c, from)
  /\ dir' \in {dir, [dir EXCEPT ![path[c]] = pidfile[path[c]] # None]}
  /\ Goto(c, to)
  /\ UNCHANGED <<alive, pidfile, path, fd, seen>>

(* No test of the deadline on this way round the loop.                      *)
BreakStale(c) == Unlink(c, "remove", "rmdir") \/ Rmdir(c, "rmdir", "mkdir")

Expire(c) ==
  /\ At(c, "wait") /\ Goto(c, "failed")
  /\ UNCHANGED <<alive, dir, pidfile, path, fd, seen>>

Sleep(c) ==
  /\ At(c, "wait") /\ Goto(c, "mkdir")
  /\ UNCHANGED <<alive, dir, pidfile, path, fd, seen>>

Acquire(c) ==
  \/ Mkdir(c) \/ OpenPid(c) \/ WritePid(c) \/ ReadPid(c) \/ Probe(c)
  \/ BreakStale(c) \/ Expire(c) \/ Sleep(c)

Release(c) == Unlink(c, "held", "unlocking") \/ Rmdir(c, "unlocking", "idle")

(* A process ends, by a crash at any point or by an ordinary exit: its      *)
(* memory is gone and the directory is as it left it.                       *)
LockProcessEnds(p) ==
  /\ alive[p]
  /\ alive' = [alive EXCEPT ![p] = FALSE]
  /\ lpc' = [c \in Callers |-> IF ProcOf[c] = p THEN "idle" ELSE lpc[c]]
  /\ fd' = [c \in Callers |-> IF ProcOf[c] = p THEN None ELSE fd[c]]
  /\ seen' = [c \in Callers |-> IF ProcOf[c] = p THEN None ELSE seen[c]]
  /\ UNCHANGED <<dir, pidfile, path>>
=============================================================================
