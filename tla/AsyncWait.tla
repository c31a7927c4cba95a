----------------------------- MODULE AsyncWait -----------------------------
(***************************************************************************)
(* Awaiting a task from asyncio on Unix: TaskHandle.result_async           *)
(* (python/pyroxide/types.py), the waker (python/pyroxide/_async_waker.py) *)
(* and the notification the engine writes (src/async_waker.rs).            *)
(*                                                                         *)
(* A finished task puts one byte in a non-blocking pipe.  A reader thread  *)
(* takes the bytes, takes a snapshot of the table of pending futures and   *)
(* posts a callback for each future to the loop that owns it; the callback *)
(* looks the task up again and completes the future.  Every loop is a      *)
(* thread: it runs one callback or one stretch of a coroutine at a time,   *)
(* and other threads run between any two of its steps.                     *)
(*                                                                         *)
(* Every lock region of _pending_futures_lock and _waker_init_lock, and    *)
(* every call into the engine, is one step.  Two exceptions, which add no  *)
(* behaviour when split: the posts that follow a snapshot of the table are *)
(* one step with it, because a posted callback may run at any later time;  *)
(* and a callback is one step, because only its own loop completes or      *)
(* abandons the futures it is meant for.                                   *)
(***************************************************************************)
EXTENDS Naturals

CONSTANTS
  Tasks, Loops,
  Coros,       \* result_async calls
  TaskOf,      \* TaskOf[c]: the task it awaits
  LoopOf,      \* LoopOf[c]: the loop it runs on
  Children,    \* the calls a task group creates when it exits
  Timed,       \* the calls with a timeout_sec
  Keeps,       \* the calls with consume=False
  EndsOf,      \* EndsOf[t]: how task t may end if it runs
  Shared,      \* tasks whose handle another thread may cancel or close
  PipeSize,    \* bytes the pipe holds
  ReadSize,    \* bytes one os.read takes
  Free         \* no coroutine, no future

ASSUME AsyncAssumption ==
  /\ TaskOf \in [Coros -> Tasks]
  /\ LoopOf \in [Coros -> Loops]
  /\ Children \subseteq Coros
  /\ EndsOf \in [Tasks -> SUBSET {"Completed", "Failed"}]
  /\ PipeSize \in Nat \ {0} /\ ReadSize \in Nat \ {0}
  /\ Free \notin Coros

VARIABLES
  status,    \* status[t]: the engine's record; "Open" while it is pending or
             \* running, "Freed" once it is removed
  autofree,  \* tasks whose record the worker frees when it is done
  owed,      \* finished tasks whose byte is not written yet
  pc,        \* pc[c]: where the result_async call is
  res,       \* res[c]: how it ends
  fut,       \* fut[c]: its future
  by,        \* by[c]: the loop whose thread completed the future
  pending,   \* _pending_futures
  waiters,   \* _async_waiters
  cur,       \* cur[l]: the coroutine loop l is running
  calls,     \* calls[l][t]: posted _resolve_future_safe(t) not yet run
  gen,       \* number of wakers created
  waker,     \* the waker in _waker_r/_waker_w/_waker_thread, 0 for None
  engineFd,  \* the waker whose pipe the engine writes to, 0 for none
  bytes,     \* bytes[g]: unread bytes of pipe g
  thread,    \* thread[g]: state of reader thread g
  reads,     \* reads[g]: the pipe it reads
  cleanup,   \* where _cleanup_waker is
  torn,      \* the waker it tears down
  closed     \* pipes whose ends it has closed

taskVars == <<status, autofree, owed>>
coroVars == <<pc, res, fut, by, pending, waiters, cur, calls>>
wakerVars == <<gen, waker, engineFd, bytes, thread, reads,
               cleanup, torn, closed>>
vars == <<status, autofree, owed, pc, res, fut, by, pending, waiters, cur, calls,
          gen, waker, engineFd, bytes, thread, reads, cleanup, torn, closed>>

Gens == 1 .. 2   \* shutdown tears one waker down; a later await makes another
Terminal == {"Completed", "Failed", "Cancelled"}

Init ==
  /\ status = [t \in Tasks |-> "Open"] /\ autofree = {} /\ owed = {}
  /\ pc = [c \in Coros |-> IF c \in Children THEN "unborn" ELSE "new"]
  /\ res = [c \in Coros |-> "none"] /\ fut = [c \in Coros |-> "none"]
  /\ by = [c \in Coros |-> Free] /\ pending = [t \in Tasks |-> Free]
  /\ waiters = {} /\ cur = [l \in Loops |-> Free]
  /\ calls = [l \in Loops |-> [t \in Tasks |-> 0]]
  /\ gen = 0 /\ waker = 0 /\ engineFd = 0 /\ bytes = [g \in Gens |-> 0]
  /\ thread = [g \in Gens |-> "none"] /\ reads = [g \in Gens |-> 0]
  /\ cleanup = "off" /\ torn = 0 /\ closed = {}
-----------------------------------------------------------------------------
(* The engine *)

Finish(t) ==
  /\ status[t] = "Open"
  /\ \E s \in EndsOf[t] : status' = [status EXCEPT ![t] = s]
  /\ owed' = owed \cup {t}
  /\ UNCHANGED <<autofree, coroVars, wakerVars>>

(* cancel_task, for every task of S: those still queued or isolated are     *)
(* cancelled, a running in-process task goes on.                            *)
CancelTasks(S) ==
  \E C \in SUBSET {t \in S : status[t] = "Open"} :
    /\ status' = [t \in Tasks |-> IF t \in C THEN "Cancelled" ELSE status[t]]
    /\ owed' = owed \cup C

(* notify_waker: one byte, dropped when the pipe is full; and the autofree  *)
(* check the worker makes next.                                             *)
NotifyWaker(t) ==
  /\ t \in owed /\ owed' = owed \ {t}
  /\ bytes' = IF engineFd # 0 /\ bytes[engineFd] < PipeSize
              THEN [bytes EXCEPT ![engineFd] = @ + 1] ELSE bytes
  /\ status' = IF t \in autofree THEN [status EXCEPT ![t] = "Freed"] ELSE status
  /\ UNCHANGED <<autofree, coroVars, gen, waker, engineFd, thread, reads,
                 cleanup, torn, closed>>

(* TaskHandle.close from another thread: free a finished task, ask the      *)
(* worker to free any other.                                                *)
Close(t) ==
  /\ t \in Shared /\ status[t] # "Freed" /\ t \notin autofree
  /\ \/ status[t] \in Terminal /\ status' = [status EXCEPT ![t] = "Freed"] /\ UNCHANGED autofree
     \/ status[t] \notin Terminal /\ autofree' = autofree \cup {t} /\ UNCHANGED status
  /\ UNCHANGED <<owed, coroVars, wakerVars>>
-----------------------------------------------------------------------------
(* TaskHandle.result_async *)

Runs(c, s) == cur[LoopOf[c]] = c /\ pc[c] = s
MoveTo(c, s) == pc' = [pc EXCEPT ![c] = s]
EndsAs(c, r) == res' = [res EXCEPT ![c] = r]

(* Under the lock: refuse a second waiter for the task, or become its one.  *)
Begin(c) ==
  /\ cur[LoopOf[c]] = Free /\ pc[c] = "new"
  /\ \/ /\ TaskOf[c] \in waiters
        /\ MoveTo(c, "done") /\ EndsAs(c, "busy") /\ UNCHANGED <<waiters, cur>>
     \/ /\ TaskOf[c] \notin waiters
        /\ waiters' = waiters \cup {TaskOf[c]} /\ MoveTo(c, "ensure")
        /\ cur' = [cur EXCEPT ![LoopOf[c]] = c] /\ UNCHANGED res
  /\ UNCHANGED <<taskVars, fut, by, pending, calls, wakerVars>>

WakerLives == IF waker = 0 THEN FALSE ELSE thread[waker] # "exited"

(* ensure_waker_registered, under _waker_init_lock: keep a live waker, or   *)
(* make a pipe, hand its write end to the engine and start a reader.  An    *)
(* error closes both ends and is raised; the engine may have its copy.      *)
EnsureWaker(c) ==
  /\ Runs(c, "ensure")
  /\ \/ /\ WakerLives
        /\ MoveTo(c, "create") /\ UNCHANGED <<res, gen, waker, engineFd, thread, reads>>
     \/ /\ ~WakerLives
        /\ gen + 1 \in Gens /\ gen' = gen + 1 /\ waker' = gen' /\ engineFd' = gen'
        /\ thread' = [thread EXCEPT ![gen'] = "read"] /\ reads' = [reads EXCEPT ![gen'] = gen']
        /\ MoveTo(c, "create") /\ UNCHANGED res
     \/ /\ ~WakerLives
        /\ waker' = 0 /\ MoveTo(c, "finally") /\ EndsAs(c, "error")
        /\ UNCHANGED <<gen, engineFd, thread, reads>>
  /\ UNCHANGED <<taskVars, fut, by, pending, waiters, cur, calls, bytes, cleanup,
                 torn, closed>>

CreateFuture(c) ==
  /\ Runs(c, "create")
  /\ fut' = [fut EXCEPT ![c] = "pending"]
  /\ pending' = [pending EXCEPT ![TaskOf[c]] = c]
  /\ MoveTo(c, "check")
  /\ UNCHANGED <<taskVars, res, by, waiters, cur, calls, wakerVars>>

(* Mutant: straight to the await.                                           *)
CheckSkipped(c) ==
  /\ Runs(c, "check") /\ MoveTo(c, "await")
  /\ cur' = [cur EXCEPT ![LoopOf[c]] = Free] /\ UNCHANGED res
  /\ UNCHANGED <<taskVars, fut, by, pending, waiters, calls, wakerVars>>

(* The status once more, now that the future can be found; then the await.  *)
CheckStatus(c) ==
  /\ Runs(c, "check")
  /\ CASE status[TaskOf[c]] = "Freed" -> MoveTo(c, "finally") /\ EndsAs(c, "gone")
                                         /\ UNCHANGED cur
       [] status[TaskOf[c]] \in Terminal -> MoveTo(c, "wait") /\ UNCHANGED <<res, cur>>
       [] OTHER -> /\ MoveTo(c, "await") /\ UNCHANGED res
                   /\ cur' = [cur EXCEPT ![LoopOf[c]] = Free]
  /\ UNCHANGED <<taskVars, fut, by, pending, waiters, calls, wakerVars>>

(* The loop resumes the coroutine once its future is done.                  *)
Resume(c) ==
  /\ cur[LoopOf[c]] = Free /\ pc[c] = "await" /\ fut[c] \in {"set", "exception"}
  /\ cur' = [cur EXCEPT ![LoopOf[c]] = c]
  /\ IF fut[c] = "set" THEN MoveTo(c, "wait") /\ UNCHANGED res
                       ELSE MoveTo(c, "finally") /\ EndsAs(c, "gone")
  /\ UNCHANGED <<taskVars, fut, by, pending, waiters, calls, wakerVars>>

(* asyncio.wait_for gives up: the future is cancelled if it is not done.    *)
TimeOut(c) ==
  /\ cur[LoopOf[c]] = Free /\ pc[c] = "await" /\ c \in Timed
  /\ cur' = [cur EXCEPT ![LoopOf[c]] = c]
  /\ fut' = [fut EXCEPT ![c] = IF @ = "pending" THEN "cancelled" ELSE @]
  /\ MoveTo(c, "finally") /\ EndsAs(c, "timeout")
  /\ UNCHANGED <<taskVars, by, pending, waiters, calls, wakerVars>>

(* TaskHandle.wait(timeout_sec=0): raises for a cancelled or an unfinished  *)
(* task, and when the record is gone.                                       *)
WaitNow(c) ==
  /\ Runs(c, "wait")
  /\ CASE status[TaskOf[c]] \in {"Completed", "Failed"} -> MoveTo(c, "fetch") /\ UNCHANGED res
       [] status[TaskOf[c]] = "Cancelled" -> MoveTo(c, "finally") /\ EndsAs(c, "cancelled")
       [] status[TaskOf[c]] = "Freed" -> MoveTo(c, "finally") /\ EndsAs(c, "gone")
       [] OTHER -> MoveTo(c, "finally") /\ EndsAs(c, "timeout")
  /\ UNCHANGED <<taskVars, fut, by, pending, waiters, cur, calls, wakerVars>>

(* TaskHandle.result: get_result, and free_task if the call consumes.       *)
Fetch(c) ==
  /\ Runs(c, "fetch") /\ MoveTo(c, "finally")
  /\ EndsAs(c, CASE status[TaskOf[c]] = "Completed" -> "value"
                 [] status[TaskOf[c]] = "Failed" -> "failed"
                 [] OTHER -> "gone")
  /\ status' = IF status[TaskOf[c]] = "Completed" /\ c \notin Keeps
               THEN [status EXCEPT ![TaskOf[c]] = "Freed"] ELSE status
  /\ UNCHANGED <<autofree, owed, fut, by, pending, waiters, cur, calls, wakerVars>>

(* Mutant: the table entry is left to the callback.                         *)
FinallyKeepsFuture(c) ==
  /\ Runs(c, "finally")
  /\ waiters' = waiters \ {TaskOf[c]}
  /\ fut' = [fut EXCEPT ![c] = "none"] /\ by' = [by EXCEPT ![c] = Free]
  /\ MoveTo(c, "done") /\ cur' = [cur EXCEPT ![LoopOf[c]] = Free]
  /\ UNCHANGED <<taskVars, res, pending, calls, wakerVars>>

(* The `finally`, under the lock: forget the future if it is this call's.   *)
Finally(c) ==
  /\ Runs(c, "finally")
  /\ pending' = [pending EXCEPT ![TaskOf[c]] = IF @ = c THEN Free ELSE @]
  /\ waiters' = waiters \ {TaskOf[c]}
  /\ fut' = [fut EXCEPT ![c] = "none"] /\ by' = [by EXCEPT ![c] = Free]
  /\ MoveTo(c, "done") /\ cur' = [cur EXCEPT ![LoopOf[c]] = Free]
  /\ UNCHANGED <<taskVars, res, calls, wakerVars>>

ResultAsync(c) ==
  \/ Begin(c) \/ EnsureWaker(c) \/ CreateFuture(c) \/ CheckStatus(c) \/ Resume(c)
  \/ TimeOut(c) \/ WaitNow(c) \/ Fetch(c) \/ Finally(c)
-----------------------------------------------------------------------------
(* _resolve_future_safe(t), run as a callback by loop l: find the task's    *)
(* future and complete it if the task has finished or its record is gone.   *)
ResolveFutureSafe(l, t) ==
  /\ cur[l] = Free /\ calls[l][t] > 0
  /\ calls' = [calls EXCEPT ![l][t] = @ - 1]
  /\ LET f == pending[t]
         found == f # Free /\ status[t] \in Terminal \cup {"Freed"}
     IN  IF found /\ fut[f] = "pending"
         THEN /\ pending' = [pending EXCEPT ![t] = Free]
              /\ fut' = [fut EXCEPT ![f] = IF status[t] = "Freed" THEN "exception" ELSE "set"]
              /\ by' = [by EXCEPT ![f] = l]
         ELSE UNCHANGED <<pending, fut, by>>
  /\ UNCHANGED <<taskVars, pc, res, waiters, cur, wakerVars>>

(* Snapshot _pending_futures and call_soon_threadsafe(_resolve_future_safe, *)
(* task) for each future in it, on the loop that owns it.                   *)
PostPending ==
  calls' = [l \in Loops |-> [t \in Tasks |->
    IF pending[t] # Free /\ LoopOf[pending[t]] = l THEN calls[l][t] + 1 ELSE calls[l][t]]]
-----------------------------------------------------------------------------
(* _waker_thread_loop *)

ThreadMoves(g, from, to) == thread[g] = from /\ thread' = [thread EXCEPT ![g] = to]

(* Mutant: post, then read: the byte of a task that finishes in between is  *)
(* taken and nothing is posted for it.                                      *)
WakerThreadDrains(g) ==
  /\ \/ /\ ThreadMoves(g, "read", "post") /\ bytes[reads[g]] > 0
        /\ PostPending /\ UNCHANGED <<reads, bytes>>
     \/ /\ reads[g] \in closed /\ ThreadMoves(g, "read", "exited")
        /\ UNCHANGED <<reads, bytes, calls>>
     \/ /\ ThreadMoves(g, "post", IF waker = 0 THEN "exited" ELSE "read")
        /\ bytes' = [bytes EXCEPT ![reads[g]] = 0]
        /\ reads' = [reads EXCEPT ![g] = waker] /\ UNCHANGED calls
  /\ UNCHANGED <<taskVars, pc, res, fut, by, pending, waiters, cur, gen, waker,
                 engineFd, cleanup, torn, closed>>

(* Read up to 4096 bytes; post; look at _waker_r again.  A read ends with   *)
(* no data when every write end is closed, and raises when the read end is: *)
(* then the thread exits unless there is another waker by now.              *)
WakerThread(g) ==
  /\ \/ /\ ThreadMoves(g, "read", "post") /\ bytes[reads[g]] > 0
        /\ bytes' = [bytes EXCEPT ![reads[g]] = IF @ > ReadSize THEN @ - ReadSize ELSE 0]
        /\ UNCHANGED <<reads, calls>>
     \/ /\ reads[g] \in closed
        /\ ThreadMoves(g, "read", IF waker = 0 THEN "exited" ELSE "read") \/ ThreadMoves(g, "read", "exited")
        /\ reads' = [reads EXCEPT ![g] = IF thread'[g] = "exited" THEN 0 ELSE waker]
        /\ UNCHANGED <<bytes, calls>>
     \/ /\ ThreadMoves(g, "post", IF waker = 0 THEN "exited" ELSE "read")
        /\ PostPending /\ reads' = [reads EXCEPT ![g] = waker] /\ UNCHANGED bytes
  /\ UNCHANGED <<taskVars, pc, res, fut, by, pending, waiters, cur, gen, waker,
                 engineFd, cleanup, torn, closed>>
-----------------------------------------------------------------------------
(* shutdown(wait=True): once the engine has drained, _cleanup_waker posts   *)
(* for every pending future, clears the globals, unregisters the engine's   *)
(* copy and closes both ends.  The join is bounded by 0.1 s, so the reader  *)
(* may outlive it.                                                          *)
CleanupWaker ==
  /\ \/ /\ cleanup = "off" /\ \A t \in Tasks : status[t] \in Terminal \cup {"Freed"}
        /\ PostPending
        /\ cleanup' = "take" /\ UNCHANGED <<waker, engineFd, bytes, torn, closed>>
     \/ /\ cleanup = "take" /\ torn' = waker /\ waker' = 0
        /\ cleanup' = IF torn' = 0 THEN "done" ELSE "close"
        /\ UNCHANGED <<calls, engineFd, bytes, closed>>
     \/ /\ cleanup = "close" /\ closed' = closed \cup {torn} /\ torn' = 0
        /\ bytes' = [bytes EXCEPT ![torn] = 0]
        /\ engineFd' = IF engineFd = torn THEN 0 ELSE engineFd
        /\ cleanup' = "done" /\ UNCHANGED <<calls, waker>>
  /\ UNCHANGED <<taskVars, pc, res, fut, by, pending, waiters, cur, gen, thread, reads>>

CancelTask(t) ==
  /\ t \in Shared /\ CancelTasks({t})
  /\ UNCHANGED <<autofree, coroVars, wakerVars>>

Engine(t) == Finish(t) \/ NotifyWaker(t)

AsyncStep ==
  \/ \E t \in Tasks : Engine(t) \/ CancelTask(t) \/ Close(t)
  \/ \E c \in Coros : ResultAsync(c)
  \/ \E l \in Loops, t \in Tasks : ResolveFutureSafe(l, t)
  \/ \E g \in Gens : WakerThread(g)

AsyncNext == AsyncStep \/ CleanupWaker

(* What a loop is sure to run when it has nothing else to do: a child it    *)
(* has scheduled, a call that has begun, a callback.  Nobody is obliged to  *)
(* make a call.  A call is only sure to be resumed if its future was        *)
(* completed on its own loop: set_result from another thread does not wake  *)
(* the loop's selector.                                                     *)
LoopStep(l) ==
  \/ \E c \in Coros :
       /\ LoopOf[c] = l
       /\ \/ c \in Children /\ Begin(c)
          \/ EnsureWaker(c) \/ CreateFuture(c) \/ CheckStatus(c)
          \/ by[c] = l /\ Resume(c)
          \/ WaitNow(c) \/ Fetch(c) \/ Finally(c)
  \/ \E t \in Tasks : ResolveFutureSafe(l, t)

(* The engine runs every accepted task and writes its byte; the reader      *)
(* threads make progress; a loop that has something to run runs something.  *)
AsyncFairness ==
  /\ \A t \in Tasks : WF_vars(Engine(t))
  /\ \A l \in Loops : WF_vars(LoopStep(l))
  /\ \A g \in Gens : WF_vars(WakerThread(g))

AsyncSpec ==
  /\ Init /\ [][AsyncNext]_vars
  /\ AsyncFairness /\ WF_vars(cleanup # "off" /\ CleanupWaker)
-----------------------------------------------------------------------------
(* Properties *)

Active(c) == pc[c] \notin {"unborn", "new", "done"}

(* The two tables tell the truth about the calls: a task is in              *)
(* _async_waiters exactly while one call awaits it, never two; and an entry *)
(* of _pending_futures belongs to that call and to no call that has         *)
(* returned, timed out or failed.                                           *)
TablesExact ==
  \A t \in Tasks :
    LET A == {c \in Coros : TaskOf[c] = t /\ Active(c)}
    IN  /\ t \in waiters <=> A # {}
        /\ \A c, d \in A : c = d
        /\ pending[t] # Free => pending[t] \in A /\ fut[pending[t]] # "none"

(* Every active await returns once the engine has finished its task, with   *)
(* bytes dropped at a full pipe, callbacks that come late or twice, time-   *)
(* outs, handles closed by other threads, and the waker torn down by        *)
(* shutdown and made anew by a later call.  (For calls of one task that run *)
(* on one loop; ResolvedOnOwningLoop is about the others.)                  *)
AwaitsReturn == \A c \in Coros : Active(c) ~> pc[c] = "done"

(* "schedules completion on each owning event loop with                     *)
(* `call_soon_threadsafe`" (docs/src/concurrency_async.md): the future of a *)
(* suspended call is only completed by the thread of its own loop.  A call  *)
(* whose future another thread completes is not woken, and its entry has    *)
(* left the table, so no later byte wakes it either.                        *)
ResolvedOnOwningLoop == \A c \in Coros : pc[c] = "await" => by[c] \in {Free, LoopOf[c]}
=============================================================================
