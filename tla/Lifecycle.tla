------------------------------ MODULE Lifecycle ------------------------------
(***************************************************************************)
(* The life of a task record (src/task.rs) in the broker's slab: workers   *)
(* claim, execute and finish it (src/worker.rs); user threads cancel it,   *)
(* wait for it, read its result and close its handle (src/broker.rs,       *)
(* python/pyroxide/types.py); shutdown may cancel what has not started.    *)
(* Every atomic operation or mutex region on a shared field is a step of   *)
(* its own.  Two neighbouring operations form one step only when no other  *)
(* thread can tell: a read of the shutdown flag (it is only ever set) with *)
(* the compare-exchange that follows it, a statistics counter with the     *)
(* store next to it, `completed = true` with its notify_all.               *)
(*                                                                         *)
(* The queues are the set of ids sent and not received; Engine gives them  *)
(* their order, capacity and STOP messages.                                *)
(***************************************************************************)
EXTENDS Integers, FiniteSets

CONSTANTS
  Tasks,       \* task records
  Isolated,    \* the tasks submitted with isolated=True
  Workers,     \* in-process worker threads
  IsoWorkers,  \* isolated coordinator threads
  Cancels,     \* cancel() calls
  Waits,       \* result() calls
  TimedWaits,  \* those given timeout_sec
  NoTask

ASSUME LifecycleAssumption ==
  /\ IsFiniteSet(Tasks) /\ NoTask \notin Tasks
  /\ Isolated \subseteq Tasks /\ TimedWaits \subseteq Waits
  /\ Workers \cap IsoWorkers = {}

VARIABLES
  status, cancelled, result, completed, autofree,  \* the fields of Task
  slab, task_count,                                \* Broker::tasks, its size
  queue,                                           \* ids in the two channels
  hpc,                                             \* submission and TaskHandle
  cancelPending,                                   \* cancel_pending_on_shutdown
  running_count, completed_count, failed_count, cancelled_count,
  wpc, wtask, wout,                                \* worker threads
  late,    \* history: the flag was already set when this worker claimed
  kpc, ktask, kran,                                \* cancel calls
  qpc, qtask                                       \* result calls

record   == <<status, cancelled, result, completed, autofree>>
notStatus == <<cancelled, result, completed, autofree>>
store    == <<slab, task_count>>
counters == <<running_count, completed_count, failed_count, cancelled_count>>
worker   == <<wpc, wtask, wout, late>>
cancel   == <<kpc, ktask, kran>>
wait     == <<qpc, qtask>>
outside  == <<queue, hpc, cancelPending, cancel>>  \* left alone by workers
local    == <<wtask, wout, late>>
engine   == <<queue, cancelPending, worker>>       \* left alone by user calls
vars     == <<record, store, queue, hpc, cancelPending, counters, worker,
              cancel, wait>>

AllWorkers == Workers \cup IsoWorkers
Terminal   == {"Completed", "Failed", "Cancelled"}
HandlePC   == {"new", "inserted", "sent", "open", "storing", "loading",
               "freeing", "closed"}
WorkerPC   == {"idle", "received", "released", "shutdown", "check", "claim",
               "recheck", "exec", "store", "status", "count", "record",
               "signal", "autofree"}
CancelPC   == {"idle", "record", "result", "signal", "true", "false"}
WaitPC     == {"idle", "check", "asleep", "status", "get", "consume",
               "ok", "err", "cancelled", "timeout", "notfound", "running"}

Init ==
  /\ status = [t \in Tasks |-> "Pending"]
  /\ cancelled = [t \in Tasks |-> FALSE]
  /\ result = [t \in Tasks |-> "none"]
  /\ completed = [t \in Tasks |-> FALSE]
  /\ autofree = [t \in Tasks |-> FALSE]
  /\ slab = {} /\ task_count = 0 /\ queue = {}
  /\ hpc = [t \in Tasks |-> "new"]
  /\ cancelPending = FALSE
  /\ running_count = 0 /\ completed_count = 0
  /\ failed_count = 0 /\ cancelled_count = 0
  /\ wpc = [w \in AllWorkers |-> "idle"]
  /\ wtask = [w \in AllWorkers |-> NoTask]
  /\ wout = [w \in AllWorkers |-> "none"]
  /\ late = [w \in AllWorkers |-> FALSE]
  /\ kpc = [k \in Cancels |-> "idle"]
  /\ ktask = [k \in Cancels |-> NoTask]
  /\ kran = [k \in Cancels |-> FALSE]
  /\ qpc = [q \in Waits |-> "idle"]
  /\ qtask = [q \in Waits |-> NoTask]
-----------------------------------------------------------------------------
(* Mutant: every free counts.                                               *)
FreeTaskCounting(t) == slab' = slab \ {t} /\ task_count' = task_count - 1

(* free_task: only the call that really removes the record counts it.       *)
FreeTask(t) ==
  /\ slab' = slab \ {t}
  /\ task_count' = IF t \in slab THEN task_count - 1 ELSE task_count

(* Mutant: completion without notify_all.                                   *)
SetCompletedSilently(t) ==
  completed' = [completed EXCEPT ![t] = TRUE] /\ UNCHANGED qpc

(* completed = true under completed_mutex, then completed_cvar.notify_all.  *)
SetCompleted(t) ==
  /\ completed' = [completed EXCEPT ![t] = TRUE]
  /\ qpc' = [q \in Waits |-> IF qpc[q] = "asleep" /\ qtask[q] = t
                             THEN "check" ELSE qpc[q]]
-----------------------------------------------------------------------------
(* Submission, as far as the record is concerned.                           *)

Insert(S) ==
  /\ \A t \in S : hpc[t] = "new"
  /\ hpc' = [t \in Tasks |-> IF t \in S THEN "inserted" ELSE hpc[t]]
  /\ slab' = slab \cup S
  /\ task_count' = task_count + Cardinality(S)
  /\ UNCHANGED <<record, engine, counters, cancel, wait>>

Enqueue(t) ==
  /\ hpc[t] = "inserted"
  /\ hpc' = [hpc EXCEPT ![t] = "sent"]
  /\ queue' = queue \cup {t}
  /\ UNCHANGED <<record, store, counters, cancel, wait, cancelPending, worker>>

ReturnHandles(S) ==
  /\ \A t \in S : hpc[t] = "sent"
  /\ hpc' = [t \in Tasks |-> IF t \in S THEN "open" ELSE hpc[t]]
  /\ UNCHANGED <<record, store, engine, counters, cancel, wait>>

(* shutdown(cancel_pending=True) *)
SetCancelPending ==
  /\ cancelPending' = TRUE
  /\ UNCHANGED <<record, store, counters, cancel, wait, queue, hpc, worker>>
-----------------------------------------------------------------------------
(* Workers: worker_loop and isolated_worker_loop.                           *)

Goto(w, pc) == wpc' = [wpc EXCEPT ![w] = pc]

Serves(w, t) == (t \in Isolated) <=> (w \in IsoWorkers)

Receive(w, t) ==
  /\ wpc[w] = "idle" /\ t \in queue /\ Serves(w, t)
  /\ queue' = queue \ {t}
  /\ wtask' = [wtask EXCEPT ![w] = t]
  /\ wout' = [wout EXCEPT ![w] = "none"]
  /\ late' = [late EXCEPT ![w] = FALSE]
  /\ Goto(w, "received")
  /\ UNCHANGED <<record, store, counters, wait, hpc, cancelPending, cancel>>

(* admission.release(1) *)
ReleaseUnit(w) ==
  /\ wpc[w] = "received"
  /\ Goto(w, "released")
  /\ UNCHANGED <<record, store, outside, counters, local, wait>>

(* tasks.get: the record may already have been freed by its handle.          *)
Lookup(w) ==
  /\ wpc[w] = "released"
  /\ Goto(w, IF wtask[w] \in slab THEN "shutdown" ELSE "idle")
  /\ UNCHANGED <<record, store, outside, counters, local, wait>>

(* claim_pending_for_execution: the first look at the shutdown flag.         *)
ShutdownCheck(w) ==
  LET t == wtask[w]
      hit == cancelPending /\ status[t] = "Pending" IN
  /\ wpc[w] = "shutdown"
  /\ status' = IF hit THEN [status EXCEPT ![t] = "Cancelled"] ELSE status
  /\ Goto(w, IF hit THEN "record" ELSE "check")
  /\ UNCHANGED <<store, outside, counters, local, wait, notStatus>>

CancelledCheck(w) ==
  /\ wpc[w] = "check"
  /\ Goto(w, IF cancelled[wtask[w]] THEN "autofree" ELSE "claim")
  /\ UNCHANGED <<record, store, outside, counters, local, wait>>

(* Mutant: a plain store instead of a compare-exchange.                      *)
ClaimBlindly(w) ==
  LET t == wtask[w] IN
  /\ wpc[w] = "claim"
  /\ status' = [status EXCEPT ![t] = "Running"]
  /\ late' = [late EXCEPT ![w] = cancelPending]
  /\ Goto(w, "recheck")
  /\ UNCHANGED <<store, outside, counters, wait, notStatus, wtask, wout>>

(* transition_pending_to_running: compare_exchange(Pending, Running).        *)
Claim(w) ==
  LET t == wtask[w]
      won == status[t] = "Pending" IN
  /\ wpc[w] = "claim"
  /\ status' = IF won THEN [status EXCEPT ![t] = "Running"] ELSE status
  /\ late' = [late EXCEPT ![w] = cancelPending]
  /\ Goto(w, IF won THEN "recheck" ELSE "autofree")
  /\ UNCHANGED <<store, outside, counters, wait, notStatus, wtask, wout>>

(* Mutant: no second look at the flag after the claim.                       *)
StartUnchecked(w) ==
  /\ wpc[w] = "recheck"
  /\ running_count' = running_count + 1
  /\ Goto(w, "exec")
  /\ UNCHANGED <<record, store, outside, local, wait, completed_count,
                 failed_count, cancelled_count>>

(* The second look at the flag, after the claim; Started counts as running.  *)
ShutdownRecheck(w) ==
  LET t == wtask[w]
      hit == cancelPending /\ status[t] = "Running" IN
  /\ wpc[w] = "recheck"
  /\ status' = IF hit THEN [status EXCEPT ![t] = "Cancelled"] ELSE status
  /\ running_count' = IF hit THEN running_count ELSE running_count + 1
  /\ Goto(w, IF hit THEN "record" ELSE "exec")
  /\ UNCHANGED <<store, outside, local, wait, notStatus, completed_count,
                 failed_count, cancelled_count>>

(* record_shutdown_cancellation up to the result; Signal and AutoFree follow. *)
RecordShutdown(w) ==
  LET t == wtask[w] IN
  /\ wpc[w] = "record"
  /\ cancelled' = [cancelled EXCEPT ![t] = TRUE]
  /\ cancelled_count' = cancelled_count + 1
  /\ result' = [result EXCEPT ![t] = "cancelled"]
  /\ Goto(w, "signal")
  /\ UNCHANGED <<store, outside, local, wait, status, completed, autofree,
                 running_count, completed_count, failed_count>>

(* The task runs to an Ok or an Err.  In an isolated task the Err may be the  *)
(* coordinator killing the child because it saw `cancelled`.                  *)
Execute(w, out) ==
  /\ wpc[w] = "exec"
  /\ wout' = [wout EXCEPT ![w] = out]
  /\ Goto(w, "store")
  /\ UNCHANGED <<record, store, outside, counters, wait, wtask, late>>
-----------------------------------------------------------------------------
(* Finishing: result, status, counters, completion, autofree, in that order.  *)

StoreResult(w) ==
  LET t == wtask[w] IN
  /\ wpc[w] = "store"
  /\ result' = IF status[t] = "Cancelled" THEN result
               ELSE [result EXCEPT ![t] = wout[w]]
  /\ Goto(w, "status")
  /\ UNCHANGED <<store, outside, counters, local, wait, status, cancelled,
                 completed, autofree>>

FinalStatus(out) == IF out = "ok" THEN "Completed" ELSE "Failed"

(* Mutant: the final status overwrites a cancellation.                        *)
SetStatusAlways(w) ==
  LET t == wtask[w] IN
  /\ wpc[w] = "status"
  /\ status' = [status EXCEPT ![t] = FinalStatus(wout[w])]
  /\ Goto(w, "count")
  /\ UNCHANGED <<store, outside, counters, local, wait, notStatus>>

(* The compare-exchange loop that preserves Cancelled.                        *)
SetStatus(w) ==
  LET t == wtask[w] IN
  /\ wpc[w] = "status"
  /\ status' = IF status[t] = "Cancelled" THEN status
               ELSE [status EXCEPT ![t] = FinalStatus(wout[w])]
  /\ Goto(w, "count")
  /\ UNCHANGED <<store, outside, counters, local, wait, notStatus>>

(* Mutant: failures are not counted.                                          *)
CountCompletedOnly(w) ==
  LET s == status[wtask[w]] IN
  /\ wpc[w] = "count"
  /\ completed_count' = completed_count + (IF s = "Completed" THEN 1 ELSE 0)
  /\ running_count' = running_count - 1
  /\ Goto(w, "signal")
  /\ UNCHANGED <<record, store, outside, local, wait, failed_count,
                 cancelled_count>>

(* record_task_completion, if the exchange was won, and running_count -= 1.   *)
CountCompletion(w) ==
  LET s == status[wtask[w]] IN
  /\ wpc[w] = "count"
  /\ completed_count' = completed_count + (IF s = "Completed" THEN 1 ELSE 0)
  /\ failed_count' = failed_count + (IF s = "Failed" THEN 1 ELSE 0)
  /\ running_count' = running_count - 1
  /\ Goto(w, "signal")
  /\ UNCHANGED <<record, store, outside, local, wait, cancelled_count>>

(* Mutant: the worker never completes the task.                               *)
SignalNever(w) ==
  /\ wpc[w] = "signal"
  /\ Goto(w, "autofree")
  /\ UNCHANGED <<record, store, outside, counters, local, wait>>

Signal(w) ==
  /\ wpc[w] = "signal"
  /\ SetCompleted(wtask[w])
  /\ Goto(w, "autofree")
  /\ UNCHANGED <<store, outside, counters, local, status, cancelled, result,
                 autofree, qtask>>

(* Mutant: the worker never looks at autofree.                                *)
AutoFreeNever(w) ==
  /\ wpc[w] = "autofree"
  /\ Goto(w, "idle")
  /\ UNCHANGED <<record, store, outside, counters, local, wait>>

AutoFree(w) ==
  /\ wpc[w] = "autofree"
  /\ IF autofree[wtask[w]] THEN FreeTask(wtask[w]) ELSE UNCHANGED store
  /\ Goto(w, "idle")
  /\ UNCHANGED <<record, outside, counters, local, wait>>
-----------------------------------------------------------------------------
(* cancel_task                                                                *)

(* Mutant: running in-process work is cancellable too.                        *)
CancellableAny(t) == status[t] \in {"Pending", "Running"}

Cancellable(t) ==
  \/ status[t] = "Pending"
  \/ status[t] = "Running" /\ t \in Isolated

(* Lookup and compare-exchange; `kran` remembers that the task was running.   *)
CancelClaim(k, t) ==
  LET hit == t \in slab /\ Cancellable(t) IN
  /\ kpc[k] = "idle" /\ hpc[t] \notin {"new", "inserted", "sent"}
  /\ ktask' = [ktask EXCEPT ![k] = t]
  /\ kran' = [kran EXCEPT ![k] = hit /\ status[t] = "Running"]
  /\ status' = IF hit THEN [status EXCEPT ![t] = "Cancelled"] ELSE status
  /\ kpc' = [kpc EXCEPT ![k] = IF hit THEN "record" ELSE "false"]
  /\ UNCHANGED <<store, engine, counters, wait, notStatus, hpc>>

(* Mutant: cancel leaves the flag the coordinator polls unset.                *)
CancelRecordUnflagged(k) ==
  /\ kpc[k] = "record"
  /\ cancelled_count' = cancelled_count + 1
  /\ kpc' = [kpc EXCEPT ![k] = "result"]
  /\ UNCHANGED <<record, store, engine, wait, hpc, running_count,
                 completed_count, failed_count, ktask, kran>>

CancelRecord(k) ==
  /\ kpc[k] = "record"
  /\ cancelled_count' = cancelled_count + 1
  /\ cancelled' = [cancelled EXCEPT ![ktask[k]] = TRUE]
  /\ kpc' = [kpc EXCEPT ![k] = "result"]
  /\ UNCHANGED <<store, engine, wait, status, result, completed, autofree, hpc,
                 running_count, completed_count, failed_count, ktask, kran>>

(* A running isolated task is completed by its coordinator, not here.         *)
CancelResult(k) ==
  /\ kpc[k] = "result"
  /\ result' = [result EXCEPT ![ktask[k]] = "cancelled"]
  /\ kpc' = [kpc EXCEPT ![k] = IF kran[k] THEN "true" ELSE "signal"]
  /\ UNCHANGED <<store, engine, counters, wait, status, cancelled, completed,
                 autofree, hpc, ktask, kran>>

(* Mutant: cancel returns without completing the pending task.                *)
CancelSignalNever(k) ==
  /\ kpc[k] = "signal"
  /\ kpc' = [kpc EXCEPT ![k] = "true"]
  /\ UNCHANGED <<record, store, engine, counters, wait, hpc, ktask, kran>>

CancelSignal(k) ==
  /\ kpc[k] = "signal"
  /\ SetCompleted(ktask[k])
  /\ kpc' = [kpc EXCEPT ![k] = "true"]
  /\ UNCHANGED <<store, engine, counters, status, cancelled, result, autofree,
                 hpc, ktask, kran, qtask>>
-----------------------------------------------------------------------------
(* TaskHandle.result: wait_task, then get_task_result, then free_task.        *)

WaitStart(q, t) ==
  /\ qpc[q] = "idle" /\ hpc[t] \notin {"new", "inserted", "sent"}
  /\ qtask' = [qtask EXCEPT ![q] = t]
  /\ qpc' = [qpc EXCEPT ![q] = IF t \in slab THEN "check" ELSE "notfound"]
  /\ UNCHANGED <<record, store, engine, counters, cancel, hpc>>

(* Under completed_mutex.                                                     *)
WaitCheck(q) ==
  /\ qpc[q] = "check"
  /\ qpc' = [qpc EXCEPT ![q] =
               IF completed[qtask[q]] THEN "status" ELSE "asleep"]
  /\ UNCHANGED <<record, store, engine, counters, cancel, hpc, qtask>>

(* The deadline of a timed wait, before or after it falls asleep.             *)
WaitTimeout(q) ==
  /\ q \in TimedWaits /\ qpc[q] \in {"check", "asleep"}
  /\ qpc' = [qpc EXCEPT ![q] = "status"]
  /\ UNCHANGED <<record, store, engine, counters, cancel, hpc, qtask>>

(* TaskHandle.wait's reading of the status; an untimed wait would pass a      *)
(* non-terminal status on ("running").                                        *)
WaitStatus(q) ==
  LET s == status[qtask[q]] IN
  /\ qpc[q] = "status"
  /\ qpc' = [qpc EXCEPT ![q] =
               IF s = "Cancelled" THEN "cancelled"
               ELSE IF s \in Terminal THEN "get"
               ELSE IF q \in TimedWaits THEN "timeout" ELSE "running"]
  /\ UNCHANGED <<record, store, engine, counters, cancel, hpc, qtask>>

(* get_result raises for an Err or a missing record; an Ok may be consumed.   *)
WaitGet(q, consume) ==
  LET t == qtask[q]
      r == IF t \in slab THEN result[t] ELSE "none" IN
  /\ qpc[q] = "get"
  /\ qpc' = [qpc EXCEPT ![q] =
               IF r = "none" THEN "notfound"
               ELSE IF r # "ok" THEN "err"
               ELSE IF consume THEN "consume" ELSE "ok"]
  /\ UNCHANGED <<record, store, engine, counters, cancel, hpc, qtask>>

(* free_task and _consumed = True                                             *)
WaitConsume(q) ==
  LET t == qtask[q] IN
  /\ qpc[q] = "consume"
  /\ FreeTask(t)
  /\ hpc' = [hpc EXCEPT ![t] = IF @ = "open" THEN "closed" ELSE @]
  /\ qpc' = [qpc EXCEPT ![q] = "ok"]
  /\ UNCHANGED <<record, engine, counters, cancel, qtask>>
-----------------------------------------------------------------------------
(* TaskHandle.close and set_autofree                                          *)

(* Reads the status; a record that is gone raises, and close swallows it.     *)
CloseStart(t) ==
  /\ hpc[t] = "open"
  /\ hpc' = [hpc EXCEPT ![t] = IF t \notin slab THEN "closed"
                               ELSE IF status[t] \in Terminal THEN "freeing"
                               ELSE "storing"]
  /\ UNCHANGED <<record, store, engine, counters, cancel, wait>>

SetAutofree(t) ==
  /\ hpc[t] = "storing"
  /\ autofree' = IF t \in slab THEN [autofree EXCEPT ![t] = TRUE] ELSE autofree
  /\ hpc' = [hpc EXCEPT ![t] = IF t \in slab THEN "loading" ELSE "closed"]
  /\ UNCHANGED <<store, engine, counters, cancel, wait, status, cancelled,
                 result, completed>>

(* Mutant: set_autofree frees whatever the status is.                         *)
AutofreeRecheckAlways(t) ==
  /\ hpc[t] = "loading"
  /\ hpc' = [hpc EXCEPT ![t] = "freeing"]
  /\ UNCHANGED <<record, store, engine, counters, cancel, wait>>

AutofreeRecheck(t) ==
  /\ hpc[t] = "loading"
  /\ hpc' = [hpc EXCEPT ![t] =
               IF status[t] \in Terminal THEN "freeing" ELSE "closed"]
  /\ UNCHANGED <<record, store, engine, counters, cancel, wait>>

CloseFree(t) ==
  /\ hpc[t] = "freeing"
  /\ FreeTask(t)
  /\ hpc' = [hpc EXCEPT ![t] = "closed"]
  /\ UNCHANGED <<record, engine, counters, cancel, wait>>
-----------------------------------------------------------------------------
ClaimStep(w) ==
  \/ Lookup(w) \/ ShutdownCheck(w) \/ CancelledCheck(w)
  \/ Claim(w) \/ ShutdownRecheck(w)

FinishStep(w) ==
  \/ RecordShutdown(w) \/ StoreResult(w) \/ SetStatus(w)
  \/ CountCompletion(w) \/ Signal(w) \/ AutoFree(w)

RunTask(w) == \E out \in {"ok", "err"} : Execute(w, out)

CancelStep(k) == CancelRecord(k) \/ CancelResult(k) \/ CancelSignal(k)

WaitStep(q) ==
  \/ WaitCheck(q) \/ WaitStatus(q) \/ WaitConsume(q)
  \/ \E consume \in BOOLEAN : WaitGet(q, consume)

CloseStep(t) == SetAutofree(t) \/ AutofreeRecheck(t) \/ CloseFree(t)

Next ==
  \/ \E S \in (SUBSET Tasks) \ {{}} : Insert(S) \/ ReturnHandles(S)
  \/ \E t \in Tasks : Enqueue(t) \/ CloseStart(t) \/ CloseStep(t)
  \/ SetCancelPending
  \/ \E w \in AllWorkers : \/ \E t \in Tasks : Receive(w, t)
                           \/ ReleaseUnit(w) \/ ClaimStep(w)
                           \/ RunTask(w) \/ FinishStep(w)
  \/ \E k \in Cancels : CancelStep(k) \/ \E t \in Tasks : CancelClaim(k, t)
  \/ \E q \in Waits : \/ WaitStep(q) \/ WaitTimeout(q)
                      \/ \E t \in Tasks : WaitStart(q, t)

Safety == Init /\ [][Next]_vars

(* Threads that are inside the engine keep going; callers may stop calling.   *)
EngineFairness ==
  /\ \A t \in Tasks : WF_vars(CloseStep(t))
  /\ \A w \in AllWorkers :
       WF_vars(\/ \E t \in Tasks : Receive(w, t)
               \/ ReleaseUnit(w) \/ ClaimStep(w) \/ FinishStep(w))
  /\ \A k \in Cancels : WF_vars(CancelStep(k))
  /\ \A q \in Waits : WF_vars(WaitStep(q))

(* A coordinator that sees `cancelled` kills the child and returns, however   *)
(* long the child would have run.                                             *)
KillFairness ==
  \A w \in IsoWorkers : WF_vars(RunTask(w) /\ cancelled[wtask[w]])

(* User code returns.  The engine cannot count on it: a property that needs   *)
(* it says so.                                                                *)
TaskFairness == \A w \in AllWorkers : WF_vars(RunTask(w))

Spec == Safety /\ EngineFairness /\ KillFairness
-----------------------------------------------------------------------------
Busy(w, t) == wpc[w] # "idle" /\ wtask[w] = t
Running(w, t) == wpc[w] \in {"exec", "store", "status", "count"} /\ wtask[w] = t
Idle(t) == t \notin queue /\ \A w \in AllWorkers : ~Busy(w, t)
With(s) == {t \in Tasks : status[t] = s}

(* Values of the variables.                                                   *)
TypeOK ==
  /\ status \in [Tasks -> {"Pending", "Running"} \cup Terminal]
  /\ cancelled \in [Tasks -> BOOLEAN]
  /\ result \in [Tasks -> {"none", "ok", "err", "cancelled"}]
  /\ completed \in [Tasks -> BOOLEAN]
  /\ autofree \in [Tasks -> BOOLEAN]
  /\ slab \subseteq Tasks /\ queue \subseteq Tasks /\ task_count \in Int
  /\ hpc \in [Tasks -> HandlePC]
  /\ cancelPending \in BOOLEAN
  /\ running_count \in Int /\ completed_count \in Int
  /\ failed_count \in Int /\ cancelled_count \in Int
  /\ wpc \in [AllWorkers -> WorkerPC]
  /\ wtask \in [AllWorkers -> Tasks \cup {NoTask}]
  /\ wout \in [AllWorkers -> {"none", "ok", "err"}]
  /\ late \in [AllWorkers -> BOOLEAN]
  /\ kpc \in [Cancels -> CancelPC]
  /\ ktask \in [Cancels -> Tasks \cup {NoTask}]
  /\ kran \in [Cancels -> BOOLEAN]
  /\ qpc \in [Waits -> WaitPC]
  /\ qtask \in [Waits -> Tasks \cup {NoTask}]

(* "This ensures when a reader sees Completed/Failed, the result is already   *)
(* available" (src/worker.rs): status and result agree in every state, also   *)
(* while cancel_task races with the end of an isolated task.                  *)
ResultBeforeStatus ==
  \A t \in Tasks : /\ status[t] = "Completed" => result[t] = "ok"
                   /\ status[t] = "Failed" => result[t] = "err"

(* cancel() returned or will return True on a task that had not started: no   *)
(* worker ever runs it, even one that had already received it.                *)
PendingCancelSkips ==
  \A k \in Cancels, w \in AllWorkers :
    kpc[k] \in {"record", "result", "signal", "true"} /\ ~kran[k]
      => ~Running(w, ktask[k])

(* shutdown(cancel_pending=True) that precedes a claim prevents the task from *)
(* running; the one exception is an isolated task the user cancelled between  *)
(* claim and recheck, which its coordinator still has to take down.           *)
ShutdownPrecedesClaim ==
  \A w \in AllWorkers :
    wpc[w] \in {"exec", "store", "status", "count"} /\ late[w]
      => wtask[w] \in Isolated /\ status[wtask[w]] = "Cancelled"

(* A record leaves the slab only when its task has an outcome: no interplay   *)
(* of close, autofree, result(consume=True) and workers drops live work.      *)
FreedOnlyTerminal ==
  \A t \in Tasks : hpc[t] # "new" /\ t \notin slab => status[t] \in Terminal

(* No leak: once the handle is closed and neither a queue nor a worker refers *)
(* to the task, its record has left the slab, whichever of close and the      *)
(* finishing worker came first.  This is for memory operations in program    *)
(* order; AutofreeOrder gives that up.                                       *)
NoLeak == \A t \in Tasks : hpc[t] = "closed" /\ Idle(t) => t \notin slab

(* The statistics are exact when the engine is quiet: each outcome is counted *)
(* once, nothing is left running, and task_count is the size of the slab      *)
(* although several threads may try to free the same record.                  *)
StatsExactWhenQuiet ==
  /\ task_count = Cardinality(slab)
  /\ (/\ \A w \in AllWorkers : wpc[w] = "idle"
      /\ \A k \in Cancels : kpc[k] \in {"idle", "true", "false"})
     => /\ running_count = 0
        /\ completed_count = Cardinality(With("Completed"))
        /\ failed_count = Cardinality(With("Failed"))
        /\ cancelled_count = Cardinality(With("Cancelled"))

(* "Signal completion only after all observable task counters are final"      *)
(* (src/worker.rs): a waiter that is woken finds the outcome counted.  Only   *)
(* the cancellation of an isolated task may be counted later, by a cancel()   *)
(* call that the end of the task has overtaken.                               *)
CountedWhenCompleted ==
  LET Done(s) == {t \in With(s) : completed[t]} IN
  /\ Cardinality(Done("Completed")) <= completed_count
  /\ Cardinality(Done("Failed")) <= failed_count
  /\ Cardinality(Done("Cancelled") \ Isolated) <= cancelled_count

(* The lifecycle implements TaskContract.  A claimed task counts as pending   *)
(* until its worker has looked at the shutdown flag again.                    *)
Claimed(t) == \E w \in AllWorkers : wpc[w] = "recheck" /\ wtask[w] = t
AnswerOf(pc) ==
  CASE pc \in {"idle", "check", "asleep", "status", "get"} -> "none"
    [] pc \in {"timeout", "notfound"} -> "nothing"
    [] pc \in {"ok", "consume"} -> "ok"
    [] OTHER -> pc

States  == [t \in Tasks |-> IF status[t] = "Running" /\ Claimed(t)
                            THEN "Pending" ELSE status[t]]
Answers == [q \in Waits |-> AnswerOf(qpc[q])]

Contract == INSTANCE TaskContract
  WITH state <- States, done <- completed, asked <- qtask, answer <- Answers

(* One outcome per task, never a cancellation of running in-process work,     *)
(* published once and after it is final, and every result() call told that    *)
(* outcome.                                                                   *)
ImplementsContract == Contract!Spec

(* Every submitted task is completed if user code returns.                    *)
SubmittedCompletes ==
  TaskFairness => \A t \in Tasks : (hpc[t] = "open") ~> completed[t]

(* Every result() call without timeout returns if user code does: completion  *)
(* wakes it wherever it came from (worker, cancel, shutdown).                 *)
WaitReturns ==
  TaskFairness =>
    \A q \in Waits \ TimedWaits :
      (qpc[q] # "idle")
        ~> (qpc[q] \notin {"check", "asleep", "status", "get", "consume"})

(* A cancelled task is completed even if its code would run for ever.         *)
CancelCompletes ==
  \A k \in Cancels :
    (kpc[k] = "true") ~> (\E t \in Tasks : ktask[k] = t /\ completed[t])
=============================================================================
