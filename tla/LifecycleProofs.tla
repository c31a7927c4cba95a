-------------------------- MODULE LifecycleProofs --------------------------
(***************************************************************************)
(* Lifecycle for any number of tasks, workers, cancel() and result() calls. *)
(* The inductive invariant IInv says where a task is (in a queue or with   *)
(* exactly one worker, until it has an outcome) and what each thread in    *)
(* the middle of a handler may rely on.  SInv adds the statistics: each    *)
(* counter is the size of a set of tasks, and who may still count.         *)
(***************************************************************************)
EXTENDS Lifecycle, FiniteSetTheorems, TLAPS

Early  == {"received", "released", "shutdown", "check", "claim"}
Mid    == {"recheck", "exec", "store", "status"}
Ending == {"record", "count", "signal", "autofree"}

(* What a worker relies on between receiving a task and letting it go.      *)
WorkerInv(w) ==
  LET t == wtask[w] IN
  wpc[w] # "idle" =>
    /\ t \in Tasks /\ t \notin queue /\ hpc[t] \notin {"new", "inserted"}
    /\ wpc[w] \in Early => status[t] \in {"Pending", "Cancelled"}
    /\ wpc[w] \in Mid =>
         status[t] = "Running" \/ (status[t] = "Cancelled" /\ t \in Isolated)
    /\ wpc[w] \in Ending => status[t] \in Terminal
    /\ wpc[w] = "record" => status[t] = "Cancelled"
    /\ wpc[w] \in {"store", "status"} => wout[w] \in {"ok", "err"}
    /\ wpc[w] = "status" /\ status[t] = "Running" => result[t] = wout[w]
    /\ wpc[w] = "recheck" /\ late[w] => cancelPending
    /\ wpc[w] \in {"exec", "store", "status", "count"} /\ late[w]
         => t \in Isolated /\ status[t] = "Cancelled"

(* No two workers have the same task.                                       *)
Alone ==
  \A v, w \in AllWorkers :
    v # w /\ wpc[v] # "idle" /\ wpc[w] # "idle" => wtask[v] # wtask[w]

(* What the fields of a record say about each other.                        *)
TaskInv(t) ==
  /\ status[t] = "Completed" => result[t] = "ok"
  /\ status[t] = "Failed" => result[t] = "err"
  /\ completed[t] => status[t] \in Terminal
  /\ cancelled[t] => status[t] = "Cancelled"
  /\ t \in queue => hpc[t] \notin {"new", "inserted"}
                    /\ status[t] \in {"Pending", "Cancelled"}
  /\ hpc[t] \in {"new", "inserted"} => status[t] = "Pending"
  /\ hpc[t] # "new" /\ t \notin slab => status[t] \in Terminal
  /\ hpc[t] = "freeing" => status[t] \in Terminal
  /\ hpc[t] = "loading" => autofree[t]
  /\ hpc[t] = "closed" /\ t \in slab => autofree[t]

(* Where a task is: work without an outcome is in a queue or with a worker, *)
(* and so is every record that nobody but a worker can free any more.       *)
InEarly(t) == \E w \in AllWorkers : wpc[w] \in Early /\ wtask[w] = t
InMid(t)   == \E w \in AllWorkers : wpc[w] \in Mid /\ wtask[w] = t
IsBusy(t)  == \E w \in AllWorkers : wpc[w] # "idle" /\ wtask[w] = t

PlaceInv(t) ==
  /\ status[t] = "Running" => InMid(t)
  /\ status[t] = "Pending" =>
       hpc[t] \in {"new", "inserted"} \/ t \in queue \/ InEarly(t)
  /\ hpc[t] = "closed" /\ t \in slab => t \in queue \/ IsBusy(t)

(* A cancel() call that has won the status keeps it, and keeps a task that  *)
(* had not started from starting.                                           *)
CancelInv(k) ==
  kpc[k] \notin {"idle", "false"} =>
    /\ ktask[k] \in Tasks /\ status[ktask[k]] = "Cancelled"
    /\ ~kran[k] => \A w \in AllWorkers :
         ~(wpc[w] \in {"recheck", "exec", "store", "status", "count"}
           /\ wtask[w] = ktask[k])

(* What a result() call has seen is still so.                                *)
WaitInv(q) ==
  LET s == status[qtask[q]] IN
  /\ qpc[q] = "idle" => qtask[q] = NoTask
  /\ qpc[q] # "idle" => qtask[q] \in Tasks
  /\ qpc[q] = "status" /\ q \notin TimedWaits => completed[qtask[q]]
  /\ qpc[q] = "get" => s \in {"Completed", "Failed"}
  /\ qpc[q] \in {"ok", "consume"} => s = "Completed"
  /\ qpc[q] = "err" => s = "Failed"
  /\ qpc[q] = "cancelled" => s = "Cancelled"
  /\ qpc[q] # "running"

IInv ==
  /\ TypeOK
  /\ \A w \in AllWorkers : WorkerInv(w)
  /\ Alone
  /\ \A t \in Tasks : TaskInv(t) /\ PlaceInv(t)
  /\ \A k \in Cancels : CancelInv(k)
  /\ \A q \in Waits : WaitInv(q)
-----------------------------------------------------------------------------
(* A part of the invariant survives a step that changes no variable of it. *)
LEMMA WorkerFrame ==
  ASSUME IInv,
         UNCHANGED <<wpc, wtask, wout, late, status, result, hpc, queue,
                cancelPending>>
  PROVE  \A x \in AllWorkers : WorkerInv(x)'
BY ZenonT(40) DEF IInv, WorkerInv

(* Frame for Alone: no worker receives or lets go of a task.                *)
LEMMA AloneFrame ==
  ASSUME IInv,
         UNCHANGED <<wpc, wtask>>
  PROVE  Alone'
BY Zenon DEF IInv, Alone

(* Frame for TaskInv: no field of a record, queue, slab or handle moves.    *)
LEMMA TaskFrame ==
  ASSUME IInv,
         UNCHANGED <<status, result, completed, cancelled, queue, hpc, slab,
                autofree>>
  PROVE  \A x \in Tasks : TaskInv(x)'
BY Zenon DEF IInv, TaskInv

(* Frame for PlaceInv: no task changes its status or its place.             *)
LEMMA PlaceFrame ==
  ASSUME IInv,
         UNCHANGED <<status, wpc, wtask, queue, hpc, slab>>
  PROVE  \A x \in Tasks : PlaceInv(x)'
BY Zenon DEF IInv, PlaceInv, InEarly, InMid, IsBusy

(* Frame for CancelInv: no cancel() call, status or worker moves.           *)
LEMMA CancelFrame ==
  ASSUME IInv,
         UNCHANGED <<kpc, ktask, kran, status, wpc, wtask>>
  PROVE  \A x \in Cancels : CancelInv(x)'
BY Zenon DEF IInv, CancelInv

(* Frame for WaitInv: no result() call, status or completion changes.       *)
LEMMA WaitFrame ==
  ASSUME IInv,
         UNCHANGED <<qpc, qtask, status, completed>>
  PROVE  \A x \in Waits : WaitInv(x)'
BY Zenon DEF IInv, WaitInv

(* Submission: enqueue_task and enqueue_batch, and shutdown's flag.          *)
LEMMA SubmitPreserves ==
  ASSUME IInv
  PROVE  (\/ \E S \in SUBSET Tasks : Insert(S)
          \/ \E t \in Tasks : Enqueue(t)
          \/ \E S \in SUBSET Tasks : ReturnHandles(S)
          \/ SetCancelPending)
         => IInv'
<1> USE LifecycleAssumption DEF record, notStatus, store, counters, worker,
      cancel, wait, outside, local, engine, Goto
<1>1. ASSUME NEW S \in SUBSET Tasks, Insert(S) PROVE IInv'
  <2>1. TypeOK'
    BY SMT, Z3, <1>1 DEF Insert, IInv, TypeOK, HandlePC, WorkerPC, CancelPC, WaitPC,
           Terminal
  <2>2. ASSUME NEW x \in AllWorkers PROVE WorkerInv(x)'
    BY Zenon, <1>1 DEF Insert, IInv, TypeOK, WorkerInv, Alone, TaskInv, Early, Mid,
           Ending, Terminal
  <2>3. ASSUME NEW x \in Tasks PROVE TaskInv(x)'
    BY Zenon, <1>1 DEF Insert, IInv, TypeOK, TaskInv, Terminal
  <2>4. ASSUME NEW x \in Tasks PROVE PlaceInv(x)'
    BY SMT, Z3, <1>1 DEF Insert, IInv, TypeOK, PlaceInv, InEarly, InMid, IsBusy,
           TaskInv, Terminal
  <2> QED BY Zenon, <1>1, <2>1, <2>2, <2>3, <2>4, AloneFrame, CancelFrame, WaitFrame
         DEF IInv, Insert
<1>2. ASSUME NEW t \in Tasks, Enqueue(t) PROVE IInv'
  <2>1. TypeOK'
    BY ZenonT(40), <1>2 DEF Enqueue, IInv, TypeOK, HandlePC, WorkerPC, CancelPC, WaitPC,
           Terminal
  <2>2. ASSUME NEW x \in AllWorkers PROVE WorkerInv(x)'
    BY SMT, Z3, <1>2 DEF Enqueue, IInv, TypeOK, WorkerInv, Alone, TaskInv, Early, Mid,
           Ending, Terminal
  <2>3. ASSUME NEW x \in Tasks PROVE TaskInv(x)'
    BY Zenon, <1>2 DEF Enqueue, IInv, TypeOK, TaskInv, Terminal
  <2>4. ASSUME NEW x \in Tasks PROVE PlaceInv(x)'
    BY SMT, Z3, <1>2 DEF Enqueue, IInv, TypeOK, PlaceInv, InEarly, InMid, IsBusy,
           TaskInv, Terminal
  <2> QED BY Zenon, <1>2, <2>1, <2>2, <2>3, <2>4, AloneFrame, CancelFrame, WaitFrame
         DEF IInv, Enqueue
<1>3. ASSUME NEW S \in SUBSET Tasks, ReturnHandles(S) PROVE IInv'
  <2>1. TypeOK'
    BY Zenon, <1>3 DEF ReturnHandles, IInv, TypeOK, HandlePC, WorkerPC, CancelPC,
           WaitPC, Terminal
  <2>2. ASSUME NEW x \in AllWorkers PROVE WorkerInv(x)'
    BY Zenon, <1>3 DEF ReturnHandles, IInv, TypeOK, WorkerInv, Alone, TaskInv, Early,
           Mid, Ending, Terminal
  <2>3. ASSUME NEW x \in Tasks PROVE TaskInv(x)'
    BY Zenon, <1>3 DEF ReturnHandles, IInv, TypeOK, TaskInv, Terminal
  <2>4. ASSUME NEW x \in Tasks PROVE PlaceInv(x)'
    BY SMT, Z3, <1>3 DEF ReturnHandles, IInv, TypeOK, PlaceInv, InEarly, InMid, IsBusy,
           TaskInv, Terminal
  <2> QED BY Zenon, <1>3, <2>1, <2>2, <2>3, <2>4, AloneFrame, CancelFrame, WaitFrame
         DEF IInv, ReturnHandles
<1>4. CASE SetCancelPending
  <2>1. TypeOK'
    BY Zenon, <1>4 DEF SetCancelPending, IInv, TypeOK, HandlePC, WorkerPC, CancelPC,
           WaitPC, Terminal
  <2>2. ASSUME NEW x \in AllWorkers PROVE WorkerInv(x)'
    BY Zenon, <1>4 DEF SetCancelPending, IInv, TypeOK, WorkerInv, Alone, TaskInv,
           Early, Mid, Ending, Terminal
  <2> QED BY Zenon, <1>4, <2>1, <2>2, AloneFrame, TaskFrame, PlaceFrame, CancelFrame,
         WaitFrame DEF IInv, SetCancelPending
<1> QED BY Zenon, <1>1, <1>2, <1>3, <1>4

(* A worker up to the moment it starts to run the task.                      *)
LEMMA ClaimPreserves ==
  ASSUME IInv, NEW w \in AllWorkers
  PROVE  (\/ \E t \in Tasks : Receive(w, t)
          \/ ReleaseUnit(w)
          \/ Lookup(w)
          \/ ShutdownCheck(w)
          \/ CancelledCheck(w)
          \/ Claim(w)
          \/ ShutdownRecheck(w))
         => IInv'
<1> USE LifecycleAssumption DEF record, notStatus, store, counters, worker,
      cancel, wait, outside, local, engine, Goto
<1>1. ASSUME NEW t \in Tasks, Receive(w, t) PROVE IInv'
  <2>1. TypeOK'
    BY Zenon, <1>1 DEF Receive, IInv, TypeOK, HandlePC, WorkerPC, CancelPC, WaitPC,
           Terminal
  <2>2. ASSUME NEW x \in AllWorkers PROVE WorkerInv(x)'
    BY SMT, Z3, <1>1 DEF Receive, IInv, TypeOK, WorkerInv, Alone, TaskInv, Early, Mid,
           Ending, Terminal
  <2>3. Alone'
    BY SMT, Z3, <1>1 DEF Receive, IInv, TypeOK, Alone, WorkerInv
  <2>4. ASSUME NEW x \in Tasks PROVE TaskInv(x)'
    BY Zenon, <1>1 DEF Receive, IInv, TypeOK, TaskInv, WorkerInv, Early, Mid, Ending,
           Terminal
  <2>5. ASSUME NEW x \in Tasks PROVE PlaceInv(x)'
    BY SMT, Z3, <1>1 DEF Receive, IInv, TypeOK, PlaceInv, InEarly, InMid, IsBusy,
           WorkerInv, Early, Mid, Ending, TaskInv, Terminal
  <2>6. ASSUME NEW x \in Cancels PROVE CancelInv(x)'
    BY SMT, Z3, <1>1 DEF Receive, IInv, TypeOK, CancelInv, WorkerInv, Early, Mid,
           Ending, Terminal
  <2> QED BY Zenon, <1>1, <2>1, <2>2, <2>3, <2>4, <2>5, <2>6, WaitFrame DEF IInv,
         Receive
<1>2. CASE ReleaseUnit(w)
  <2>1. TypeOK'
    BY Zenon, <1>2 DEF ReleaseUnit, IInv, TypeOK, HandlePC, WorkerPC, CancelPC,
           WaitPC, Terminal
  <2>2. ASSUME NEW x \in AllWorkers PROVE WorkerInv(x)'
    BY SMT, Z3, <1>2 DEF ReleaseUnit, IInv, TypeOK, WorkerInv, Alone, TaskInv, Early,
           Mid, Ending, Terminal
  <2>3. Alone'
    BY SMT, Z3, <1>2 DEF ReleaseUnit, IInv, TypeOK, Alone, WorkerInv
  <2>4. ASSUME NEW x \in Tasks PROVE PlaceInv(x)'
    BY SMT, Z3, <1>2 DEF ReleaseUnit, IInv, TypeOK, PlaceInv, InEarly, InMid, IsBusy,
           WorkerInv, Early, Mid, Ending, TaskInv, Terminal
  <2>5. ASSUME NEW x \in Cancels PROVE CancelInv(x)'
    BY SMT, Z3, <1>2 DEF ReleaseUnit, IInv, TypeOK, CancelInv, WorkerInv, Early, Mid,
           Ending, Terminal
  <2> QED BY Zenon, <1>2, <2>1, <2>2, <2>3, <2>4, <2>5, TaskFrame, WaitFrame DEF
         IInv, ReleaseUnit
<1>3. CASE Lookup(w)
  <2>1. TypeOK'
    BY Zenon, <1>3 DEF Lookup, IInv, TypeOK, HandlePC, WorkerPC, CancelPC, WaitPC,
           Terminal
  <2>2. ASSUME NEW x \in AllWorkers PROVE WorkerInv(x)'
    BY SMT, Z3, <1>3 DEF Lookup, IInv, TypeOK, WorkerInv, Alone, TaskInv, Early, Mid,
           Ending, Terminal
  <2>3. Alone'
    BY SMT, Z3, <1>3 DEF Lookup, IInv, TypeOK, Alone, WorkerInv
  <2>4. ASSUME NEW x \in Tasks PROVE PlaceInv(x)'
    BY SMT, Z3, <1>3 DEF Lookup, IInv, TypeOK, PlaceInv, InEarly, InMid, IsBusy,
           WorkerInv, Early, Mid, Ending, TaskInv, Terminal
  <2>5. ASSUME NEW x \in Cancels PROVE CancelInv(x)'
    BY SMT, Z3, <1>3 DEF Lookup, IInv, TypeOK, CancelInv, WorkerInv, Early, Mid,
           Ending, Terminal
  <2> QED BY Zenon, <1>3, <2>1, <2>2, <2>3, <2>4, <2>5, TaskFrame, WaitFrame DEF
         IInv, Lookup
<1>4. CASE ShutdownCheck(w)
  <2>1. TypeOK'
    BY <1>4, Zenon DEF ShutdownCheck, IInv, TypeOK, HandlePC, WorkerPC, CancelPC,
           WaitPC, Terminal
  <2>2. ASSUME NEW x \in AllWorkers PROVE WorkerInv(x)'
    BY SMT, Z3, <1>4 DEF ShutdownCheck, IInv, TypeOK, WorkerInv, Alone, TaskInv, Early,
           Mid, Ending, Terminal
  <2>3. Alone'
    BY SMT, Z3, <1>4 DEF ShutdownCheck, IInv, TypeOK, Alone, WorkerInv
  <2>4. ASSUME NEW x \in Tasks PROVE TaskInv(x)'
    BY SMT, Z3, <1>4 DEF ShutdownCheck, IInv, TypeOK, TaskInv, WorkerInv, Early, Mid,
           Ending, Terminal
  <2>5. ASSUME NEW x \in Tasks PROVE PlaceInv(x)'
    BY SMT, Z3, <1>4 DEF ShutdownCheck, IInv, TypeOK, PlaceInv, InEarly, InMid, IsBusy,
           WorkerInv, Early, Mid, Ending, TaskInv, Terminal
  <2>6. ASSUME NEW x \in Cancels PROVE CancelInv(x)'
    BY SMT, Z3, <1>4 DEF ShutdownCheck, IInv, TypeOK, CancelInv, WorkerInv, Early, Mid,
           Ending, Terminal
  <2>7. ASSUME NEW x \in Waits PROVE WaitInv(x)'
    BY Zenon, <1>4 DEF ShutdownCheck, IInv, TypeOK, WaitInv, Terminal
  <2> QED BY Zenon, <2>1, <2>2, <2>3, <2>4, <2>5, <2>6, <2>7 DEF IInv
<1>5. CASE CancelledCheck(w)
  <2>1. TypeOK'
    BY Zenon, <1>5 DEF CancelledCheck, IInv, TypeOK, HandlePC, WorkerPC, CancelPC,
           WaitPC, Terminal
  <2>2. ASSUME NEW x \in AllWorkers PROVE WorkerInv(x)'
    BY SMT, Z3, <1>5 DEF CancelledCheck, IInv, TypeOK, WorkerInv, Alone, TaskInv,
           Early, Mid, Ending, Terminal
  <2>3. Alone'
    BY SMT, Z3, <1>5 DEF CancelledCheck, IInv, TypeOK, Alone, WorkerInv
  <2>4. ASSUME NEW x \in Tasks PROVE PlaceInv(x)'
    BY SMT, Z3, <1>5 DEF CancelledCheck, IInv, TypeOK, PlaceInv, InEarly, InMid,
           IsBusy, WorkerInv, Early, Mid, Ending, TaskInv, Terminal
  <2>5. ASSUME NEW x \in Cancels PROVE CancelInv(x)'
    BY SMT, Z3, <1>5 DEF CancelledCheck, IInv, TypeOK, CancelInv, WorkerInv, Early,
           Mid, Ending, Terminal
  <2> QED BY <1>5, <2>1, <2>2, <2>3, <2>4, <2>5, TaskFrame, WaitFrame, Zenon DEF
         IInv, CancelledCheck
<1>6. CASE Claim(w)
  <2>1. TypeOK'
    BY <1>6, ZenonT(40) DEF Claim, IInv, TypeOK, HandlePC, WorkerPC, CancelPC, WaitPC,
           Terminal
  <2>2. ASSUME NEW x \in AllWorkers PROVE WorkerInv(x)'
    BY SMT, Z3, <1>6 DEF Claim, IInv, TypeOK, WorkerInv, Alone, TaskInv, Early, Mid,
           Ending, Terminal
  <2>3. Alone'
    BY SMT, Z3, <1>6 DEF Claim, IInv, TypeOK, Alone, WorkerInv
  <2>4. ASSUME NEW x \in Tasks PROVE TaskInv(x)'
    BY SMT, Z3, <1>6 DEF Claim, IInv, TypeOK, TaskInv, WorkerInv, Early, Mid, Ending,
           Terminal
  <2>5. ASSUME NEW x \in Tasks PROVE PlaceInv(x)'
    BY SMT, Z3, <1>6 DEF Claim, IInv, TypeOK, PlaceInv, InEarly, InMid, IsBusy,
           WorkerInv, Early, Mid, Ending, TaskInv, Terminal
  <2>6. ASSUME NEW x \in Cancels PROVE CancelInv(x)'
    BY SMT, Z3, <1>6 DEF Claim, IInv, TypeOK, CancelInv, WorkerInv, Early, Mid, Ending,
           Terminal
  <2>7. ASSUME NEW x \in Waits PROVE WaitInv(x)'
    BY Zenon, <1>6 DEF Claim, IInv, TypeOK, WaitInv, Terminal
  <2> QED BY Zenon, <2>1, <2>2, <2>3, <2>4, <2>5, <2>6, <2>7 DEF IInv
<1>7. CASE ShutdownRecheck(w)
  <2>1. TypeOK'
    <3>1. status' \in [Tasks -> {"Pending", "Running"} \cup Terminal]
      BY <1>7, Zenon DEF ShutdownRecheck, IInv, TypeOK, Terminal
    <3>2. running_count' \in Int
      BY SMT, Z3, <1>7 DEF ShutdownRecheck, IInv, TypeOK
    <3>3. wpc' \in [AllWorkers -> WorkerPC]
      BY ZenonT(40), <1>7 DEF ShutdownRecheck, IInv, TypeOK, WorkerPC
    <3> QED BY <1>7, <3>1, <3>2, <3>3, Zenon DEF ShutdownRecheck, IInv, TypeOK
  <2>2. ASSUME NEW x \in AllWorkers PROVE WorkerInv(x)'
    BY SMT, Z3, <1>7 DEF ShutdownRecheck, IInv, TypeOK, WorkerInv, Alone, TaskInv,
           Early, Mid, Ending, Terminal
  <2>3. Alone'
    BY SMT, Z3, <1>7 DEF ShutdownRecheck, IInv, TypeOK, Alone, WorkerInv
  <2>4. ASSUME NEW x \in Tasks PROVE TaskInv(x)'
    BY SMT, Z3, <1>7 DEF ShutdownRecheck, IInv, TypeOK, TaskInv, WorkerInv, Early, Mid,
           Ending, Terminal
  <2>5. ASSUME NEW x \in Tasks PROVE PlaceInv(x)'
    BY SMT, Z3, <1>7 DEF ShutdownRecheck, IInv, TypeOK, PlaceInv, InEarly, InMid,
           IsBusy, WorkerInv, Early, Mid, Ending, TaskInv, Terminal
  <2>6. ASSUME NEW x \in Cancels PROVE CancelInv(x)'
    BY SMT, Z3, <1>7 DEF ShutdownRecheck, IInv, TypeOK, CancelInv, WorkerInv, Early,
           Mid, Ending, Terminal
  <2>7. ASSUME NEW x \in Waits PROVE WaitInv(x)'
    BY Zenon, <1>7 DEF ShutdownRecheck, IInv, TypeOK, WaitInv, Terminal
  <2> QED BY Zenon, <2>1, <2>2, <2>3, <2>4, <2>5, <2>6, <2>7 DEF IInv
<1> QED BY Zenon, <1>1, <1>2, <1>3, <1>4, <1>5, <1>6, <1>7

(* A worker from running the task to letting it go.                          *)
LEMMA FinishPreserves ==
  ASSUME IInv, NEW w \in AllWorkers
  PROVE  (\/ RunTask(w)
          \/ RecordShutdown(w)
          \/ StoreResult(w)
          \/ SetStatus(w)
          \/ CountCompletion(w)
          \/ Signal(w)
          \/ AutoFree(w))
         => IInv'
<1> USE LifecycleAssumption DEF record, notStatus, store, counters, worker,
      cancel, wait, outside, local, engine, Goto
<1>1. CASE RunTask(w)
  <2>1. TypeOK'
    BY SMT, Z3, <1>1 DEF RunTask, Execute, IInv, TypeOK, HandlePC, WorkerPC, CancelPC,
           WaitPC, Terminal
  <2>2. ASSUME NEW x \in AllWorkers PROVE WorkerInv(x)'
    BY SMT, Z3, <1>1 DEF RunTask, Execute, IInv, TypeOK, WorkerInv, Alone, TaskInv,
           Early, Mid, Ending, Terminal
  <2>3. Alone'
    BY SMT, Z3, <1>1 DEF RunTask, Execute, IInv, TypeOK, Alone, WorkerInv
  <2>4. ASSUME NEW x \in Tasks PROVE PlaceInv(x)'
    BY SMT, Z3, <1>1 DEF RunTask, Execute, IInv, TypeOK, PlaceInv, InEarly, InMid,
           IsBusy, WorkerInv, Early, Mid, Ending, TaskInv, Terminal
  <2>5. ASSUME NEW x \in Cancels PROVE CancelInv(x)'
    BY SMT, Z3, <1>1 DEF RunTask, Execute, IInv, TypeOK, CancelInv, WorkerInv, Early,
           Mid, Ending, Terminal
  <2> QED BY ZenonT(40), <1>1, <2>1, <2>2, <2>3, <2>4, <2>5, TaskFrame, WaitFrame DEF
         IInv, RunTask, Execute
<1>2. CASE RecordShutdown(w)
  <2>1. TypeOK'
    <3>1. cancelled' \in [Tasks -> BOOLEAN]
      BY <1>2, Zenon DEF RecordShutdown, IInv, TypeOK
    <3>2. cancelled_count' \in Int
      BY SMT, Z3, <1>2 DEF RecordShutdown, IInv, TypeOK
    <3>3. wpc' \in [AllWorkers -> WorkerPC]
      BY Zenon, <1>2 DEF RecordShutdown, IInv, TypeOK, WorkerPC
    <3>4. result' \in [Tasks -> {"none", "ok", "err", "cancelled"}]
      BY <1>2, Zenon DEF RecordShutdown, IInv, TypeOK
    <3> QED BY <1>2, <3>1, <3>2, <3>3, <3>4, Zenon DEF RecordShutdown, IInv, TypeOK
  <2>2. ASSUME NEW x \in AllWorkers PROVE WorkerInv(x)'
    BY SMT, Z3, <1>2 DEF RecordShutdown, IInv, TypeOK, WorkerInv, Alone, TaskInv,
           Early, Mid, Ending, Terminal
  <2>3. Alone'
    BY SMT, Z3, <1>2 DEF RecordShutdown, IInv, TypeOK, Alone, WorkerInv
  <2>4. ASSUME NEW x \in Tasks PROVE TaskInv(x)'
    BY SMT, Z3, <1>2 DEF RecordShutdown, IInv, TypeOK, TaskInv, WorkerInv, Early, Mid,
           Ending, Terminal
  <2>5. ASSUME NEW x \in Tasks PROVE PlaceInv(x)'
    BY SMT, Z3, <1>2 DEF RecordShutdown, IInv, TypeOK, PlaceInv, InEarly, InMid,
           IsBusy, WorkerInv, Early, Mid, Ending, TaskInv, Terminal
  <2>6. ASSUME NEW x \in Cancels PROVE CancelInv(x)'
    BY SMT, Z3, <1>2 DEF RecordShutdown, IInv, TypeOK, CancelInv, WorkerInv, Early,
           Mid, Ending, Terminal
  <2> QED BY Zenon, <1>2, <2>1, <2>2, <2>3, <2>4, <2>5, <2>6, WaitFrame DEF IInv,
         RecordShutdown
<1>3. CASE StoreResult(w)
  <2>1. TypeOK'
    BY <1>3, Zenon DEF StoreResult, IInv, TypeOK, HandlePC, WorkerPC, CancelPC,
           WaitPC, Terminal
  <2>2. ASSUME NEW x \in AllWorkers PROVE WorkerInv(x)'
    BY SMT, Z3, <1>3 DEF StoreResult, IInv, TypeOK, WorkerInv, Alone, TaskInv, Early,
           Mid, Ending, Terminal
  <2>3. Alone'
    BY SMT, Z3, <1>3 DEF StoreResult, IInv, TypeOK, Alone, WorkerInv
  <2>4. ASSUME NEW x \in Tasks PROVE TaskInv(x)'
    BY SMT, Z3, <1>3 DEF StoreResult, IInv, TypeOK, TaskInv, WorkerInv, Early, Mid,
           Ending, Terminal
  <2>5. ASSUME NEW x \in Tasks PROVE PlaceInv(x)'
    BY SMT, Z3, <1>3 DEF StoreResult, IInv, TypeOK, PlaceInv, InEarly, InMid, IsBusy,
           WorkerInv, Early, Mid, Ending, TaskInv, Terminal
  <2>6. ASSUME NEW x \in Cancels PROVE CancelInv(x)'
    BY SMT, Z3, <1>3 DEF StoreResult, IInv, TypeOK, CancelInv, WorkerInv, Early, Mid,
           Ending, Terminal
  <2> QED BY <1>3, <2>1, <2>2, <2>3, <2>4, <2>5, <2>6, WaitFrame, Zenon DEF IInv,
         StoreResult
<1>4. CASE SetStatus(w)
  <2>1. TypeOK'
    BY <1>4, ZenonT(40) DEF SetStatus, FinalStatus, IInv, TypeOK, HandlePC, WorkerPC,
           CancelPC, WaitPC, Terminal
  <2>2. ASSUME NEW x \in AllWorkers PROVE WorkerInv(x)'
    BY SMT, Z3, <1>4 DEF SetStatus, FinalStatus, IInv, TypeOK, WorkerInv, Alone,
           TaskInv, Early, Mid, Ending, Terminal
  <2>3. Alone'
    BY SMT, Z3, <1>4 DEF SetStatus, FinalStatus, IInv, TypeOK, Alone, WorkerInv
  <2>4. ASSUME NEW x \in Tasks PROVE TaskInv(x)'
    BY SMT, Z3, <1>4 DEF SetStatus, FinalStatus, IInv, TypeOK, TaskInv, WorkerInv,
           Early, Mid, Ending, Terminal
  <2>5. ASSUME NEW x \in Tasks PROVE PlaceInv(x)'
    BY SMT, Z3, <1>4 DEF SetStatus, FinalStatus, IInv, TypeOK, PlaceInv, InEarly,
           InMid, IsBusy, WorkerInv, Early, Mid, Ending, TaskInv, Terminal
  <2>6. ASSUME NEW x \in Cancels PROVE CancelInv(x)'
    BY SMT, Z3, <1>4 DEF SetStatus, FinalStatus, IInv, TypeOK, CancelInv, WorkerInv,
           Early, Mid, Ending, Terminal
  <2>7. ASSUME NEW x \in Waits PROVE WaitInv(x)'
    BY ZenonT(40), <1>4 DEF SetStatus, FinalStatus, IInv, TypeOK, WaitInv, WorkerInv,
           TaskInv, Mid, Terminal
  <2> QED BY Zenon, <2>1, <2>2, <2>3, <2>4, <2>5, <2>6, <2>7 DEF IInv
<1>5. CASE CountCompletion(w)
  <2>1. TypeOK'
    BY SMT, Z3, <1>5 DEF CountCompletion, IInv, TypeOK, HandlePC, WorkerPC, CancelPC,
           WaitPC, Terminal
  <2>2. ASSUME NEW x \in AllWorkers PROVE WorkerInv(x)'
    BY SMT, Z3, <1>5 DEF CountCompletion, IInv, TypeOK, WorkerInv, Alone, TaskInv,
           Early, Mid, Ending, Terminal
  <2>3. Alone'
    BY SMT, Z3, <1>5 DEF CountCompletion, IInv, TypeOK, Alone, WorkerInv
  <2>4. ASSUME NEW x \in Tasks PROVE PlaceInv(x)'
    BY SMT, Z3, <1>5 DEF CountCompletion, IInv, TypeOK, PlaceInv, InEarly, InMid,
           IsBusy, WorkerInv, Early, Mid, Ending, TaskInv, Terminal
  <2>5. ASSUME NEW x \in Cancels PROVE CancelInv(x)'
    BY SMT, Z3, <1>5 DEF CountCompletion, IInv, TypeOK, CancelInv, WorkerInv, Early,
           Mid, Ending, Terminal
  <2> QED BY <1>5, <2>1, <2>2, <2>3, <2>4, <2>5, TaskFrame, WaitFrame, Zenon DEF
         IInv, CountCompletion
<1>6. CASE Signal(w)
  <2>1. TypeOK'
    BY <1>6, ZenonT(40) DEF Signal, SetCompleted, IInv, TypeOK, HandlePC, WorkerPC,
           CancelPC, WaitPC, Terminal
  <2>2. ASSUME NEW x \in AllWorkers PROVE WorkerInv(x)'
    BY SMT, Z3, <1>6 DEF Signal, SetCompleted, IInv, TypeOK, WorkerInv, Alone, TaskInv,
           Early, Mid, Ending, Terminal
  <2>3. Alone'
    BY SMT, Z3, <1>6 DEF Signal, SetCompleted, IInv, TypeOK, Alone, WorkerInv
  <2>4. ASSUME NEW x \in Tasks PROVE TaskInv(x)'
    BY SMT, Z3, <1>6 DEF Signal, SetCompleted, IInv, TypeOK, TaskInv, WorkerInv, Early,
           Mid, Ending, Terminal
  <2>5. ASSUME NEW x \in Tasks PROVE PlaceInv(x)'
    BY SMT, Z3, <1>6 DEF Signal, SetCompleted, IInv, TypeOK, PlaceInv, InEarly, InMid,
           IsBusy, WorkerInv, Early, Mid, Ending, TaskInv, Terminal
  <2>6. ASSUME NEW x \in Cancels PROVE CancelInv(x)'
    BY SMT, Z3, <1>6 DEF Signal, SetCompleted, IInv, TypeOK, CancelInv, WorkerInv,
           Early, Mid, Ending, Terminal
  <2>7. ASSUME NEW x \in Waits PROVE WaitInv(x)'
    BY Zenon, <1>6 DEF Signal, SetCompleted, IInv, TypeOK, WaitInv, Terminal
  <2> QED BY Zenon, <2>1, <2>2, <2>3, <2>4, <2>5, <2>6, <2>7 DEF IInv
<1>7. CASE AutoFree(w)
  <2>1. TypeOK'
    BY SMTT(30), Z3T(30), <1>7 DEF AutoFree, FreeTask, IInv, TypeOK, HandlePC, WorkerPC,
           CancelPC, WaitPC, Terminal
  <2>2. ASSUME NEW x \in AllWorkers PROVE WorkerInv(x)'
    BY SMT, Z3, <1>7 DEF AutoFree, FreeTask, IInv, TypeOK, WorkerInv, Alone, TaskInv,
           Early, Mid, Ending, Terminal
  <2>3. Alone'
    BY SMTT(30), Z3T(30), <1>7 DEF AutoFree, FreeTask, IInv, TypeOK, Alone, WorkerInv
  <2>4. ASSUME NEW x \in Tasks PROVE TaskInv(x)'
    BY SMTT(30), Z3T(30), <1>7 DEF AutoFree, FreeTask, IInv, TypeOK, TaskInv, WorkerInv, Early,
           Mid, Ending, Terminal
  <2>5. ASSUME NEW x \in Tasks PROVE PlaceInv(x)'
    BY SMT, Z3, <1>7 DEF AutoFree, FreeTask, IInv, TypeOK, PlaceInv, InEarly, InMid,
           IsBusy, WorkerInv, Early, Mid, Ending, TaskInv, Terminal
  <2>6. ASSUME NEW x \in Cancels PROVE CancelInv(x)'
    BY SMT, Z3, <1>7 DEF AutoFree, FreeTask, IInv, TypeOK, CancelInv, WorkerInv, Early,
           Mid, Ending, Terminal
  <2> QED BY <1>7, <2>1, <2>2, <2>3, <2>4, <2>5, <2>6, WaitFrame, ZenonT(40) DEF IInv,
         AutoFree, FreeTask
<1> QED BY Zenon, <1>1, <1>2, <1>3, <1>4, <1>5, <1>6, <1>7

(* cancel_task.                                                              *)
LEMMA CancelPreserves ==
  ASSUME IInv, NEW k \in Cancels
  PROVE  (\/ \E t \in Tasks : CancelClaim(k, t)
          \/ CancelRecord(k)
          \/ CancelResult(k)
          \/ CancelSignal(k))
         => IInv'
<1> USE LifecycleAssumption DEF record, notStatus, store, counters, worker,
      cancel, wait, outside, local, engine, Goto
<1>1. ASSUME NEW t \in Tasks, CancelClaim(k, t) PROVE IInv'
  <2>1. TypeOK'
    BY ZenonT(40), <1>1 DEF CancelClaim, Cancellable, IInv, TypeOK, HandlePC, WorkerPC,
           CancelPC, WaitPC, Terminal
  <2>2. ASSUME NEW x \in AllWorkers PROVE WorkerInv(x)'
    BY SMTT(30), Z3T(30), <1>1 DEF CancelClaim, Cancellable, IInv, TypeOK, WorkerInv, Alone,
           TaskInv, Early, Mid, Ending, Terminal
  <2>3. ASSUME NEW x \in Tasks PROVE TaskInv(x)'
    BY Zenon, <1>1 DEF CancelClaim, Cancellable, IInv, TypeOK, TaskInv, CancelInv,
           Terminal
  <2>4. ASSUME NEW x \in Tasks PROVE PlaceInv(x)'
    BY SMT, Z3, <1>1 DEF CancelClaim, Cancellable, IInv, TypeOK, PlaceInv, InEarly,
           InMid, IsBusy
  <2>5. ASSUME NEW x \in Cancels PROVE CancelInv(x)'
    <3>1. CASE x # k
      BY Zenon, <1>1, <3>1 DEF CancelClaim, IInv, TypeOK, CancelInv
    <3>2. CASE x = k /\ status[t] = "Pending"
      <4>1. \A w \in AllWorkers :
              ~(wpc[w] \in {"recheck", "exec", "store", "status", "count"}
                /\ wtask[w] = t)
        BY <3>2, Zenon DEF IInv, WorkerInv, Mid, Ending, Terminal
      <4> QED BY Zenon, <1>1, <3>2, <4>1 DEF CancelClaim, IInv, TypeOK, CancelInv
    <3>3. CASE x = k /\ status[t] # "Pending"
      BY <1>1, <3>3, ZenonT(30) DEF CancelClaim, Cancellable, IInv, TypeOK, CancelInv
    <3> QED BY Zenon, <3>1, <3>2, <3>3
  <2>6. ASSUME NEW x \in Waits PROVE WaitInv(x)'
    BY Zenon, <1>1 DEF CancelClaim, Cancellable, IInv, TypeOK, WaitInv, Terminal
  <2> QED BY Zenon, <1>1, <2>1, <2>2, <2>3, <2>4, <2>5, <2>6, AloneFrame DEF IInv,
         CancelClaim, Cancellable
<1>2. CASE CancelRecord(k)
  <2>1. TypeOK'
    <3>1. cancelled' \in [Tasks -> BOOLEAN]
      BY <1>2, Zenon DEF CancelRecord, IInv, TypeOK
    <3>2. cancelled_count' \in Int
      BY SMT, Z3, <1>2 DEF CancelRecord, IInv, TypeOK
    <3>3. kpc' \in [Cancels -> CancelPC]
      BY Zenon, <1>2 DEF CancelRecord, IInv, TypeOK, CancelPC
    <3> QED BY <1>2, <3>1, <3>2, <3>3, Zenon DEF CancelRecord, IInv, TypeOK
  <2>2. ASSUME NEW x \in Tasks PROVE TaskInv(x)'
    BY SMT, Z3, <1>2 DEF CancelRecord, IInv, TypeOK, TaskInv, CancelInv, Terminal
  <2>3. ASSUME NEW x \in Cancels PROVE CancelInv(x)'
    BY Zenon, <1>2 DEF CancelRecord, IInv, TypeOK, CancelInv
  <2> QED BY Zenon, <1>2, <2>1, <2>2, <2>3, WorkerFrame, AloneFrame, PlaceFrame,
         WaitFrame DEF IInv, CancelRecord
<1>3. CASE CancelResult(k)
  <2>1. TypeOK'
    BY <1>3, Zenon DEF CancelResult, IInv, TypeOK, HandlePC, WorkerPC, CancelPC,
           WaitPC, Terminal
  <2>2. ASSUME NEW x \in AllWorkers PROVE WorkerInv(x)'
    BY <1>3, Zenon DEF CancelResult, IInv, TypeOK, WorkerInv, CancelInv
  <2>3. ASSUME NEW x \in Tasks PROVE TaskInv(x)'
    BY Zenon, <1>3 DEF CancelResult, IInv, TypeOK, TaskInv, CancelInv, Terminal
  <2>4. ASSUME NEW x \in Cancels PROVE CancelInv(x)'
    BY ZenonT(40), <1>3 DEF CancelResult, IInv, TypeOK, CancelInv
  <2> QED BY Zenon, <1>3, <2>1, <2>2, <2>3, <2>4, AloneFrame, PlaceFrame, WaitFrame
         DEF IInv, CancelResult
<1>4. CASE CancelSignal(k)
  <2>1. TypeOK'
    BY <1>4, ZenonT(30) DEF CancelSignal, SetCompleted, IInv, TypeOK, HandlePC, WorkerPC,
           CancelPC, WaitPC, Terminal
  <2>2. ASSUME NEW x \in Tasks PROVE TaskInv(x)'
    BY Zenon, <1>4 DEF CancelSignal, SetCompleted, IInv, TypeOK, TaskInv, CancelInv,
           Terminal
  <2>3. ASSUME NEW x \in Cancels PROVE CancelInv(x)'
    BY Zenon, <1>4 DEF CancelSignal, SetCompleted, IInv, TypeOK, CancelInv
  <2>4. ASSUME NEW x \in Waits PROVE WaitInv(x)'
    BY Zenon, <1>4 DEF CancelSignal, SetCompleted, IInv, TypeOK, WaitInv, Terminal
  <2> QED BY Zenon, <1>4, <2>1, <2>2, <2>3, <2>4, WorkerFrame, AloneFrame, PlaceFrame
         DEF IInv, CancelSignal, SetCompleted
<1> QED BY Zenon, <1>1, <1>2, <1>3, <1>4

(* TaskHandle.result.                                                        *)
LEMMA WaitPreserves ==
  ASSUME IInv, NEW q \in Waits
  PROVE  (\/ \E t \in Tasks : WaitStart(q, t)
          \/ WaitCheck(q)
          \/ WaitTimeout(q)
          \/ WaitStatus(q)
          \/ \E consume \in BOOLEAN : WaitGet(q, consume)
          \/ WaitConsume(q))
         => IInv'
<1> USE LifecycleAssumption DEF record, notStatus, store, counters, worker,
      cancel, wait, outside, local, engine, Goto
<1>1. ASSUME NEW t \in Tasks, WaitStart(q, t) PROVE IInv'
  <2>1. TypeOK'
    BY ZenonT(40), <1>1 DEF WaitStart, IInv, TypeOK, HandlePC, WorkerPC, CancelPC, WaitPC,
           Terminal
  <2>2. ASSUME NEW x \in Waits PROVE WaitInv(x)'
    BY SMT, Z3, <1>1 DEF WaitStart, IInv, TypeOK, WaitInv, TaskInv, Terminal
  <2> QED BY Zenon, <1>1, <2>1, <2>2, WorkerFrame, AloneFrame, TaskFrame, PlaceFrame,
         CancelFrame DEF IInv, WaitStart
<1>2. CASE WaitCheck(q)
  <2>1. TypeOK'
    BY ZenonT(40), <1>2 DEF WaitCheck, IInv, TypeOK, HandlePC, WorkerPC, CancelPC, WaitPC,
           Terminal
  <2>2. ASSUME NEW x \in Waits PROVE WaitInv(x)'
    BY SMT, Z3, <1>2 DEF WaitCheck, IInv, TypeOK, WaitInv, TaskInv, Terminal
  <2> QED BY Zenon, <1>2, <2>1, <2>2, WorkerFrame, AloneFrame, TaskFrame, PlaceFrame,
         CancelFrame DEF IInv, WaitCheck
<1>3. CASE WaitTimeout(q)
  <2>1. TypeOK'
    BY ZenonT(40), <1>3 DEF WaitTimeout, IInv, TypeOK, HandlePC, WorkerPC, CancelPC,
           WaitPC, Terminal
  <2>2. ASSUME NEW x \in Waits PROVE WaitInv(x)'
    BY SMT, Z3, <1>3 DEF WaitTimeout, IInv, TypeOK, WaitInv, TaskInv, Terminal
  <2> QED BY Zenon, <1>3, <2>1, <2>2, WorkerFrame, AloneFrame, TaskFrame, PlaceFrame,
         CancelFrame DEF IInv, WaitTimeout
<1>4. CASE WaitStatus(q)
  <2>1. TypeOK'
    BY ZenonT(40), <1>4 DEF WaitStatus, IInv, TypeOK, HandlePC, WorkerPC, CancelPC,
           WaitPC, Terminal
  <2>2. ASSUME NEW x \in Waits PROVE WaitInv(x)'
    BY SMT, Z3, <1>4 DEF WaitStatus, IInv, TypeOK, WaitInv, TaskInv, Terminal
  <2> QED BY ZenonT(30), <1>4, <2>1, <2>2, WorkerFrame, AloneFrame, TaskFrame, PlaceFrame,
         CancelFrame DEF IInv, WaitStatus
<1>5. ASSUME NEW consume \in BOOLEAN, WaitGet(q, consume) PROVE IInv'
  <2>1. TypeOK'
    BY ZenonT(40), <1>5 DEF WaitGet, IInv, TypeOK, HandlePC, WorkerPC, CancelPC, WaitPC,
           Terminal
  <2>2. ASSUME NEW x \in Waits PROVE WaitInv(x)'
    BY SMTT(30), Z3T(30), <1>5 DEF WaitGet, IInv, TypeOK, WaitInv, TaskInv, Terminal
  <2> QED BY ZenonT(30), <1>5, <2>1, <2>2, WorkerFrame, AloneFrame, TaskFrame, PlaceFrame,
         CancelFrame DEF IInv, WaitGet
<1>6. CASE WaitConsume(q)
  <2>1. TypeOK'
    BY SMTT(30), Z3T(30), <1>6 DEF WaitConsume, FreeTask, IInv, TypeOK, WaitInv, HandlePC, WaitPC
  <2>2. ASSUME NEW x \in AllWorkers PROVE WorkerInv(x)'
    BY ZenonT(40), <1>6 DEF WaitConsume, FreeTask, IInv, TypeOK, WorkerInv, Alone,
           TaskInv, Early, Mid, Ending, Terminal
  <2>3. ASSUME NEW x \in Tasks PROVE TaskInv(x)'
    BY SMTT(30), Z3T(30), <1>6 DEF WaitConsume, FreeTask, IInv, TypeOK, TaskInv, WaitInv,
           Terminal
  <2>4. ASSUME NEW x \in Tasks PROVE PlaceInv(x)'
    BY SMTT(30), Z3T(30), <1>6 DEF WaitConsume, FreeTask, IInv, TypeOK, PlaceInv, InEarly, InMid,
           IsBusy, WaitInv
  <2>5. ASSUME NEW x \in Waits PROVE WaitInv(x)'
    BY SMT, Z3, <1>6 DEF WaitConsume, FreeTask, IInv, TypeOK, WaitInv, TaskInv,
           Terminal
  <2> QED BY ZenonT(40), <1>6, <2>1, <2>2, <2>3, <2>4, <2>5, AloneFrame, CancelFrame DEF
         IInv, WaitConsume, FreeTask
<1> QED BY Zenon, <1>1, <1>2, <1>3, <1>4, <1>5, <1>6

(* TaskHandle.close and set_autofree.                                        *)
LEMMA ClosePreserves ==
  ASSUME IInv, NEW t \in Tasks
  PROVE  (\/ CloseStart(t)
          \/ SetAutofree(t)
          \/ AutofreeRecheck(t)
          \/ CloseFree(t))
         => IInv'
<1> USE LifecycleAssumption DEF record, notStatus, store, counters, worker,
      cancel, wait, outside, local, engine, Goto
<1>1. CASE CloseStart(t)
  <2>1. TypeOK'
    BY Zenon, <1>1 DEF CloseStart, IInv, TypeOK, HandlePC, WorkerPC, CancelPC,
           WaitPC, Terminal
  <2>2. ASSUME NEW x \in AllWorkers PROVE WorkerInv(x)'
    BY <1>1, ZenonT(30) DEF CloseStart, IInv, TypeOK, WorkerInv, Alone, TaskInv, Early,
           Mid, Ending, Terminal
  <2>3. ASSUME NEW x \in Tasks PROVE TaskInv(x)'
    BY ZenonT(40), <1>1 DEF CloseStart, IInv, TypeOK, TaskInv
  <2>4. ASSUME NEW x \in Tasks PROVE PlaceInv(x)'
    BY SMTT(30), Z3T(30), <1>1 DEF CloseStart, IInv, TypeOK, PlaceInv, InEarly, InMid, IsBusy,
           TaskInv, Terminal
  <2> QED BY Zenon, <1>1, <2>1, <2>2, <2>3, <2>4, AloneFrame, CancelFrame, WaitFrame
         DEF IInv, CloseStart
<1>2. CASE SetAutofree(t)
  <2>1. TypeOK'
    BY Zenon, <1>2 DEF SetAutofree, IInv, TypeOK, HandlePC, WorkerPC, CancelPC,
           WaitPC, Terminal
  <2>2. ASSUME NEW x \in AllWorkers PROVE WorkerInv(x)'
    BY Zenon, <1>2 DEF SetAutofree, IInv, TypeOK, WorkerInv, Alone, TaskInv, Early,
           Mid, Ending, Terminal
  <2>3. ASSUME NEW x \in Tasks PROVE TaskInv(x)'
    BY ZenonT(40), <1>2 DEF SetAutofree, IInv, TypeOK, TaskInv
  <2>4. ASSUME NEW x \in Tasks PROVE PlaceInv(x)'
    BY SMTT(30), Z3T(30), <1>2 DEF SetAutofree, IInv, TypeOK, PlaceInv, InEarly, InMid, IsBusy
  <2> QED BY Zenon, <1>2, <2>1, <2>2, <2>3, <2>4, AloneFrame, CancelFrame, WaitFrame
         DEF IInv, SetAutofree
<1>3. CASE AutofreeRecheck(t)
  <2>1. TypeOK'
    BY Zenon, <1>3 DEF AutofreeRecheck, IInv, TypeOK, HandlePC, WorkerPC, CancelPC,
           WaitPC, Terminal
  <2>2. ASSUME NEW x \in AllWorkers PROVE WorkerInv(x)'
    BY <1>3, ZenonT(30) DEF AutofreeRecheck, IInv, TypeOK, WorkerInv, Alone, TaskInv,
           Early, Mid, Ending, Terminal
  <2>3. ASSUME NEW x \in Tasks PROVE TaskInv(x)'
    BY Zenon, <1>3 DEF AutofreeRecheck, IInv, TypeOK, TaskInv, Terminal
  <2>4. ASSUME NEW x \in Tasks PROVE PlaceInv(x)'
    <3>1. InEarly(x) \/ InMid(x) => IsBusy(x)
      BY Zenon DEF InEarly, InMid, IsBusy, Early, Mid
    <3>2. status[x] \notin Terminal => status[x] \in {"Pending", "Running"}
      BY Zenon DEF IInv, TypeOK
    <3>3. /\ InEarly(x)' <=> InEarly(x)
          /\ InMid(x)' <=> InMid(x)
          /\ IsBusy(x)' <=> IsBusy(x)
      BY Zenon, <1>3 DEF AutofreeRecheck, InEarly, InMid, IsBusy
    <3> QED BY Zenon, <1>3, <3>1, <3>2, <3>3 DEF AutofreeRecheck, IInv, TypeOK, PlaceInv
  <2> QED BY Zenon, <1>3, <2>1, <2>2, <2>3, <2>4, AloneFrame, CancelFrame, WaitFrame
         DEF IInv, AutofreeRecheck
<1>4. CASE CloseFree(t)
  <2>1. TypeOK'
    BY SMT, Z3, <1>4 DEF CloseFree, FreeTask, IInv, TypeOK, HandlePC, WorkerPC,
           CancelPC, WaitPC, Terminal
  <2>2. ASSUME NEW x \in AllWorkers PROVE WorkerInv(x)'
    BY <1>4, ZenonT(30) DEF CloseFree, FreeTask, IInv, TypeOK, WorkerInv, Alone, TaskInv,
           Early, Mid, Ending, Terminal
  <2>3. ASSUME NEW x \in Tasks PROVE TaskInv(x)'
    BY Zenon, <1>4 DEF CloseFree, FreeTask, IInv, TypeOK, TaskInv
  <2>4. ASSUME NEW x \in Tasks PROVE PlaceInv(x)'
    BY SMT, Z3, <1>4 DEF CloseFree, FreeTask, IInv, TypeOK, PlaceInv, InEarly, InMid,
           IsBusy
  <2> QED BY ZenonT(40), <1>4, <2>1, <2>2, <2>3, <2>4, AloneFrame, CancelFrame, WaitFrame
         DEF IInv, CloseFree, FreeTask
<1> QED BY Zenon, <1>1, <1>2, <1>3, <1>4

-----------------------------------------------------------------------------
(* The invariant holds before the first submission.                         *)
LEMMA InitIInv == Init => IInv
<1> SUFFICES ASSUME Init PROVE IInv
  BY Zenon
<1> USE LifecycleAssumption DEF Init
<1>1. TypeOK
  <2>1. /\ cancelled \in [Tasks -> BOOLEAN] /\ completed \in [Tasks -> BOOLEAN]
        /\ autofree \in [Tasks -> BOOLEAN] /\ late \in [AllWorkers -> BOOLEAN]
        /\ kran \in [Cancels -> BOOLEAN] /\ cancelPending \in BOOLEAN
    BY Zenon
  <2>2. slab \subseteq Tasks /\ queue \subseteq Tasks
    BY Zenon
  <2> QED BY SMT, Z3, <2>1, <2>2
        DEF TypeOK, HandlePC, WorkerPC, CancelPC, WaitPC, Terminal
<1>2. \A w \in AllWorkers : WorkerInv(w)
  BY Zenon DEF WorkerInv
<1>3. Alone
  BY Zenon DEF Alone
<1>4. \A t \in Tasks : TaskInv(t) /\ PlaceInv(t)
  BY Zenon DEF TaskInv, PlaceInv
<1>5. \A k \in Cancels : CancelInv(k)
  BY Zenon DEF CancelInv
<1>6. \A q \in Waits : WaitInv(q)
  BY Zenon DEF WaitInv
<1> QED BY Zenon, <1>1, <1>2, <1>3, <1>4, <1>5, <1>6 DEF IInv

(* Every step of every thread keeps IInv.                                    *)
LEMMA NextIInv == IInv /\ [Next]_vars => IInv'
<1> SUFFICES ASSUME IInv, [Next]_vars PROVE IInv'
  BY Zenon
<1>1. CASE \E S \in (SUBSET Tasks) \ {{}} : Insert(S) \/ ReturnHandles(S)
  <2>1. \/ \E S \in SUBSET Tasks : Insert(S)
        \/ \E S \in SUBSET Tasks : ReturnHandles(S)
    BY Zenon, <1>1
  <2> QED BY Zenon, <2>1, SubmitPreserves
<1>2. CASE \E t \in Tasks : Enqueue(t) \/ CloseStart(t) \/ CloseStep(t)
  BY Zenon, <1>2, SubmitPreserves, ClosePreserves DEF CloseStep
<1>3. CASE SetCancelPending
  BY Zenon, <1>3, SubmitPreserves
<1>4. CASE \E w \in AllWorkers : \/ \E t \in Tasks : Receive(w, t)
                                 \/ ReleaseUnit(w) \/ ClaimStep(w)
                                 \/ RunTask(w) \/ FinishStep(w)
  BY Zenon, <1>4, ClaimPreserves, FinishPreserves DEF ClaimStep, FinishStep
<1>5. CASE \E k \in Cancels : \/ CancelStep(k)
                              \/ \E t \in Tasks : CancelClaim(k, t)
  BY Zenon, <1>5, CancelPreserves DEF CancelStep
<1>6. CASE \E q \in Waits : \/ WaitStep(q) \/ WaitTimeout(q)
                            \/ \E t \in Tasks : WaitStart(q, t)
  BY Zenon, <1>6, WaitPreserves DEF WaitStep
<1>7. CASE UNCHANGED vars
  <2> USE <1>7 DEF vars, record, store, counters, worker, cancel, wait
  <2>1. TypeOK'
    BY Zenon DEF IInv, TypeOK
  <2> QED BY Zenon, <2>1, WorkerFrame, AloneFrame, TaskFrame, PlaceFrame, CancelFrame,
             WaitFrame DEF IInv
<1> QED BY Zenon, <1>1, <1>2, <1>3, <1>4, <1>5, <1>6, <1>7 DEF Next

(* The invariant holds in every state the engine's threads can reach,       *)
(* however many tasks, workers and calls there are.                         *)
THEOREM LifecycleInvariant == Safety => []IInv
BY InitIInv, NextIInv, PTL DEF Safety

-----------------------------------------------------------------------------
(* Refinement of TaskContract.                                               *)

(* Nothing submitted: the contract's tasks are pending and nobody has       *)
(* asked.                                                                   *)
LEMMA InitContract == Init => Contract!Init
BY SMT, Z3 DEF Init, Contract!Init, States, Answers, AnswerOf, Claimed

(* A step that moves no worker into or out of "recheck" and changes no       *)
(* status changes no abstract state.                                         *)
LEMMA StatesSame ==
  ASSUME UNCHANGED status,
         \A w \in AllWorkers :
           /\ wpc'[w] = "recheck" <=> wpc[w] = "recheck"
           /\ wpc[w] = "recheck" => wtask'[w] = wtask[w]
  PROVE  States' = States
<1>1. \A t \in Tasks : Claimed(t)' <=> Claimed(t)
  BY Zenon DEF Claimed
<1> QED BY Zenon, <1>1 DEF States

(* The same for a step that changes the status of t alone, which is claimed  *)
(* neither before nor after.                                                 *)
LEMMA StatesExcept ==
  ASSUME NEW t \in Tasks, NEW s, status' = [status EXCEPT ![t] = s],
         status \in [Tasks -> {"Pending", "Running"} \cup Terminal],
         s # "Running",
         \A x \in Tasks \ {t} : Claimed(x)' <=> Claimed(x)
  PROVE  States' = [States EXCEPT ![t] = s]
BY Zenon DEF States

(* A step that changes nothing the contract sees is a stutter of it.        *)
LEMMA Stutter ==
  ASSUME States' = States, Answers' = Answers, UNCHANGED <<completed, qtask>>
  PROVE  UNCHANGED Contract!vars
BY Zenon DEF Contract!vars

(* Steps the contract does not see.                                          *)
LEMMA HiddenSteps ==
  ASSUME IInv
  PROVE  (\/ \E S \in SUBSET Tasks : Insert(S) \/ ReturnHandles(S)
          \/ \E t \in Tasks : Enqueue(t) \/ CloseStart(t) \/ CloseStep(t)
          \/ SetCancelPending
          \/ \E k \in Cancels : CancelRecord(k) \/ CancelResult(k)
          \/ \E w \in AllWorkers :
               \/ \E t \in Tasks : Receive(w, t)
               \/ ReleaseUnit(w) \/ Lookup(w) \/ CancelledCheck(w) \/ RunTask(w)
               \/ RecordShutdown(w) \/ StoreResult(w) \/ CountCompletion(w)
               \/ AutoFree(w))
         => UNCHANGED Contract!vars
<1> USE DEF record, notStatus, store, counters, worker, cancel, wait, outside,
      local, engine, Goto
<1>1. ASSUME NEW S \in SUBSET Tasks, Insert(S) \/ ReturnHandles(S)
      PROVE  UNCHANGED Contract!vars
  <2>1. UNCHANGED <<status, wpc, wtask, qpc, completed, qtask>>
    BY Zenon, <1>1 DEF Insert, ReturnHandles
  <2> QED BY <2>1, StatesSame, Stutter, Zenon DEF Answers
<1>2. ASSUME NEW t \in Tasks, Enqueue(t) \/ CloseStart(t) \/ CloseStep(t)
      PROVE  UNCHANGED Contract!vars
  <2>1. UNCHANGED <<status, wpc, wtask, qpc, completed, qtask>>
    BY <1>2, Zenon DEF Enqueue, CloseStart, CloseStep, SetAutofree, AutofreeRecheck,
         CloseFree
  <2> QED BY Zenon, <2>1, StatesSame, Stutter DEF Answers
<1>3. CASE SetCancelPending
  <2>1. UNCHANGED <<status, wpc, wtask, qpc, completed, qtask>>
    BY Zenon, <1>3 DEF SetCancelPending
  <2> QED BY <2>1, StatesSame, Stutter, Zenon DEF Answers
<1>4. ASSUME NEW k \in Cancels, CancelRecord(k) \/ CancelResult(k)
      PROVE  UNCHANGED Contract!vars
  <2>1. UNCHANGED <<status, wpc, wtask, qpc, completed, qtask>>
    BY <1>4, ZenonT(30) DEF CancelRecord, CancelResult
  <2> QED BY Zenon, <2>1, StatesSame, Stutter DEF Answers
<1>5. ASSUME NEW w \in AllWorkers,
             \/ \E t \in Tasks : Receive(w, t)
             \/ ReleaseUnit(w) \/ Lookup(w) \/ CancelledCheck(w) \/ RunTask(w)
             \/ RecordShutdown(w) \/ StoreResult(w) \/ CountCompletion(w)
             \/ AutoFree(w)
      PROVE  UNCHANGED Contract!vars
  <2>1. UNCHANGED <<status, qpc, completed, qtask>>
    BY <1>5, Zenon DEF Receive, ReleaseUnit, Lookup, CancelledCheck, RunTask, Execute,
         RecordShutdown, StoreResult, CountCompletion, AutoFree
  <2>2. ASSUME NEW x \in AllWorkers
        PROVE  /\ wpc'[x] = "recheck" <=> wpc[x] = "recheck"
               /\ wpc[x] = "recheck" => wtask'[x] = wtask[x]
    BY <1>5, ZenonT(30) DEF IInv, TypeOK, Receive, ReleaseUnit, Lookup, CancelledCheck,
         RunTask, Execute, RecordShutdown, StoreResult, CountCompletion, AutoFree
  <2> QED BY <2>1, <2>2, StatesSame, Stutter, Zenon DEF Answers
<1> QED BY Zenon, <1>1, <1>2, <1>3, <1>4, <1>5

(* A status change of one task is the contract's Start, Finish or Cancel.    *)
LEMMA StatusSteps ==
  ASSUME IInv, NEW w \in AllWorkers
  PROVE  ShutdownCheck(w) \/ Claim(w) \/ ShutdownRecheck(w) \/ SetStatus(w)
         => [Contract!Next]_(Contract!vars)
<1> DEFINE t == wtask[w]
<1> USE DEF record, notStatus, store, counters, worker, cancel, wait, outside,
      local, engine, Goto
<1>0. /\ status \in [Tasks -> {"Pending", "Running"} \cup Terminal]
      /\ wpc \in [AllWorkers -> WorkerPC]
  BY Zenon DEF IInv, TypeOK
<1>1. CASE ShutdownCheck(w)
  <2>1. t \in Tasks
    BY <1>1, Zenon DEF ShutdownCheck, IInv, WorkerInv
  <2>2. \A x \in Tasks : Claimed(x)' <=> Claimed(x)
    BY Zenon, <1>0, <1>1 DEF ShutdownCheck, Claimed
  <2>3. UNCHANGED <<Answers, completed, qtask>>
    BY <1>1, Zenon DEF ShutdownCheck, Answers
  <2>4. CASE cancelPending /\ status[t] = "Pending"
    <3>1. States' = [States EXCEPT ![t] = "Cancelled"]
      BY <1>0, <1>1, <2>1, <2>2, <2>4, StatesExcept, Zenon DEF ShutdownCheck
    <3>2. Contract!Cancel(t)
      BY <2>1, <2>3, <2>4, <3>1, Zenon DEF Contract!Cancel, States
    <3> QED BY Zenon, <2>1, <3>2 DEF Contract!Next
  <2>5. CASE ~(cancelPending /\ status[t] = "Pending")
    <3>1. States' = States
      BY <1>1, <2>2, <2>5, Zenon DEF ShutdownCheck, States
    <3> QED BY Zenon, <2>3, <3>1, Stutter
  <2> QED BY Zenon, <2>4, <2>5
<1>2. CASE Claim(w)
  <2>1. t \in Tasks
    BY <1>2, Zenon DEF Claim, IInv, WorkerInv
  <2>2. \A x \in Tasks \ {t} : Claimed(x)' <=> Claimed(x)
    BY Zenon, <1>0, <1>2 DEF Claim, Claimed
  <2>3. status[t] = "Pending" => Claimed(t)'
    BY Zenon, <1>0, <1>2 DEF Claim, Claimed
  <2>4. status[t] # "Pending" => (Claimed(t)' <=> Claimed(t))
    BY Zenon, <1>0, <1>2 DEF Claim, Claimed
  <2>5. States' = States
    BY Zenon, <1>0, <1>2, <2>1, <2>2, <2>3, <2>4 DEF Claim, States
  <2> QED BY <1>2, <2>5, Stutter, Zenon DEF Claim, Answers
<1>3. CASE ShutdownRecheck(w)
  <2>1. /\ t \in Tasks
        /\ status[t] = "Running" \/ (status[t] = "Cancelled" /\ t \in Isolated)
    BY <1>3, Zenon DEF ShutdownRecheck, IInv, WorkerInv, Mid
  <2>2. \A x \in Tasks \ {t} : Claimed(x)' <=> Claimed(x)
    BY Zenon, <1>0, <1>3 DEF ShutdownRecheck, Claimed
  <2>3. Claimed(t) /\ ~Claimed(t)'
    <3>1. \A v \in AllWorkers \ {w} : ~(wpc[v] = "recheck" /\ wtask[v] = t)
      BY Zenon, <1>3 DEF ShutdownRecheck, IInv, Alone
    <3> QED BY Zenon, <1>0, <1>3, <3>1 DEF ShutdownRecheck, Claimed
  <2>4. UNCHANGED <<Answers, completed, qtask>>
    BY Zenon, <1>3 DEF ShutdownRecheck, Answers
  <2>5. CASE status[t] = "Running" /\ cancelPending
    <3>1. States' = [States EXCEPT ![t] = "Cancelled"]
      BY <1>0, <1>3, <2>1, <2>2, <2>5, StatesExcept, Zenon DEF ShutdownRecheck
    <3>2. Contract!Cancel(t)
      BY <2>1, <2>3, <2>4, <2>5, <3>1, Zenon DEF Contract!Cancel, States
    <3> QED BY <2>1, <3>2, Zenon DEF Contract!Next
  <2>6. CASE status[t] = "Running" /\ ~cancelPending
    <3>1. States' = [States EXCEPT ![t] = "Running"]
      BY <1>0, <1>3, <2>1, <2>2, <2>3, <2>6, ZenonT(30) DEF ShutdownRecheck, States
    <3>2. Contract!Start(t)
      BY Zenon, <2>1, <2>3, <2>4, <2>6, <3>1 DEF Contract!Start, States
    <3> QED BY <2>1, <3>2, Zenon DEF Contract!Next
  <2>7. CASE status[t] # "Running"
    <3>1. States' = States
      BY <1>3, <2>1, <2>2, <2>7, Zenon DEF ShutdownRecheck, States
    <3> QED BY Zenon, <2>4, <3>1, Stutter
  <2> QED BY Zenon, <2>5, <2>6, <2>7
<1>4. CASE SetStatus(w)
  <2>1. /\ t \in Tasks
        /\ status[t] = "Running" \/ (status[t] = "Cancelled" /\ t \in Isolated)
    BY <1>4, Zenon DEF SetStatus, IInv, WorkerInv, Mid
  <2>2. \A x \in Tasks : Claimed(x)' <=> Claimed(x)
    BY <1>0, <1>4, ZenonT(30) DEF SetStatus, Claimed
  <2>3. ~Claimed(t)
    BY Zenon, <1>4 DEF SetStatus, IInv, Alone, Claimed
  <2>4. UNCHANGED <<Answers, completed, qtask>>
    BY <1>4, Zenon DEF SetStatus, Answers
  <2>5. CASE status[t] = "Running"
    <3>1. States' = [States EXCEPT ![t] = FinalStatus(wout[w])]
      BY <1>0, <1>4, <2>1, <2>2, <2>5, StatesExcept, Zenon DEF SetStatus, FinalStatus
    <3>2. Contract!Finish(t)
      BY <2>1, <2>3, <2>4, <2>5, <3>1, ZenonT(30) DEF Contract!Finish, States, FinalStatus
    <3> QED BY <2>1, <3>2, Zenon DEF Contract!Next
  <2>6. CASE status[t] = "Cancelled"
    <3>1. States' = States
      BY Zenon, <1>4, <2>2, <2>6 DEF SetStatus, States
    <3> QED BY Zenon, <2>4, <3>1, Stutter
  <2> QED BY Zenon, <2>1, <2>5, <2>6
<1> QED BY Zenon, <1>1, <1>2, <1>3, <1>4

(* Completion is the contract's Publish, once.                               *)
LEMMA PublishSteps ==
  ASSUME IInv, NEW t \in Tasks, SetCompleted(t), UNCHANGED <<status, qtask>>,
         States' = States, status[t] \in Terminal
  PROVE  [Contract!Next]_(Contract!vars)
<1>1. UNCHANGED Answers
  BY Zenon DEF SetCompleted, Answers, AnswerOf
<1>2. CASE completed[t]
  <2>1. UNCHANGED completed
    BY Zenon, <1>2 DEF SetCompleted, IInv, TypeOK
  <2> QED BY Zenon, <1>1, <2>1, Stutter
<1>3. CASE ~completed[t]
  <2>1. States[t] \in Contract!Outcomes
    BY Zenon DEF States, Terminal, Contract!Outcomes
  <2>2. Contract!Publish(t)
    BY Zenon, <1>1, <1>3, <2>1 DEF SetCompleted, Contract!Publish
  <2> QED BY Zenon, <2>2 DEF Contract!Next
<1> QED BY Zenon, <1>2, <1>3

(* A worker setting `completed` publishes the outcome, once and after it is *)
(* final; a second setting is a stutter.                                    *)
LEMMA SignalSteps ==
  ASSUME IInv
  PROVE  (\/ \E w \in AllWorkers : Signal(w)
          \/ \E k \in Cancels : CancelSignal(k))
         => [Contract!Next]_(Contract!vars)
<1> USE DEF record, notStatus, store, counters, worker, cancel, wait, outside,
      local, engine, Goto
<1>1. ASSUME NEW w \in AllWorkers, Signal(w)
      PROVE  [Contract!Next]_(Contract!vars)
  <2>1. wtask[w] \in Tasks /\ status[wtask[w]] \in Terminal
    BY <1>1, ZenonT(30) DEF Signal, IInv, WorkerInv, Ending
  <2>2. States' = States
    BY Zenon, <1>1, StatesSame DEF Signal, IInv, TypeOK
  <2>3. SetCompleted(wtask[w]) /\ UNCHANGED <<status, qtask>>
    BY Zenon, <1>1 DEF Signal
  <2> QED BY Zenon, <2>1, <2>2, <2>3, PublishSteps
<1>2. ASSUME NEW k \in Cancels, CancelSignal(k)
      PROVE  [Contract!Next]_(Contract!vars)
  <2>1. ktask[k] \in Tasks /\ status[ktask[k]] \in Terminal
    BY Zenon, <1>2 DEF CancelSignal, IInv, CancelInv, Terminal
  <2>2. States' = States
    BY Zenon, <1>2, StatesSame DEF CancelSignal
  <2>3. SetCompleted(ktask[k]) /\ UNCHANGED <<status, qtask>>
    BY Zenon, <1>2 DEF CancelSignal
  <2> QED BY Zenon, <2>1, <2>2, <2>3, PublishSteps
<1> QED BY Zenon, <1>1, <1>2

(* cancel_task's exchange is the contract's Cancel: never of running         *)
(* in-process work.                                                          *)
LEMMA CancelSteps ==
  ASSUME IInv, NEW k \in Cancels, NEW t \in Tasks, CancelClaim(k, t)
  PROVE  [Contract!Next]_(Contract!vars)
<1> USE DEF record, notStatus, store, counters, worker, cancel, wait, engine
<1>0. status \in [Tasks -> {"Pending", "Running"} \cup Terminal]
  BY Zenon DEF IInv, TypeOK
<1>1. UNCHANGED <<Answers, completed, qtask>>
  BY Zenon DEF CancelClaim, Answers
<1>2. \A x \in Tasks : Claimed(x)' <=> Claimed(x)
  BY Zenon DEF CancelClaim, Claimed
<1>3. CASE t \in slab /\ Cancellable(t)
  <2>1. States' = [States EXCEPT ![t] = "Cancelled"]
    BY <1>0, <1>2, <1>3, StatesExcept, Zenon DEF CancelClaim
  <2>2. Contract!Cancel(t)
    BY <1>1, <1>3, <2>1, Zenon DEF Contract!Cancel, Cancellable, States
  <2> QED BY Zenon, <2>2 DEF Contract!Next
<1>4. CASE ~(t \in slab /\ Cancellable(t))
  <2>1. States' = States
    BY Zenon, <1>2, <1>4 DEF CancelClaim, States
  <2> QED BY Zenon, <1>1, <2>1, Stutter
<1> QED BY Zenon, <1>3, <1>4

(* What result() reports is the contract's Answer.                           *)
LEMMA WaitSteps ==
  ASSUME IInv, NEW q \in Waits
  PROVE  WaitStep(q) \/ WaitTimeout(q) \/ (\E t \in Tasks : WaitStart(q, t))
         => [Contract!Next]_(Contract!vars)
<1> USE DEF record, notStatus, store, counters, worker, cancel, wait, engine
<1>0. /\ qpc \in [Waits -> WaitPC] /\ qtask \in [Waits -> Tasks \cup {NoTask}]
      /\ WaitInv(q)
  BY Zenon DEF IInv, TypeOK
<1>1. ASSUME WaitStep(q) \/ WaitTimeout(q)
      PROVE  [Contract!Next]_(Contract!vars)
  <2>1. /\ UNCHANGED <<status, wpc, wtask, completed, qtask>>
        /\ qpc[q] # "idle"
    BY <1>1, Zenon DEF WaitStep, WaitTimeout, WaitCheck, WaitStatus, WaitGet, WaitConsume
  <2>2. States' = States
    BY Zenon, <2>1, StatesSame
  <2>3. qtask[q] \in Tasks /\ qtask[q] # NoTask
    BY <1>0, <2>1, LifecycleAssumption, Zenon DEF WaitInv
  <2>4. CASE AnswerOf(qpc'[q]) = AnswerOf(qpc[q])
    <3>1. UNCHANGED Answers
      BY <1>0, <1>1, <2>4, Zenon DEF WaitStep, WaitTimeout, WaitCheck, WaitStatus,
           WaitGet, WaitConsume, Answers
    <3> QED BY Zenon, <2>1, <2>2, <3>1, Stutter
  <2>5. CASE AnswerOf(qpc'[q]) # AnswerOf(qpc[q])
    <3>1. Answers[q] = "none" /\ Answers' = [Answers EXCEPT ![q] = AnswerOf(qpc'[q])]
      BY <1>0, <1>1, <2>5, ZenonT(30) DEF WaitStep, WaitTimeout, WaitCheck, WaitStatus,
           WaitGet, WaitConsume, Answers, AnswerOf
    <3>2. \/ AnswerOf(qpc'[q]) = "nothing"
          \/ /\ States[qtask[q]] \in Contract!Outcomes
             /\ AnswerOf(qpc'[q]) = Contract!Told(States[qtask[q]])
      <4>1. CASE WaitStatus(q)
        BY Zenon, <1>0, <2>3, <2>5, <4>1 DEF IInv, TaskInv, WaitStatus, WaitInv,
             AnswerOf, States, Terminal, Contract!Outcomes, Contract!Told
      <4>2. CASE \E consume \in BOOLEAN : WaitGet(q, consume)
        BY ZenonT(40), <1>0, <2>3, <2>5, <4>2 DEF IInv, TaskInv, WaitGet, WaitInv,
             AnswerOf, States, Contract!Outcomes, Contract!Told
      <4>3. CASE WaitCheck(q) \/ WaitTimeout(q) \/ WaitConsume(q)
        BY Zenon, <1>0, <2>5, <4>3 DEF WaitCheck, WaitTimeout, WaitConsume, AnswerOf
      <4> QED BY <1>1, <4>1, <4>2, <4>3, Zenon DEF WaitStep
    <3>3. Contract!Answer(q)
      BY <2>1, <2>2, <2>3, <3>1, <3>2, Zenon DEF Contract!Answer
    <3> QED BY Zenon, <3>3 DEF Contract!Next
  <2> QED BY Zenon, <2>4, <2>5
<1>2. ASSUME NEW t \in Tasks, WaitStart(q, t)
      PROVE  [Contract!Next]_(Contract!vars)
  <2>1. UNCHANGED <<status, wpc, wtask, completed>> /\ qtask[q] = NoTask
    BY Zenon, <1>0, <1>2 DEF WaitStart, WaitInv
  <2>2. States' = States
    BY Zenon, <2>1, StatesSame
  <2>3. Answers' = [Answers EXCEPT ![q] = AnswerOf(qpc'[q])]
    BY <1>0, <1>2, Zenon DEF WaitStart, Answers
  <2>4. AnswerOf(qpc'[q]) \in {"none", "nothing"}
    BY Zenon, <1>0, <1>2 DEF WaitStart, AnswerOf
  <2>5. Contract!Ask(q, t)
    BY <1>2, <2>1, <2>2, <2>3, <2>4, ZenonT(30) DEF WaitStart, Contract!Ask
  <2> QED BY Zenon, <2>5 DEF Contract!Next
<1> QED BY Zenon, <1>1, <1>2

(* Every step of the engine's threads is a step of the contract or a        *)
(* stutter.                                                                 *)
LEMMA NextContract ==
  IInv /\ [Next]_vars => [Contract!Next]_(Contract!vars)
<1> SUFFICES ASSUME IInv, [Next]_vars PROVE [Contract!Next]_(Contract!vars)
  BY Zenon
<1>1. CASE \E S \in (SUBSET Tasks) \ {{}} : Insert(S) \/ ReturnHandles(S)
  <2>1. \E S \in SUBSET Tasks : Insert(S) \/ ReturnHandles(S)
    BY Zenon, <1>1
  <2> QED BY Zenon, <2>1, HiddenSteps
<1>2. CASE \/ \E t \in Tasks : Enqueue(t) \/ CloseStart(t) \/ CloseStep(t)
           \/ SetCancelPending
  BY Zenon, <1>2, HiddenSteps
<1>3. CASE \E w \in AllWorkers : \/ \E t \in Tasks : Receive(w, t)
                                 \/ ReleaseUnit(w) \/ ClaimStep(w)
                                 \/ RunTask(w) \/ FinishStep(w)
  BY Zenon, <1>3, HiddenSteps, StatusSteps, SignalSteps DEF ClaimStep, FinishStep
<1>4. CASE \E k \in Cancels : \/ CancelStep(k)
                              \/ \E t \in Tasks : CancelClaim(k, t)
  BY Zenon, <1>4, HiddenSteps, SignalSteps, CancelSteps DEF CancelStep
<1>5. CASE \E q \in Waits : \/ WaitStep(q) \/ WaitTimeout(q)
                            \/ \E t \in Tasks : WaitStart(q, t)
  BY Zenon, <1>5, WaitSteps
<1>6. CASE UNCHANGED vars
  <2>1. UNCHANGED <<status, wpc, wtask, qpc, completed, qtask>>
    BY Zenon, <1>6 DEF vars, record, worker, wait
  <2> QED BY <2>1, StatesSame, Stutter, Zenon DEF Answers
<1> QED BY Zenon, <1>1, <1>2, <1>3, <1>4, <1>5, <1>6 DEF Next
-----------------------------------------------------------------------------
(* Type correctness of the broker's records, counters and threads.           *)
THEOREM LifecycleTypeCorrect == Safety => []TypeOK
BY LifecycleInvariant, PTL DEF IInv

(* A reader that sees Completed or Failed finds the matching result          *)
(* (worker_loop and execute_isolated_task store it first).                   *)
THEOREM ResultAvailable == Safety => []ResultBeforeStatus
<1>1. IInv => ResultBeforeStatus
  BY ZenonT(30) DEF IInv, TaskInv, ResultBeforeStatus
<1> QED BY <1>1, LifecycleInvariant, PTL

(* A task cancelled while pending is never run (cancel_task against          *)
(* claim_pending_for_execution).                                             *)
THEOREM CancelledPendingNeverRuns == Safety => []PendingCancelSkips
<1>1. IInv => PendingCancelSkips
  BY Zenon DEF IInv, CancelInv, PendingCancelSkips, Running
<1> QED BY <1>1, LifecycleInvariant, PTL

(* A shutdown(cancel_pending=True) before the claim is always noticed        *)
(* (transition_pending_to_running's second look at the flag).                *)
THEOREM ShutdownNoticed == Safety => []ShutdownPrecedesClaim
<1>1. IInv => ShutdownPrecedesClaim
  BY Zenon DEF IInv, WorkerInv, ShutdownPrecedesClaim
<1> QED BY <1>1, LifecycleInvariant, PTL

(* free_task, autofree and consume never remove the record of live work.     *)
THEOREM LiveRecordsStay == Safety => []FreedOnlyTerminal
<1>1. IInv => FreedOnlyTerminal
  BY Zenon DEF IInv, TaskInv, FreedOnlyTerminal
<1> QED BY <1>1, LifecycleInvariant, PTL

(* A closed handle's record does not outlive its task: close() and the       *)
(* finishing worker cannot both leave it to the other.                       *)
THEOREM NoRecordLeaks == Safety => []NoLeak
<1>1. IInv => NoLeak
  BY Zenon DEF IInv, PlaceInv, IsBusy, NoLeak, Idle, Busy
<1> QED BY <1>1, LifecycleInvariant, PTL

(* The lifecycle implements the contract, for every number of tasks,         *)
(* workers and callers.                                                      *)
THEOREM ContractImplemented == Safety => ImplementsContract
BY InitContract, NextContract, LifecycleInvariant, PTL
   DEF Safety, ImplementsContract, Contract!Spec
-----------------------------------------------------------------------------
(* The statistics.  Each counter is the number of tasks in a set that the   *)
(* fields of the records and the places of the threads determine: the       *)
(* counted tasks are those with an outcome that no thread is about to       *)
(* count.                                                                   *)
NowRunning == {t \in Tasks : \E w \in AllWorkers : Running(w, t)}

CountedAs(s) ==
  {t \in With(s) : \A w \in AllWorkers : ~(wpc[w] = "count" /\ wtask[w] = t)}

CountedCancelled ==
  {t \in With("Cancelled") :
     /\ \A w \in AllWorkers : ~(wpc[w] = "record" /\ wtask[w] = t)
     /\ \A k \in Cancels : ~(kpc[k] = "record" /\ ktask[k] = t)}

CountInv ==
  /\ task_count = Cardinality(slab)
  /\ running_count = Cardinality(NowRunning)
  /\ completed_count = Cardinality(CountedAs("Completed"))
  /\ failed_count = Cardinality(CountedAs("Failed"))
  /\ cancelled_count = Cardinality(CountedCancelled)

(* One thread records a cancellation: the cancel() call that won it, or the  *)
(* worker that noticed the shutdown, never two; and a task is completed by   *)
(* whoever holds it last.                                                    *)
Won(k)  == kpc[k] \notin {"idle", "false"}
Holding == Mid \cup {"count", "record"}

Unstored == \A t \in Tasks : hpc[t] = "new" => t \notin slab

OneWinner ==
  \A k, l \in Cancels : k # l /\ Won(k) /\ Won(l) => ktask[k] # ktask[l]

WinnerInv(k) ==
  Won(k) =>
    /\ kran[k] => ktask[k] \in Isolated
    /\ kpc[k] = "signal" => ~kran[k]
    /\ kpc[k] # "true" /\ ~kran[k] => ~completed[ktask[k]]
    /\ \A w \in AllWorkers : wtask[w] = ktask[k] =>
         wpc[w] # "record" /\ (wpc[w] = "signal" => kran[k])

HolderInv(w) == wpc[w] \in Holding => ~completed[wtask[w]]

(* An outcome that is not published yet is in somebody's hands.              *)
InHands(t) ==
  \E w \in AllWorkers : wpc[w] \in Holding \cup {"signal"} /\ wtask[w] = t
InCancel(t) ==
  \E k \in Cancels : kpc[k] \in {"record", "result", "signal"} /\ ktask[k] = t

Unpublished ==
  /\ \A t \in Tasks : status[t] \in Terminal /\ ~completed[t]
                      => InHands(t) \/ InCancel(t)
  /\ \A k \in Cancels : Won(k) /\ kran[k]
                      => completed[ktask[k]] \/ InHands(ktask[k])

RecordInv ==
  /\ Unstored /\ OneWinner
  /\ \A k \in Cancels : WinnerInv(k)
  /\ \A w \in AllWorkers : HolderInv(w)
  /\ Unpublished

SInv == IInv /\ RecordInv /\ CountInv

(* Sets of tasks are finite, and one task more or less is one more or less.  *)
LEMMA TaskSets ==
  ASSUME NEW S \in SUBSET Tasks
  PROVE  /\ IsFiniteSet(S) /\ Cardinality(S) \in Nat
         /\ \A t \in Tasks \ S : Cardinality(S \cup {t}) = Cardinality(S) + 1
         /\ \A t \in S : Cardinality(S \ {t}) = Cardinality(S) - 1
<1>1. IsFiniteSet(S) /\ Cardinality(S) \in Nat
  BY Zenon, LifecycleAssumption, FS_Subset, FS_CardinalityType
<1>2. ASSUME NEW t \in Tasks \ S PROVE Cardinality(S \cup {t}) = Cardinality(S) + 1
  BY Zenon, <1>1, <1>2, FS_AddElement
<1>3. ASSUME NEW t \in S PROVE Cardinality(S \ {t}) = Cardinality(S) - 1
  BY Zenon, <1>1, <1>3, FS_RemoveElement
<1> QED BY Zenon, <1>1, <1>2, <1>3

(* Where no thread starts or stops counting, the counted sets stay.          *)
LEMMA CountFrame ==
  ASSUME SInv, UNCHANGED <<store, counters, status, wpc, wtask, kpc, ktask>>
  PROVE  CountInv'
BY Zenon DEF SInv, CountInv, NowRunning, Running, CountedAs, CountedCancelled, With,
       store, counters

(* Frame for RecordInv: no worker and no cancel() call moves, nothing is     *)
(* completed; what is left is that records are stored when they are made.    *)
LEMMA RecordFrame ==
  ASSUME SInv, Unstored',
         UNCHANGED <<kpc, ktask, kran, completed, status, wpc, wtask>>
  PROVE  RecordInv'
BY ZenonT(30) DEF SInv, RecordInv, OneWinner, WinnerInv, HolderInv, Unpublished, InHands,
       InCancel, Won

(* CountInv from the sets of the next state.                                 *)
LEMMA CountSame ==
  ASSUME SInv, UNCHANGED <<store, counters>>,
         NowRunning' = NowRunning,
         CountedAs("Completed")' = CountedAs("Completed"),
         CountedAs("Failed")' = CountedAs("Failed"),
         CountedCancelled' = CountedCancelled
  PROVE  CountInv'
BY Zenon DEF SInv, CountInv, store, counters

(* free_task counts a record exactly when it removes it.                     *)
LEMMA FreeExact ==
  ASSUME SInv, NEW t \in Tasks, FreeTask(t)
  PROVE  task_count' = Cardinality(slab')
<1>1. slab \in SUBSET Tasks /\ task_count = Cardinality(slab)
  BY Zenon DEF SInv, IInv, TypeOK, CountInv
<1>2. CASE t \in slab
  BY Zenon, <1>1, <1>2, TaskSets DEF FreeTask
<1>3. CASE t \notin slab
  <2>1. slab \ {t} = slab
    BY Zenon, <1>3
  <2> QED BY Zenon, <1>1, <1>3, <2>1 DEF FreeTask
<1> QED BY Zenon, <1>2, <1>3

(* The other counters in a step that only frees.                             *)
LEMMA FreeFrame ==
  ASSUME SInv, task_count' = Cardinality(slab'),
         UNCHANGED <<counters, status, wpc, wtask, kpc, ktask>>
  PROVE  CountInv'
BY Zenon DEF SInv, CountInv, NowRunning, Running, CountedAs, CountedCancelled, With,
       counters

(* A caller's step that leaves records, counters and the other threads       *)
(* alone.                                                                    *)
LEMMA QuietCall ==
  ASSUME SInv, \A t \in Tasks : hpc'[t] = "new" => hpc[t] = "new",
         UNCHANGED <<store, counters, status, completed, wpc, wtask, kpc, ktask, kran>>
  PROVE  RecordInv' /\ CountInv'
<1>1. Unstored'
  BY Zenon DEF SInv, RecordInv, Unstored, store
<1> QED BY Zenon, <1>1, RecordFrame, CountFrame

(* A caller's step that frees a record.                                      *)
LEMMA FreeCall ==
  ASSUME SInv, NEW t \in Tasks, FreeTask(t),
         \A x \in Tasks : hpc'[x] = "new" => hpc[x] = "new",
         UNCHANGED <<counters, status, completed, wpc, wtask, kpc, ktask, kran>>
  PROVE  RecordInv' /\ CountInv'
<1>1. Unstored'
  BY Zenon DEF SInv, RecordInv, Unstored, FreeTask
<1>2. task_count' = Cardinality(slab')
  BY Zenon, FreeExact
<1> QED BY Zenon, <1>1, <1>2, RecordFrame, FreeFrame

(* Submission stores every record once.                                      *)
LEMMA SubmitCounts ==
  ASSUME SInv
  PROVE  (\/ \E S \in SUBSET Tasks : Insert(S)
          \/ \E t \in Tasks : Enqueue(t)
          \/ \E S \in SUBSET Tasks : ReturnHandles(S)
          \/ SetCancelPending)
         => RecordInv' /\ CountInv'
<1>0. hpc \in [Tasks -> HandlePC]
  BY Zenon DEF SInv, IInv, TypeOK
<1>1. ASSUME NEW S \in SUBSET Tasks, Insert(S) PROVE RecordInv' /\ CountInv'
  <2>1. /\ slab' = slab \cup S /\ task_count' = task_count + Cardinality(S)
        /\ \A t \in S : hpc[t] = "new" /\ hpc'[t] = "inserted"
        /\ \A t \in Tasks \ S : hpc'[t] = hpc[t]
        /\ UNCHANGED <<counters, status, completed, wpc, wtask, kpc, ktask, kran>>
    BY Zenon, <1>1 DEF Insert, record, engine, worker, cancel
  <2>2. Unstored'
    BY Zenon, <2>1 DEF SInv, RecordInv, Unstored
  <2>3. RecordInv'
    BY Zenon, <2>1, <2>2, RecordFrame
  <2>4. task_count' = Cardinality(slab')
    <3>1. slab \cap S = {}
      BY Zenon, <2>1 DEF SInv, RecordInv, Unstored
    <3>2. IsFiniteSet(S) /\ IsFiniteSet(slab)
      BY Zenon, TaskSets DEF SInv, IInv, TypeOK
    <3>3. Cardinality(slab \cup S)
            = Cardinality(slab) + Cardinality(S) - Cardinality(slab \cap S)
      BY Zenon, <3>2, FS_Union
    <3>4. Cardinality(slab \cap S) = 0
      BY Zenon, <3>1, FS_EmptySet
    <3>5. Cardinality(slab) \in Nat /\ Cardinality(S) \in Nat
      BY Zenon, <3>2, FS_CardinalityType
    <3>6. task_count = Cardinality(slab)
      BY Zenon DEF SInv, CountInv
    <3> QED BY SMT, Z3, <2>1, <3>3, <3>4, <3>5, <3>6
  <2> QED BY Zenon, <2>1, <2>3, <2>4, FreeFrame
<1>2. ASSUME NEW t \in Tasks, Enqueue(t) PROVE RecordInv' /\ CountInv'
  BY Zenon, <1>0, <1>2, QuietCall DEF Enqueue, record, worker, cancel
<1>3. ASSUME NEW S \in SUBSET Tasks, ReturnHandles(S) PROVE RecordInv' /\ CountInv'
  BY Zenon, <1>3, QuietCall DEF ReturnHandles, record, engine, worker, cancel
<1>4. CASE SetCancelPending
  BY Zenon, <1>4, QuietCall DEF SetCancelPending, record, worker, cancel
<1> QED BY Zenon, <1>1, <1>2, <1>3, <1>4

(* What a worker that holds a task may rely on, for the statistics.          *)
LEMMA HolderFacts ==
  ASSUME SInv, NEW w \in AllWorkers, wpc[w] # "idle"
  PROVE  /\ wtask[w] \in Tasks
         /\ wpc \in [AllWorkers -> WorkerPC]
         /\ status \in [Tasks -> {"Pending", "Running"} \cup Terminal]
         /\ completed \in [Tasks -> BOOLEAN]
         /\ \A v \in AllWorkers : v # w /\ wpc[v] # "idle" => wtask[v] # wtask[w]
         /\ completed[wtask[w]] => status[wtask[w]] \in Terminal
         /\ Unstored /\ OneWinner /\ Unpublished
         /\ \A x \in Cancels : WinnerInv(x)
         /\ \A x \in Cancels : Won(x) =>
              ktask[x] \in Tasks /\ status[ktask[x]] = "Cancelled"
         /\ \A v \in AllWorkers : HolderInv(v)
<1>1. TypeOK /\ WorkerInv(w) /\ Alone /\ \A t \in Tasks : TaskInv(t)
  BY Zenon DEF SInv, IInv
<1>2. /\ Unstored /\ OneWinner /\ Unpublished
      /\ \A x \in Cancels : WinnerInv(x)
      /\ \A v \in AllWorkers : HolderInv(v)
  BY Zenon DEF SInv, RecordInv
<1>3. \A x \in Cancels : Won(x) =>
        ktask[x] \in Tasks /\ status[ktask[x]] = "Cancelled"
  BY Zenon DEF SInv, IInv, CancelInv, Won
<1>4. wtask[w] \in Tasks /\ (completed[wtask[w]] => status[wtask[w]] \in Terminal)
  BY Zenon, <1>1 DEF WorkerInv, TaskInv
<1>5. \A v \in AllWorkers : v # w /\ wpc[v] # "idle" => wtask[v] # wtask[w]
  BY Zenon, <1>1 DEF Alone
<1>6. /\ wpc \in [AllWorkers -> WorkerPC]
      /\ status \in [Tasks -> {"Pending", "Running"} \cup Terminal]
      /\ completed \in [Tasks -> BOOLEAN]
  BY Zenon, <1>1 DEF TypeOK
<1> QED BY Zenon, <1>2, <1>3, <1>4, <1>5, <1>6

RunningPC == {"exec", "store", "status", "count"}

(* A worker moves on between two places that count alike: the records and    *)
(* the statistics stay as they are.                                          *)
LEMMA QuietMove ==
  ASSUME SInv, NEW w \in AllWorkers, NEW q,
         wpc' = [wpc EXCEPT ![w] = q],
         \A v \in AllWorkers : v # w \/ wpc[w] # "idle" => wtask'[v] = wtask[v],
         (wpc[w] \in Holding) <=> (q \in Holding),
         (wpc[w] \in RunningPC) <=> (q \in RunningPC),
         wpc[w] \notin {"count", "record", "signal"},
         q \notin {"count", "record", "signal"},
         UNCHANGED <<store, counters, status, completed, hpc, kpc, ktask, kran>>
  PROVE  RecordInv' /\ CountInv'
<1>1. wpc \in [AllWorkers -> WorkerPC]
  BY Zenon DEF SInv, IInv, TypeOK
<1>2. \A v \in AllWorkers :
        /\ (wpc[v] \in Holding) <=> (wpc'[v] \in Holding)
        /\ (wpc[v] \in RunningPC) <=> (wpc'[v] \in RunningPC)
        /\ \A z \in {"count", "record", "signal"} : (wpc[v] = z) <=> (wpc'[v] = z)
        /\ wpc[v] \in Holding \cup RunningPC \cup {"count", "record", "signal"}
             => wtask'[v] = wtask[v]
  <2> SUFFICES ASSUME NEW v \in AllWorkers
               PROVE  /\ (wpc[v] \in Holding) <=> (wpc'[v] \in Holding)
                      /\ (wpc[v] \in RunningPC) <=> (wpc'[v] \in RunningPC)
                      /\ \A z \in {"count", "record", "signal"} :
                           (wpc[v] = z) <=> (wpc'[v] = z)
                      /\ wpc[v] \in Holding \cup RunningPC
                                    \cup {"count", "record", "signal"}
                           => wtask'[v] = wtask[v]
    BY Zenon
  <2>1. CASE v = w
    <3>1. wpc'[w] = q
      BY Zenon, <1>1
    <3>2. "idle" \notin Holding \cup RunningPC \cup {"count", "record", "signal"}
      BY Zenon DEF Holding, Mid, RunningPC
    <3> QED BY Zenon, <2>1, <3>1, <3>2
  <2>2. CASE v # w
    BY Zenon, <1>1, <2>2
  <2> QED BY Zenon, <2>1, <2>2
<1>3. /\ Unstored /\ OneWinner /\ Unpublished
      /\ \A x \in Cancels : WinnerInv(x)
      /\ \A v \in AllWorkers : HolderInv(v)
  BY Zenon DEF SInv, RecordInv
<1>4. Unstored' /\ OneWinner'
  BY ZenonT(40), <1>3 DEF Unstored, OneWinner, Won, store
<1>5. ASSUME NEW x \in Cancels PROVE WinnerInv(x)'
  BY SMT, Z3, <1>2, <1>3 DEF WinnerInv, Won
<1>6. ASSUME NEW v \in AllWorkers PROVE HolderInv(v)'
  BY Zenon, <1>2, <1>3 DEF HolderInv
<1>7. \A t : InHands(t)' <=> InHands(t)
  BY Zenon, <1>2 DEF InHands
<1>8. Unpublished'
  BY Zenon, <1>3, <1>7 DEF Unpublished, InCancel, Won
<1>9. NowRunning' = NowRunning
  BY ZenonT(40), <1>2 DEF NowRunning, Running, RunningPC
<1>10. /\ CountedAs("Completed")' = CountedAs("Completed")
       /\ CountedAs("Failed")' = CountedAs("Failed")
  BY SMT, Z3, <1>2 DEF CountedAs, With
<1>11. CountedCancelled' = CountedCancelled
  BY SMT, Z3, <1>2 DEF CountedCancelled, With
<1>12. CountInv'
  BY Zenon, <1>9, <1>10, <1>11, CountSame
<1> QED BY Zenon, <1>4, <1>5, <1>6, <1>8, <1>12 DEF RecordInv

(* A worker that holds a task sets its status, without publishing anything.  *)
LEMMA StatusMove ==
  ASSUME SInv, NEW w \in AllWorkers, wpc[w] # "idle", NEW q, NEW s,
         wpc[w] \notin {"count", "record", "signal"}, ~completed[wtask[w]],
         wpc' = [wpc EXCEPT ![w] = q], q \in Holding,
         status' = [status EXCEPT ![wtask[w]] = s],
         status[wtask[w]] \in {"Pending", "Running"},
         s = "Cancelled" => q = "record",
         q = "record" => s = "Cancelled",
         s \in {"Completed", "Failed"} => q = "count",
         q \in RunningPC <=> wpc[w] \in RunningPC,
         UNCHANGED <<store, counters, completed, hpc, wtask, kpc, ktask, kran>>
  PROVE  RecordInv' /\ CountInv'
<1> DEFINE t == wtask[w]
<1>1. /\ t \in Tasks /\ wpc \in [AllWorkers -> WorkerPC]
      /\ status \in [Tasks -> {"Pending", "Running"} \cup Terminal]
      /\ \A v \in AllWorkers : v # w /\ wpc[v] # "idle" => wtask[v] # t
      /\ Unstored /\ OneWinner /\ Unpublished
      /\ \A x \in Cancels : WinnerInv(x)
      /\ \A x \in Cancels : Won(x) =>
           ktask[x] \in Tasks /\ status[ktask[x]] = "Cancelled"
      /\ \A v \in AllWorkers : HolderInv(v)
  BY Zenon, HolderFacts
<1>2. /\ wpc'[w] = q /\ \A v \in AllWorkers : v # w => wpc'[v] = wpc[v]
      /\ status'[t] = s /\ \A x \in Tasks : x # t => status'[x] = status[x]
  BY Zenon, <1>1
<1>3. \A x \in Cancels : Won(x) => ktask[x] # t
  BY Zenon, <1>1
<1>4. q # "signal" /\ q # "idle"
  BY Zenon DEF Holding, Mid
<1>5. Unstored' /\ OneWinner'
  BY Zenon, <1>1 DEF Unstored, OneWinner, Won, store
<1> HIDE DEF t
<1>6. ASSUME NEW x \in Cancels PROVE WinnerInv(x)'
  <2>1. CASE ~Won(x)
    BY Zenon, <2>1 DEF WinnerInv, Won
  <2>2. CASE Won(x)
    <3>1. WinnerInv(x) /\ ktask[x] # t
      BY Zenon, <1>1, <1>3, <2>2
    <3>2. \A v \in AllWorkers : wtask[v] = ktask[x] => wpc'[v] = wpc[v]
      BY Zenon, <1>2, <3>1 DEF t
    <3> QED BY Zenon, <3>1, <3>2 DEF WinnerInv, Won
  <2> QED BY Zenon, <2>1, <2>2
<1>7. ASSUME NEW v \in AllWorkers PROVE HolderInv(v)'
  BY Zenon, <1>1, <1>2 DEF HolderInv, t
<1>8. \A x \in Tasks : InHands(x) => InHands(x)'
  BY Zenon, <1>2 DEF InHands
<1>9. \A x : x = t => InHands(x)'
  BY Zenon, <1>2 DEF InHands, t
<1>10. Unpublished'
  <2>1. ASSUME NEW x \in Tasks, status'[x] \in Terminal, ~completed[x]
        PROVE  InHands(x)' \/ InCancel(x)'
    <3>1. CASE x = t
      BY ZenonT(40), <1>9, <3>1
    <3>2. CASE x # t
      BY SMT, Z3, <1>1, <1>2, <1>8, <2>1, <3>2 DEF Unpublished, InCancel
    <3> QED BY Zenon, <3>1, <3>2
  <2>2. ASSUME NEW x \in Cancels, Won(x), kran[x]
        PROVE  completed[ktask[x]] \/ InHands(ktask[x])'
    BY ZenonT(40), <1>1, <1>8, <2>2 DEF Unpublished
  <2> QED BY Zenon, <2>1, <2>2 DEF Unpublished, Won
<1>11. NowRunning' = NowRunning
  BY SMT, Z3, <1>2 DEF NowRunning, Running, RunningPC
<1>12. ASSUME NEW z \in {"Completed", "Failed"} PROVE CountedAs(z)' = CountedAs(z)
  <2>1. \A x \in Tasks : x \in CountedAs(z)' <=> x \in CountedAs(z)
    <3> SUFFICES ASSUME NEW x \in Tasks PROVE x \in CountedAs(z)' <=> x \in CountedAs(z)
      BY Zenon
    <3>1. CASE x = t
      <4>1. x \notin CountedAs(z)
        BY Zenon, <1>1, <3>1 DEF CountedAs, With, t
      <4>2. x \notin CountedAs(z)'
        BY Zenon, <1>2, <3>1 DEF CountedAs, With, t
      <4> QED BY Zenon, <4>1, <4>2
    <3>2. CASE x # t
      BY Zenon, <1>2, <3>2 DEF CountedAs, With, t
    <3> QED BY Zenon, <3>1, <3>2
  <2> QED BY Zenon, <2>1 DEF CountedAs, With
<1>13. CountedCancelled' = CountedCancelled
  <2>1. \A x \in Tasks : x \in CountedCancelled' <=> x \in CountedCancelled
    <3> SUFFICES ASSUME NEW x \in Tasks
                 PROVE  x \in CountedCancelled' <=> x \in CountedCancelled
      BY Zenon
    <3>1. CASE x = t
      <4>1. x \notin CountedCancelled
        BY Zenon, <1>1, <3>1 DEF CountedCancelled, With, t
      <4>2. x \notin CountedCancelled'
        BY Zenon, <1>2, <3>1 DEF CountedCancelled, With, t
      <4> QED BY Zenon, <4>1, <4>2
    <3>2. CASE x # t
      BY SMT, Z3, <1>2, <3>2 DEF CountedCancelled, With, t
    <3> QED BY Zenon, <3>1, <3>2
  <2> QED BY Zenon, <2>1 DEF CountedCancelled, With
<1>14. CountInv'
  BY Zenon, <1>11, <1>12, <1>13, CountSame
<1> QED BY Zenon, <1>5, <1>6, <1>7, <1>10, <1>14 DEF RecordInv

(* A worker that starts a task counts it as running.                          *)
LEMMA ClaimCounts ==
  ASSUME SInv, NEW w \in AllWorkers
  PROVE  (\/ \E t \in Tasks : Receive(w, t)
          \/ ReleaseUnit(w) \/ Lookup(w) \/ ShutdownCheck(w)
          \/ CancelledCheck(w) \/ Claim(w) \/ ShutdownRecheck(w))
         => RecordInv' /\ CountInv'
<1>0. wtask \in [AllWorkers -> Tasks \cup {NoTask}]
  BY Zenon DEF SInv, IInv, TypeOK
<1>1. ASSUME NEW t \in Tasks, Receive(w, t) PROVE RecordInv' /\ CountInv'
  <2>1. /\ wpc[w] = "idle" /\ wpc' = [wpc EXCEPT ![w] = "received"]
        /\ \A v \in AllWorkers : v # w => wtask'[v] = wtask[v]
        /\ UNCHANGED <<store, counters, status, completed, hpc, kpc, ktask, kran>>
    BY Zenon, <1>0, <1>1 DEF Receive, record,
           notStatus, outside, local, worker, cancel, Goto
  <2> QED BY <2>1, QuietMove, Zenon DEF Holding, Mid, RunningPC
<1>2. ASSUME ReleaseUnit(w) \/ Lookup(w) \/ CancelledCheck(w)
      PROVE  RecordInv' /\ CountInv'
  <2>1. /\ wpc[w] \in Early
        /\ \E q \in Early \cup {"idle", "autofree"} : wpc' = [wpc EXCEPT ![w] = q]
        /\ UNCHANGED <<store, counters, status, completed, hpc, wtask, kpc, ktask,
                       kran>>
    BY Zenon, <1>2 DEF ReleaseUnit, Lookup, CancelledCheck, record, Early,
           notStatus, outside, local, worker, cancel, Goto
  <2> QED BY <2>1, QuietMove, Zenon DEF Holding, Mid, RunningPC, Early
<1>3. ASSUME ShutdownCheck(w) \/ Claim(w) PROVE RecordInv' /\ CountInv'
  <2> DEFINE t == wtask[w]
  <2>1. /\ wpc[w] \in {"shutdown", "claim"}
        /\ UNCHANGED <<store, counters, completed, hpc, wtask, kpc, ktask, kran>>
        /\ \/ /\ status' = status
              /\ \E q \in {"check", "autofree"} : wpc' = [wpc EXCEPT ![w] = q]
           \/ /\ status[t] = "Pending" /\ status' = [status EXCEPT ![t] = "Cancelled"]
              /\ wpc' = [wpc EXCEPT ![w] = "record"]
           \/ /\ status[t] = "Pending" /\ status' = [status EXCEPT ![t] = "Running"]
              /\ wpc' = [wpc EXCEPT ![w] = "recheck"]
    BY Zenon, <1>3 DEF ShutdownCheck, Claim,
           notStatus, outside, local, worker, cancel, Goto
  <2>2. status[t] = "Pending" => ~completed[t]
    BY Zenon, <2>1, HolderFacts DEF Terminal
  <2>3. CASE status' = status /\ \E q \in {"check", "autofree"} :
                                   wpc' = [wpc EXCEPT ![w] = q]
    BY <2>1, <2>3, QuietMove, Zenon DEF Holding, Mid, RunningPC
  <2>4. CASE /\ status[t] = "Pending" /\ status' = [status EXCEPT ![t] = "Cancelled"]
             /\ wpc' = [wpc EXCEPT ![w] = "record"]
    BY <2>1, <2>2, <2>4, StatusMove, Zenon DEF Holding, Mid, RunningPC
  <2>5. CASE /\ status[t] = "Pending" /\ status' = [status EXCEPT ![t] = "Running"]
             /\ wpc' = [wpc EXCEPT ![w] = "recheck"]
    BY <2>1, <2>2, <2>5, StatusMove, Zenon DEF Holding, Mid, RunningPC
  <2> QED BY Zenon, <2>1, <2>3, <2>4, <2>5
<1>4. ASSUME ShutdownRecheck(w) PROVE RecordInv' /\ CountInv'
  <2> DEFINE t == wtask[w]
  <2>1. /\ wpc[w] = "recheck"
        /\ UNCHANGED <<store, completed, hpc, wtask, kpc, ktask, kran,
                       completed_count, failed_count, cancelled_count>>
    BY Zenon, <1>4 DEF ShutdownRecheck, notStatus, outside, local, cancel, Goto
  <2>2. /\ t \in Tasks /\ wpc \in [AllWorkers -> WorkerPC] /\ ~completed[t]
        /\ \A v \in AllWorkers : v # w /\ wpc[v] # "idle" => wtask[v] # t
    BY Zenon, <2>1, HolderFacts DEF HolderInv, Holding, Mid
  <2>3. CASE cancelPending /\ status[t] = "Running"
    <3>1. /\ status' = [status EXCEPT ![t] = "Cancelled"]
          /\ wpc' = [wpc EXCEPT ![w] = "record"] /\ UNCHANGED counters
      BY Zenon, <1>4, <2>3 DEF ShutdownRecheck, counters, notStatus, outside, local, cancel, Goto
    <3> QED BY <2>1, <2>2, <2>3, <3>1, StatusMove, Zenon DEF Holding, Mid, RunningPC
  <2>4. CASE ~(cancelPending /\ status[t] = "Running")
    <3>1. /\ status' = status /\ wpc' = [wpc EXCEPT ![w] = "exec"]
          /\ running_count' = running_count + 1
      BY <1>4, <2>4, Zenon DEF ShutdownRecheck, notStatus, outside, local, cancel, Goto
    <3>2. /\ Unstored /\ OneWinner /\ Unpublished
          /\ \A x \in Cancels : WinnerInv(x)
          /\ \A v \in AllWorkers : HolderInv(v)
      BY Zenon DEF SInv, RecordInv
    <3>3. /\ wpc'[w] = "exec" /\ \A v \in AllWorkers : v # w => wpc'[v] = wpc[v]
      BY Zenon, <2>2, <3>1
    <3>4. Unstored' /\ OneWinner'
      BY Zenon, <2>1, <3>2 DEF Unstored, OneWinner, Won, store
    <3>5. ASSUME NEW x \in Cancels PROVE WinnerInv(x)'
      BY Zenon, <2>1, <3>2, <3>3 DEF WinnerInv, Won
    <3>6. ASSUME NEW v \in AllWorkers PROVE HolderInv(v)'
      BY Zenon, <2>1, <2>2, <3>2, <3>3 DEF HolderInv
    <3>7. \A x : InHands(x)' <=> InHands(x)
      BY Zenon, <2>1, <3>3 DEF InHands, Holding, Mid
    <3>8. Unpublished'
      BY Zenon, <2>1, <3>1, <3>2, <3>7 DEF Unpublished, InCancel, Won
    <3>9. NowRunning' = NowRunning \cup {t} /\ t \notin NowRunning
      BY Zenon, <2>1, <2>2, <3>3 DEF NowRunning, Running
    <3>10. running_count' = Cardinality(NowRunning')
      <4>1. NowRunning \in SUBSET Tasks /\ running_count = Cardinality(NowRunning)
        BY Zenon DEF NowRunning, SInv, CountInv
      <4> QED BY Zenon, <2>2, <3>1, <3>9, <4>1, TaskSets
    <3>11. /\ CountedAs("Completed")' = CountedAs("Completed")
           /\ CountedAs("Failed")' = CountedAs("Failed")
      BY Zenon, <2>1, <3>1, <3>3 DEF CountedAs, With
    <3>12. CountedCancelled' = CountedCancelled
      BY Zenon, <2>1, <3>1, <3>3 DEF CountedCancelled, With
    <3>13. CountInv'
      BY Zenon, <2>1, <3>10, <3>11, <3>12 DEF SInv, CountInv, store
    <3> QED BY Zenon, <3>4, <3>5, <3>6, <3>8, <3>13 DEF RecordInv
  <2> QED BY Zenon, <2>3, <2>4
<1> QED BY Zenon, <1>1, <1>2, <1>3, <1>4

(* Whoever ends a task counts its outcome before it is published.            *)
LEMMA FinishCounts ==
  ASSUME SInv, NEW w \in AllWorkers
  PROVE  (\/ RecordShutdown(w)
          \/ \E out \in {"ok", "err"} : Execute(w, out)
          \/ StoreResult(w) \/ SetStatus(w) \/ CountCompletion(w)
          \/ Signal(w) \/ AutoFree(w))
         => RecordInv' /\ CountInv'
<1> DEFINE t == wtask[w]
<1>1. CASE RecordShutdown(w)
  <2>1. /\ wpc[w] = "record" /\ wpc' = [wpc EXCEPT ![w] = "signal"]
        /\ cancelled_count' = cancelled_count + 1
        /\ UNCHANGED <<store, status, completed, hpc, wtask, kpc, ktask, kran,
                       running_count, completed_count, failed_count>>
    BY Zenon, <1>1 DEF RecordShutdown, outside, local, cancel, Goto
  <2>2. /\ t \in Tasks /\ wpc \in [AllWorkers -> WorkerPC]
        /\ \A v \in AllWorkers : v # w /\ wpc[v] # "idle" => wtask[v] # t
        /\ Unstored /\ OneWinner /\ Unpublished
        /\ \A x \in Cancels : WinnerInv(x)
        /\ \A v \in AllWorkers : HolderInv(v)
    BY Zenon, <2>1, HolderFacts
  <2>3. status[t] = "Cancelled"
    BY Zenon, <2>1 DEF SInv, IInv, WorkerInv
  <2>4. wpc'[w] = "signal" /\ \A v \in AllWorkers : v # w => wpc'[v] = wpc[v]
    BY Zenon, <2>1, <2>2
  <2>5. \A x \in Cancels : Won(x) => ktask[x] # t
    BY Zenon, <2>1, <2>2 DEF WinnerInv
  <2>6. Unstored' /\ OneWinner'
    BY Zenon, <2>1, <2>2 DEF Unstored, OneWinner, Won, store
  <2>7. ASSUME NEW x \in Cancels PROVE WinnerInv(x)'
    BY Zenon, <2>1, <2>2, <2>4, <2>5 DEF WinnerInv, Won
  <2>8. ASSUME NEW v \in AllWorkers PROVE HolderInv(v)'
    BY Zenon, <2>1, <2>2, <2>4 DEF HolderInv, Holding, Mid
  <2>9. \A x : InHands(x)' <=> InHands(x)
    BY Zenon, <2>1, <2>4 DEF InHands, Holding
  <2>10. Unpublished'
    BY Zenon, <2>1, <2>2, <2>9 DEF Unpublished, InCancel, Won
  <2>11. NowRunning' = NowRunning
    BY Zenon, <2>1, <2>4 DEF NowRunning, Running
  <2>12. /\ CountedAs("Completed")' = CountedAs("Completed")
         /\ CountedAs("Failed")' = CountedAs("Failed")
    BY ZenonT(40), <2>1, <2>4 DEF CountedAs, With
  <2>13. CountedCancelled' = CountedCancelled \cup {t} /\ t \notin CountedCancelled
    <3>1. t \notin CountedCancelled
      BY Zenon, <2>1 DEF CountedCancelled
    <3>2. t \in CountedCancelled'
      BY Zenon, <2>1, <2>2, <2>3, <2>4, <2>5 DEF CountedCancelled, With, Won
    <3>3. \A x \in Tasks : x # t => (x \in CountedCancelled' <=> x \in CountedCancelled)
      BY ZenonT(40), <2>1, <2>4 DEF CountedCancelled, With
    <3> QED BY SMT, Z3, <2>2, <3>1, <3>2, <3>3 DEF CountedCancelled, With
  <2>14. cancelled_count' = Cardinality(CountedCancelled')
    <3>1. /\ CountedCancelled \in SUBSET Tasks
          /\ cancelled_count = Cardinality(CountedCancelled)
      BY Zenon DEF CountedCancelled, With, SInv, CountInv
    <3> QED BY Zenon, <2>1, <2>2, <2>13, <3>1, TaskSets
  <2>15. CountInv'
    BY Zenon, <2>1, <2>11, <2>12, <2>14 DEF SInv, CountInv, store
  <2> QED BY Zenon, <2>6, <2>7, <2>8, <2>10, <2>15 DEF RecordInv
<1>2. ASSUME StoreResult(w) \/ \E out \in {"ok", "err"} : Execute(w, out)
      PROVE  RecordInv' /\ CountInv'
  <2>1. /\ wpc[w] \in {"exec", "store"}
        /\ \E q \in {"store", "status"} : wpc' = [wpc EXCEPT ![w] = q]
        /\ UNCHANGED <<store, counters, status, completed, hpc, wtask, kpc, ktask,
                       kran>>
    BY Zenon, <1>2 DEF StoreResult, Execute, record, notStatus, outside, local, cancel, Goto
  <2> QED BY <2>1, QuietMove, Zenon DEF Holding, Mid, RunningPC
<1>3. CASE SetStatus(w)
  <2>1. /\ wpc[w] = "status" /\ wpc' = [wpc EXCEPT ![w] = "count"]
        /\ status' = IF status[t] = "Cancelled" THEN status
                     ELSE [status EXCEPT ![t] = FinalStatus(wout[w])]
        /\ UNCHANGED <<store, counters, completed, hpc, wtask, kpc, ktask, kran>>
    BY Zenon, <1>3 DEF SetStatus, notStatus, outside, local, cancel, Goto
  <2>2. /\ t \in Tasks /\ wpc \in [AllWorkers -> WorkerPC] /\ ~completed[t]
        /\ Unstored /\ OneWinner /\ Unpublished
        /\ \A x \in Cancels : WinnerInv(x)
        /\ \A v \in AllWorkers : HolderInv(v)
    BY Zenon, <2>1, HolderFacts DEF HolderInv, Holding, Mid
  <2>3. status[t] \in {"Running", "Cancelled"}
    BY Zenon, <2>1 DEF SInv, IInv, WorkerInv, Mid
  <2>4. CASE status[t] = "Running"
    <3>1. FinalStatus(wout[w]) \in {"Completed", "Failed"}
      BY Zenon DEF FinalStatus
    <3>2. status' = [status EXCEPT ![t] = FinalStatus(wout[w])]
      BY Zenon, <2>1, <2>4
    <3> QED BY <2>1, <2>2, <2>4, <3>1, <3>2, StatusMove, Zenon DEF Holding, Mid, RunningPC
  <2>5. CASE status[t] = "Cancelled"
    <3>1. status' = status
      BY Zenon, <2>1, <2>5
    <3>2. wpc'[w] = "count" /\ \A v \in AllWorkers : v # w => wpc'[v] = wpc[v]
      BY Zenon, <2>1, <2>2
    <3>3. Unstored' /\ OneWinner'
      BY Zenon, <2>1, <2>2 DEF Unstored, OneWinner, Won, store
    <3>4. ASSUME NEW x \in Cancels PROVE WinnerInv(x)'
      BY Zenon, <2>1, <2>2, <3>2 DEF WinnerInv, Won
    <3>5. ASSUME NEW v \in AllWorkers PROVE HolderInv(v)'
      BY Zenon, <2>1, <2>2, <3>2 DEF HolderInv
    <3>6. \A x : InHands(x)' <=> InHands(x)
      BY Zenon, <2>1, <3>2 DEF InHands, Holding, Mid
    <3>7. Unpublished'
      BY Zenon, <2>1, <2>2, <3>1, <3>6 DEF Unpublished, InCancel, Won
    <3>8. NowRunning' = NowRunning
      BY ZenonT(40), <2>1, <3>2 DEF NowRunning, Running
    <3>9. /\ CountedAs("Completed")' = CountedAs("Completed")
          /\ CountedAs("Failed")' = CountedAs("Failed")
      BY SMT, Z3, <2>1, <2>5, <3>1, <3>2 DEF CountedAs, With
    <3>10. CountedCancelled' = CountedCancelled
      BY SMT, Z3, <2>1, <3>1, <3>2 DEF CountedCancelled, With
    <3>11. CountInv'
      BY ZenonT(40), <2>1, <3>8, <3>9, <3>10, CountSame
    <3> QED BY Zenon, <3>3, <3>4, <3>5, <3>7, <3>11 DEF RecordInv
  <2> QED BY Zenon, <2>3, <2>4, <2>5
<1>4. CASE CountCompletion(w)
  <2>1. /\ wpc[w] = "count" /\ wpc' = [wpc EXCEPT ![w] = "signal"]
        /\ completed_count' = completed_count + (IF status[t] = "Completed" THEN 1 ELSE 0)
        /\ failed_count' = failed_count + (IF status[t] = "Failed" THEN 1 ELSE 0)
        /\ running_count' = running_count - 1
        /\ UNCHANGED <<store, status, completed, hpc, wtask, kpc, ktask, kran,
                       cancelled_count>>
    BY Zenon, <1>4 DEF CountCompletion, record, outside, local, cancel, Goto
  <2>2. /\ t \in Tasks /\ wpc \in [AllWorkers -> WorkerPC]
        /\ \A v \in AllWorkers : v # w /\ wpc[v] # "idle" => wtask[v] # t
        /\ Unstored /\ OneWinner /\ Unpublished
        /\ \A x \in Cancels : WinnerInv(x)
        /\ \A v \in AllWorkers : HolderInv(v)
    BY Zenon, <2>1, HolderFacts
  <2>3. \A x \in Cancels : Won(x) /\ ktask[x] = t => kran[x]
    BY Zenon, <2>1 DEF SInv, IInv, CancelInv, Won
  <2>4. wpc'[w] = "signal" /\ \A v \in AllWorkers : v # w => wpc'[v] = wpc[v]
    BY Zenon, <2>1, <2>2
  <2>5. Unstored' /\ OneWinner'
    BY Zenon, <2>1, <2>2 DEF Unstored, OneWinner, Won, store
  <2>6. ASSUME NEW x \in Cancels PROVE WinnerInv(x)'
    BY Zenon, <2>1, <2>2, <2>3, <2>4 DEF WinnerInv, Won
  <2>7. ASSUME NEW v \in AllWorkers PROVE HolderInv(v)'
    BY Zenon, <2>1, <2>2, <2>4 DEF HolderInv, Holding, Mid
  <2>8. \A x : InHands(x)' <=> InHands(x)
    BY Zenon, <2>1, <2>4 DEF InHands, Holding
  <2>9. Unpublished'
    BY <2>1, <2>2, <2>8, ZenonT(30) DEF Unpublished, InCancel, Won
  <2>10. running_count' = Cardinality(NowRunning')
    <3>1. t \in NowRunning /\ NowRunning' = NowRunning \ {t}
      <4>1. t \in NowRunning
        BY Zenon, <2>1, <2>2 DEF NowRunning, Running
      <4>2. t \notin NowRunning'
        BY Zenon, <2>1, <2>2, <2>4 DEF NowRunning, Running
      <4>3. \A x \in Tasks : x # t => (x \in NowRunning' <=> x \in NowRunning)
        BY Zenon, <2>1, <2>4 DEF NowRunning, Running
      <4> QED BY Zenon, <4>1, <4>2, <4>3 DEF NowRunning
    <3>2. NowRunning \in SUBSET Tasks /\ running_count = Cardinality(NowRunning)
      BY Zenon DEF NowRunning, SInv, CountInv
    <3> QED BY Zenon, <2>1, <3>1, <3>2, TaskSets
  <2>11. ASSUME NEW s \in {"Completed", "Failed"}
         PROVE  Cardinality(CountedAs(s)') = Cardinality(CountedAs(s))
                  + (IF status[t] = s THEN 1 ELSE 0)
    <3>1. t \in Tasks \ CountedAs(s) /\ CountedAs(s) \in SUBSET Tasks
      BY Zenon, <2>1, <2>2 DEF CountedAs, With
    <3>2. \A x \in Tasks : x # t => (x \in CountedAs(s)' <=> x \in CountedAs(s))
      BY Zenon, <2>1, <2>4 DEF CountedAs, With
    <3>3. t \in CountedAs(s)' <=> status[t] = s
      BY Zenon, <2>1, <2>2, <2>4 DEF CountedAs, With
    <3>4. CountedAs(s)' \in SUBSET Tasks
      BY Zenon DEF CountedAs, With
    <3>5. CASE status[t] = s
      <4>1. CountedAs(s)' = CountedAs(s) \cup {t}
        BY Zenon, <3>1, <3>2, <3>3, <3>4, <3>5
      <4> QED BY Zenon, <3>1, <3>5, <4>1, TaskSets
    <3>6. CASE status[t] # s
      <4>1. CountedAs(s)' = CountedAs(s)
        BY SMT, Z3, <3>1, <3>2, <3>3, <3>4, <3>6
      <4>2. Cardinality(CountedAs(s)) \in Nat
        BY Zenon, <3>1, TaskSets
      <4> QED BY SMT, Z3, <3>6, <4>1, <4>2
    <3> QED BY Zenon, <3>5, <3>6
  <2>12. CountedCancelled' = CountedCancelled
    BY Zenon, <2>1, <2>4 DEF CountedCancelled, With
  <2>13. /\ completed_count' = Cardinality(CountedAs("Completed")')
         /\ failed_count' = Cardinality(CountedAs("Failed")')
    BY Zenon, <2>1, <2>11 DEF SInv, CountInv
  <2>14. CountInv'
    BY ZenonT(40), <2>1, <2>10, <2>12, <2>13 DEF SInv, CountInv, store
  <2> QED BY Zenon, <2>5, <2>6, <2>7, <2>9, <2>14 DEF RecordInv
<1>5. CASE Signal(w)
  <2>1. /\ wpc[w] = "signal" /\ wpc' = [wpc EXCEPT ![w] = "autofree"]
        /\ completed' = [completed EXCEPT ![t] = TRUE]
        /\ UNCHANGED <<store, counters, status, hpc, wtask, kpc, ktask, kran>>
    BY Zenon, <1>5 DEF Signal, SetCompleted, outside, local, cancel, Goto
  <2>2. /\ t \in Tasks /\ wpc \in [AllWorkers -> WorkerPC]
        /\ completed \in [Tasks -> BOOLEAN]
        /\ \A v \in AllWorkers : v # w /\ wpc[v] # "idle" => wtask[v] # t
        /\ Unstored /\ OneWinner /\ Unpublished
        /\ \A x \in Cancels : WinnerInv(x)
        /\ \A x \in Cancels : Won(x) => ktask[x] \in Tasks
        /\ \A v \in AllWorkers : HolderInv(v)
    BY Zenon, <2>1, HolderFacts
  <2>3. \A x \in Cancels : Won(x) /\ ktask[x] = t => kran[x]
    BY Zenon, <2>1, <2>2 DEF WinnerInv
  <2>4. /\ wpc'[w] = "autofree" /\ \A v \in AllWorkers : v # w => wpc'[v] = wpc[v]
        /\ completed'[t] /\ \A x \in Tasks : x # t => completed'[x] = completed[x]
    BY Zenon, <2>1, <2>2
  <2>5. Unstored' /\ OneWinner'
    BY ZenonT(40), <2>1, <2>2 DEF Unstored, OneWinner, Won, store
  <2>6. ASSUME NEW x \in Cancels PROVE WinnerInv(x)'
    BY SMT, Z3, <2>1, <2>2, <2>3, <2>4 DEF WinnerInv, Won
  <2>7. ASSUME NEW v \in AllWorkers PROVE HolderInv(v)'
    <3>1. CASE v = w
      BY Zenon, <2>4, <3>1 DEF HolderInv, Holding, Mid
    <3>2. CASE v # w
      <4>1. wpc[v] \in Holding => wtask[v] \in Tasks /\ wtask[v] # t
        BY Zenon, <2>2, <3>2 DEF SInv, IInv, WorkerInv, Holding, Mid
      <4> QED BY Zenon, <2>1, <2>2, <2>4, <3>2, <4>1 DEF HolderInv
    <3> QED BY Zenon, <3>1, <3>2
  <2>8. \A x \in Tasks : x # t => (InHands(x)' <=> InHands(x))
    BY ZenonT(40), <2>1, <2>4 DEF InHands
  <2>9. Unpublished'
    <3>1. ASSUME NEW x \in Tasks, status'[x] \in Terminal, ~completed'[x]
          PROVE  InHands(x)' \/ InCancel(x)'
      <4>1. x # t /\ ~completed[x] /\ status[x] \in Terminal
        BY Zenon, <2>1, <2>4, <3>1
      <4>2. InHands(x) \/ InCancel(x)
        BY Zenon, <2>2, <4>1 DEF Unpublished
      <4> QED BY Zenon, <2>1, <2>8, <4>1, <4>2 DEF InCancel
    <3>2. ASSUME NEW k \in Cancels, NEW y, y = ktask'[k], Won(k)', kran'[k]
          PROVE  completed'[y] \/ InHands(y)'
      <4>1. Won(k) /\ kran[k] /\ ktask[k] = y /\ y \in Tasks
        BY Zenon, <2>1, <2>2, <3>2 DEF Won
      <4>2. completed[y] \/ InHands(y)
        BY Zenon, <2>2, <4>1 DEF Unpublished
      <4> QED BY Zenon, <2>4, <2>8, <4>1, <4>2
    <3>3. \A k \in Cancels : Won(k)' /\ kran'[k] => completed'[ktask'[k]] \/ InHands(ktask[k])'
      BY Zenon, <3>2 DEF InHands
    <3> QED BY Zenon, <3>1, <3>3 DEF Unpublished
  <2>10. NowRunning' = NowRunning
    BY ZenonT(40), <2>1, <2>4 DEF NowRunning, Running
  <2>11. /\ CountedAs("Completed")' = CountedAs("Completed")
         /\ CountedAs("Failed")' = CountedAs("Failed")
    BY SMT, Z3, <2>1, <2>4 DEF CountedAs, With
  <2>12. CountedCancelled' = CountedCancelled
    BY SMT, Z3, <2>1, <2>4 DEF CountedCancelled, With
  <2>13. CountInv'
    BY Zenon, <2>1, <2>10, <2>11, <2>12, CountSame
  <2> QED BY Zenon, <2>5, <2>6, <2>7, <2>9, <2>13 DEF RecordInv
<1>6. CASE AutoFree(w)
  <2>1. /\ wpc[w] = "autofree" /\ wpc' = [wpc EXCEPT ![w] = "idle"]
        /\ UNCHANGED <<status, completed, hpc, wtask, kpc, ktask, kran, counters>>
        /\ slab' \subseteq slab
    BY <1>6, Zenon DEF AutoFree, FreeTask, store, record, outside, local, cancel, Goto
  <2>2. /\ wpc \in [AllWorkers -> WorkerPC]
        /\ Unstored /\ OneWinner /\ Unpublished
        /\ \A x \in Cancels : WinnerInv(x)
        /\ \A x \in AllWorkers : HolderInv(x)
    BY Zenon DEF SInv, IInv, TypeOK, RecordInv
  <2>3. Unstored' /\ OneWinner'
    BY Zenon, <2>1, <2>2 DEF Unstored, OneWinner, Won
  <2>4. ASSUME NEW x \in Cancels PROVE WinnerInv(x)'
    BY Zenon, <2>1, <2>2 DEF WinnerInv, Won
  <2>5. ASSUME NEW x \in AllWorkers PROVE HolderInv(x)'
    BY Zenon, <2>1, <2>2 DEF HolderInv, Holding, Mid
  <2>6. Unpublished'
    BY ZenonT(40), <2>1, <2>2 DEF Unpublished, InHands, InCancel, Won, Holding, Mid
  <2>7. task_count' = Cardinality(slab')
    <3>1. wtask[w] \in Tasks
      BY Zenon, <1>6 DEF AutoFree, SInv, IInv, WorkerInv
    <3> QED BY Zenon, <1>6, <3>1, FreeExact DEF AutoFree, store, SInv, CountInv
  <2>8. NowRunning' = NowRunning
    BY Zenon, <2>1, <2>2 DEF NowRunning, Running
  <2>9. \A s \in {"Completed", "Failed"} : CountedAs(s)' = CountedAs(s)
    BY Zenon, <2>1, <2>2 DEF CountedAs, With
  <2>10. CountedCancelled' = CountedCancelled
    BY Zenon, <2>1, <2>2 DEF CountedCancelled, With
  <2> QED BY ZenonT(40), <2>1, <2>3, <2>4, <2>5, <2>6, <2>7, <2>8, <2>9, <2>10
         DEF SInv, RecordInv, CountInv, counters
<1> QED BY Zenon, <1>1, <1>2, <1>3, <1>4, <1>5, <1>6

(* Frame for the counters: no cancel() call starts or stops recording.       *)
LEMMA CancelUncounted ==
  ASSUME SInv, NEW k \in Cancels,
         kpc[k] # "record", kpc'[k] # "record",
         \A x \in Cancels : x # k => kpc'[x] = kpc[x] /\ ktask'[x] = ktask[x],
         UNCHANGED <<store, counters, status, wpc, wtask>>
  PROVE  CountInv'
<1>1. NowRunning' = NowRunning
  BY Zenon DEF NowRunning, Running
<1>2. \A s \in {"Completed", "Failed"} : CountedAs(s)' = CountedAs(s)
  BY Zenon DEF CountedAs, With
<1>3. CountedCancelled' = CountedCancelled
  BY Zenon DEF CountedCancelled, With
<1> QED BY Zenon, <1>1, <1>2, <1>3, CountSame

(* A cancel() call that is told False changes nothing.                       *)
LEMMA CancelMove ==
  ASSUME SInv, NEW k \in Cancels, kpc[k] = "idle", kpc'[k] = "false",
         \A x \in Cancels : x # k =>
           kpc'[x] = kpc[x] /\ ktask'[x] = ktask[x] /\ kran'[x] = kran[x],
         UNCHANGED <<store, counters, status, completed, hpc, wpc, wtask>>
  PROVE  RecordInv' /\ CountInv'
<1>1. /\ Unstored /\ OneWinner /\ Unpublished
      /\ \A x \in Cancels : WinnerInv(x)
      /\ \A x \in AllWorkers : HolderInv(x)
  BY Zenon DEF SInv, RecordInv
<1>2. /\ ~Won(k) /\ ~Won(k)' /\ \A x \in Cancels : x # k => (Won(x)' <=> Won(x))
  BY Zenon DEF Won
<1>3. Unstored'
  BY Zenon, <1>1 DEF Unstored, store
<1>4. OneWinner'
  BY Zenon, <1>1, <1>2 DEF OneWinner
<1>5. ASSUME NEW x \in Cancels PROVE WinnerInv(x)'
  BY Zenon, <1>1, <1>2 DEF WinnerInv
<1>6. ASSUME NEW x \in AllWorkers PROVE HolderInv(x)'
  BY Zenon, <1>1 DEF HolderInv
<1>7. \A x : InHands(x)' <=> InHands(x)
  BY Zenon DEF InHands
<1>8. \A x : InCancel(x)' <=> InCancel(x)
  BY Zenon DEF InCancel
<1>9. Unpublished'
  BY Zenon, <1>1, <1>2, <1>7, <1>8 DEF Unpublished
<1>10. CountInv'
  BY Zenon, CancelUncounted
<1> QED BY Zenon, <1>3, <1>4, <1>5, <1>6, <1>9, <1>10 DEF RecordInv

(* A cancel() call that has won goes on without completing the task.         *)
LEMMA CancelRecords ==
  ASSUME SInv, NEW k \in Cancels, kpc[k] \in {"record", "result"},
         kpc'[k] \in {"result", "signal", "true"},
         kpc'[k] = "signal" => ~kran[k], kpc'[k] = "true" => kran[k],
         \A x \in Cancels : x # k => kpc'[x] = kpc[x],
         UNCHANGED <<store, status, completed, hpc, wpc, wtask, ktask, kran>>
  PROVE  RecordInv'
<1>1. /\ Unstored /\ OneWinner /\ Unpublished
      /\ \A x \in Cancels : WinnerInv(x)
      /\ \A x \in AllWorkers : HolderInv(x)
  BY Zenon DEF SInv, RecordInv
<1>2. \A x \in Cancels : Won(x)' <=> Won(x)
  BY Zenon DEF Won
<1>3. Won(k)
  BY Zenon DEF Won
<1>4. Unstored' /\ OneWinner'
  BY Zenon, <1>1, <1>2 DEF Unstored, OneWinner, store
<1>5. ASSUME NEW x \in Cancels PROVE WinnerInv(x)'
  BY Zenon, <1>1, <1>2, <1>3 DEF WinnerInv
<1>6. ASSUME NEW x \in AllWorkers PROVE HolderInv(x)'
  BY Zenon, <1>1 DEF HolderInv
<1>7. \A x : InHands(x)' <=> InHands(x)
  BY Zenon DEF InHands
<1>8. \A x : InCancel(x) => InCancel(x)' \/ (x = ktask[k] /\ kran[k])
  BY Zenon DEF InCancel
<1>9. Unpublished'
  <2>1. ASSUME NEW x \in Tasks, status'[x] \in Terminal, ~completed'[x]
        PROVE  InHands(x)' \/ InCancel(x)'
    BY <1>1, <1>3, <1>7, <1>8, <2>1, ZenonT(30) DEF Unpublished
  <2>2. ASSUME NEW x \in Cancels, Won(x)', kran'[x]
        PROVE  completed'[ktask'[x]] \/ InHands(ktask[x])'
    BY Zenon, <1>1, <1>2, <1>7, <2>2 DEF Unpublished
  <2> QED BY <2>1, <2>2, Zenon DEF Unpublished
<1> QED BY Zenon, <1>4, <1>5, <1>6, <1>9 DEF RecordInv

(* A cancel() call that wins counts the cancellation.                         *)
LEMMA CancelCounts ==
  ASSUME SInv, NEW k \in Cancels
  PROVE  (\/ \E t \in Tasks : CancelClaim(k, t)
          \/ CancelRecord(k) \/ CancelResult(k) \/ CancelSignal(k))
         => RecordInv' /\ CountInv'
<1>1. /\ status \in [Tasks -> {"Pending", "Running"} \cup Terminal]
      /\ completed \in [Tasks -> BOOLEAN] /\ kpc \in [Cancels -> CancelPC]
      /\ ktask \in [Cancels -> Tasks \cup {NoTask}] /\ kran \in [Cancels -> BOOLEAN]
  BY Zenon DEF SInv, IInv, TypeOK
<1>2. /\ Unstored /\ OneWinner /\ Unpublished
      /\ \A x \in Cancels : WinnerInv(x)
      /\ \A x \in AllWorkers : HolderInv(x)
  BY Zenon DEF SInv, RecordInv
<1>3. ASSUME NEW t \in Tasks, CancelClaim(k, t), t \in slab, Cancellable(t)
      PROVE  RecordInv' /\ CountInv'
  <2>1. /\ kpc[k] = "idle" /\ kpc' = [kpc EXCEPT ![k] = "record"]
        /\ status' = [status EXCEPT ![t] = "Cancelled"]
        /\ ktask' = [ktask EXCEPT ![k] = t]
        /\ kran' = [kran EXCEPT ![k] = (status[t] = "Running")]
        /\ UNCHANGED <<store, counters, completed, hpc, wpc, wtask>>
    BY <1>3, Zenon DEF CancelClaim, notStatus, engine, worker
  <2>2. /\ kpc'[k] = "record" /\ ktask'[k] = t /\ kran'[k] = (status[t] = "Running")
        /\ \A x \in Cancels : x # k =>
             kpc'[x] = kpc[x] /\ ktask'[x] = ktask[x] /\ kran'[x] = kran[x]
        /\ status'[t] = "Cancelled"
        /\ \A x \in Tasks : x # t => status'[x] = status[x]
    BY Zenon, <1>1, <2>1
  <2>3. /\ status[t] \in {"Pending", "Running"}
        /\ status[t] = "Running" => t \in Isolated
    BY Zenon, <1>3 DEF Cancellable
  <2>4. ~completed[t]
    <3>1. TaskInv(t)
      BY Zenon DEF SInv, IInv
    <3> QED BY Zenon, <2>3, <3>1 DEF TaskInv, Terminal
  <2>5. \A x \in Cancels : Won(x) => ktask[x] \in Tasks /\ ktask[x] # t
    <3>1. \A x \in Cancels : CancelInv(x)
      BY Zenon DEF SInv, IInv
    <3> QED BY Zenon, <2>3, <3>1 DEF CancelInv, Won
  <2>6. \A x \in AllWorkers :
          wtask[x] = t => wpc[x] \notin {"record", "signal", "count"}
    <3>1. \A x \in AllWorkers : WorkerInv(x)
      BY Zenon DEF SInv, IInv
    <3> QED BY Zenon, <2>3, <3>1 DEF WorkerInv, Ending, Terminal
  <2>7. \A x \in Cancels : x # k => (Won(x)' <=> Won(x))
    BY Zenon, <2>2 DEF Won
  <2>8. Unstored'
    BY ZenonT(40), <1>2, <2>1 DEF Unstored, store
  <2>9. OneWinner'
    BY SMT, Z3, <1>2, <2>2, <2>5, <2>7 DEF OneWinner
  <2>10. ASSUME NEW x \in Cancels PROVE WinnerInv(x)'
    <3>1. CASE x # k
      <4>1. /\ kpc'[x] = kpc[x] /\ ktask'[x] = ktask[x] /\ kran'[x] = kran[x]
            /\ (Won(x)' <=> Won(x)) /\ WinnerInv(x)
            /\ UNCHANGED <<completed, wpc, wtask>>
        BY Zenon, <1>2, <2>1, <2>2, <2>7, <3>1
      <4> QED BY Zenon, <4>1 DEF WinnerInv
    <3>2. CASE x = k
      <4>1. /\ kpc'[x] = "record" /\ ktask'[x] = t
            /\ kran'[x] => ktask'[x] \in Isolated
        BY <2>2, <2>3, <3>2, Zenon
      <4>2. ~completed'[t] /\ \A v \in AllWorkers : wtask'[v] = t =>
              wpc'[v] # "record" /\ wpc'[v] # "signal"
        BY Zenon, <2>1, <2>4, <2>6
      <4> QED BY Zenon, <4>1, <4>2 DEF WinnerInv
    <3> QED BY ZenonT(40), <3>1, <3>2
  <2>11. ASSUME NEW x \in AllWorkers PROVE HolderInv(x)'
    BY <1>2, <2>1, Zenon DEF HolderInv
  <2>12. \A x : InHands(x)' <=> InHands(x)
    BY Zenon, <2>1 DEF InHands
  <2>13. \A x \in Tasks : InCancel(x)' <=> (InCancel(x) \/ x = t)
    BY SMTT(30), Z3T(30), <2>1, <2>2 DEF InCancel
  <2>14. ASSUME NEW x \in Tasks, status'[x] \in Terminal, ~completed'[x]
         PROVE  InHands(x)' \/ InCancel(x)'
    BY <1>2, <2>1, <2>2, <2>12, <2>13, <2>14, ZenonT(30) DEF Unpublished
  <2>15. ASSUME NEW x \in Cancels, Won(x)', kran'[x]
         PROVE  completed'[ktask'[x]] \/ InHands(ktask[x])'
    <3>1. CASE x = k
      <4>1. ktask'[x] = t /\ PlaceInv(t) /\ status[t] = "Running"
        BY <2>2, <2>15, <3>1, ZenonT(30) DEF SInv, IInv
      <4>2. InHands(t)
        BY <4>1, ZenonT(30) DEF PlaceInv, InMid, InHands, Holding
      <4> QED BY Zenon, <2>12, <4>1, <4>2
    <3>2. CASE x # k
      BY <1>2, <2>1, <2>2, <2>7, <2>12, <2>15, <3>2, ZenonT(30) DEF Unpublished
    <3> QED BY Zenon, <3>1, <3>2
  <2>16. Unpublished'
    BY Zenon, <2>14, <2>15 DEF Unpublished
  <2>17. NowRunning' = NowRunning
    BY Zenon, <2>1 DEF NowRunning, Running
  <2>18. ASSUME NEW s \in {"Completed", "Failed"} PROVE CountedAs(s)' = CountedAs(s)
    <3>1. With(s)' = With(s)
      BY ZenonT(40), <2>2, <2>3 DEF With
    <3> QED BY Zenon, <2>1, <3>1 DEF CountedAs
  <2>19. CountedCancelled' = CountedCancelled
    <3>1. t \notin CountedCancelled /\ t \notin CountedCancelled'
      BY <2>2, <2>3, ZenonT(30) DEF CountedCancelled, With
    <3>2. \A x \in Tasks : x # t => (x \in CountedCancelled' <=> x \in CountedCancelled)
      BY SMT, Z3, <2>1, <2>2 DEF CountedCancelled, With
    <3> QED BY SMTT(30), Z3T(30), <3>1, <3>2 DEF CountedCancelled, With
  <2>20. CountInv'
    BY Zenon, <2>1, <2>17, <2>18, <2>19, CountSame
  <2> QED BY Zenon, <2>8, <2>9, <2>10, <2>11, <2>16, <2>20 DEF RecordInv
<1>4. ASSUME NEW t \in Tasks, CancelClaim(k, t), ~(t \in slab /\ Cancellable(t))
      PROVE  RecordInv' /\ CountInv'
  <2>1. /\ kpc[k] = "idle" /\ kpc' = [kpc EXCEPT ![k] = "false"]
        /\ status' = status
        /\ ktask' = [ktask EXCEPT ![k] = t] /\ kran' = [kran EXCEPT ![k] = FALSE]
        /\ UNCHANGED <<store, counters, completed, hpc, wpc, wtask>>
    BY <1>4, ZenonT(30) DEF CancelClaim, notStatus, engine, worker
  <2>2. /\ kpc'[k] = "false"
        /\ \A x \in Cancels : x # k =>
             kpc'[x] = kpc[x] /\ ktask'[x] = ktask[x] /\ kran'[x] = kran[x]
    BY Zenon, <1>1, <2>1
  <2> QED BY Zenon, <1>2, <2>1, <2>2, CancelMove
<1>5. CASE CancelRecord(k)
  <2>1. /\ kpc[k] = "record" /\ kpc' = [kpc EXCEPT ![k] = "result"]
        /\ cancelled_count' = cancelled_count + 1
        /\ UNCHANGED <<store, status, completed, hpc, wpc, wtask, ktask, kran,
                       running_count, completed_count, failed_count>>
    BY Zenon, <1>5 DEF CancelRecord, engine, worker
  <2>2. kpc'[k] = "result" /\ \A x \in Cancels : x # k => kpc'[x] = kpc[x]
    BY Zenon, <1>1, <2>1
  <2>3. RecordInv'
    BY Zenon, <2>1, <2>2, CancelRecords
  <2>4. NowRunning' = NowRunning
    BY Zenon, <2>1 DEF NowRunning, Running
  <2>5. \A s \in {"Completed", "Failed"} : CountedAs(s)' = CountedAs(s)
    BY Zenon, <2>1 DEF CountedAs, With
  <2>6. cancelled_count' = Cardinality(CountedCancelled')
    <3> DEFINE t == ktask[k]
    <3>1. t \in Tasks /\ status[t] = "Cancelled"
      BY Zenon, <2>1 DEF SInv, IInv, CancelInv
    <3>2. \A x \in Cancels : x # k /\ kpc[x] = "record" => ktask[x] # t
      BY Zenon, <1>2, <2>1 DEF OneWinner, Won
    <3>3. \A x \in AllWorkers : ~(wpc[x] = "record" /\ wtask[x] = t)
      BY Zenon, <1>2, <2>1 DEF WinnerInv, Won
    <3>4. t \notin CountedCancelled
      BY Zenon, <2>1 DEF CountedCancelled
    <3>5. t \in CountedCancelled'
      BY Zenon, <2>1, <2>2, <3>1, <3>2, <3>3 DEF CountedCancelled, With
    <3>6. \A x \in Tasks : x # t => (x \in CountedCancelled' <=> x \in CountedCancelled)
      BY Zenon, <2>1, <2>2 DEF CountedCancelled, With
    <3>7. CountedCancelled' = CountedCancelled \cup {t}
      BY Zenon, <3>1, <3>4, <3>5, <3>6 DEF CountedCancelled, With
    <3>8. /\ CountedCancelled \in SUBSET Tasks
          /\ cancelled_count = Cardinality(CountedCancelled)
      BY Zenon DEF CountedCancelled, With, SInv, CountInv
    <3> QED BY Zenon, <2>1, <3>1, <3>4, <3>7, <3>8, TaskSets
  <2>7. CountInv'
    BY Zenon, <2>1, <2>4, <2>5, <2>6 DEF SInv, CountInv, store
  <2> QED BY Zenon, <2>3, <2>7
<1>6. CASE CancelResult(k)
  <2>1. /\ kpc[k] = "result"
        /\ kpc' = [kpc EXCEPT ![k] = IF kran[k] THEN "true" ELSE "signal"]
        /\ UNCHANGED <<store, counters, status, completed, hpc, wpc, wtask, ktask,
                       kran>>
    BY Zenon, <1>6 DEF CancelResult, engine, worker
  <2>2. /\ kpc'[k] = IF kran[k] THEN "true" ELSE "signal"
        /\ \A x \in Cancels : x # k => kpc'[x] = kpc[x]
    BY ZenonT(40), <1>1, <2>1
  <2>3. RecordInv'
    BY SMTT(30), Z3T(30), <2>1, <2>2, CancelRecords
  <2>4. CountInv'
    BY SMT, Z3, <2>1, <2>2, CancelUncounted
  <2> QED BY Zenon, <2>3, <2>4
<1>7. CASE CancelSignal(k)
  <2> DEFINE t == ktask[k]
  <2>1. /\ kpc[k] = "signal" /\ kpc' = [kpc EXCEPT ![k] = "true"]
        /\ completed' = [completed EXCEPT ![t] = TRUE]
        /\ UNCHANGED <<store, counters, status, hpc, wpc, wtask, ktask, kran>>
    BY Zenon, <1>7 DEF CancelSignal, SetCompleted, engine, worker
  <2>2. kpc'[k] = "true" /\ \A x \in Cancels : x # k => kpc'[x] = kpc[x]
    BY Zenon, <1>1, <2>1
  <2>3. /\ t \in Tasks /\ ~kran[k]
        /\ \A x \in Cancels : Won(x) => ktask[x] \in Tasks
        /\ \A x \in AllWorkers : wtask[x] = t => wpc[x] \notin Holding
    <3>1. \A x \in Cancels : CancelInv(x)
      BY Zenon DEF SInv, IInv
    <3>2. WinnerInv(k) /\ Won(k)
      BY Zenon, <1>2, <2>1 DEF Won
    <3> QED BY Zenon, <2>1, <3>1, <3>2 DEF CancelInv, WinnerInv, Won, Holding, Mid
  <2>4. completed'[t] /\ \A x \in Tasks : x # t => completed'[x] = completed[x]
    BY Zenon, <1>1, <2>1, <2>3
  <2>5. \A x \in Cancels : Won(x)' <=> Won(x)
    BY Zenon, <2>1, <2>2 DEF Won
  <2>6. \A x \in Cancels : x # k /\ Won(x) => ktask[x] # t
    BY Zenon, <1>2, <2>1 DEF OneWinner, Won
  <2>7. Unstored' /\ OneWinner'
    BY Zenon, <1>2, <2>1, <2>5 DEF Unstored, OneWinner, store
  <2>8. ASSUME NEW x \in Cancels PROVE WinnerInv(x)'
    <3>1. CASE x = k
      BY <1>2, <2>1, <2>2, <2>3, <2>5, <3>1, ZenonT(30) DEF WinnerInv
    <3>2. CASE x # k
      BY <1>2, <2>1, <2>2, <2>3, <2>4, <2>5, <2>6, <3>2, ZenonT(30) DEF WinnerInv
    <3> QED BY Zenon, <3>1, <3>2
  <2>9. ASSUME NEW x \in AllWorkers PROVE HolderInv(x)'
    <3>1. wpc[x] \in Holding => wtask[x] \in Tasks
      BY Zenon DEF SInv, IInv, WorkerInv, Holding, Mid
    <3> QED BY <1>2, <2>1, <2>3, <2>4, <3>1, ZenonT(30) DEF HolderInv
  <2>10. \A x : InHands(x)' <=> InHands(x)
    BY Zenon, <2>1 DEF InHands
  <2>11. \A x \in Tasks : x # t => (InCancel(x)' <=> InCancel(x))
    BY Zenon, <2>1, <2>2 DEF InCancel
  <2>12. Unpublished'
    BY <1>2, <2>1, <2>3, <2>4, <2>5, <2>10, <2>11, ZenonT(30) DEF Unpublished
  <2>13. CountInv'
    BY Zenon, <2>1, <2>2, CancelUncounted
  <2> QED BY Zenon, <2>7, <2>8, <2>9, <2>12, <2>13 DEF RecordInv
<1> QED BY Zenon, <1>3, <1>4, <1>5, <1>6, <1>7

(* A result() call counts nothing; consuming frees the record.               *)
LEMMA WaitCounts ==
  ASSUME SInv, NEW q \in Waits
  PROVE  (\/ \E t \in Tasks : WaitStart(q, t)
          \/ WaitCheck(q) \/ WaitTimeout(q) \/ WaitStatus(q)
          \/ \E consume \in BOOLEAN : WaitGet(q, consume)
          \/ WaitConsume(q))
         => RecordInv' /\ CountInv'
<1>1. ASSUME \/ \E t \in Tasks : WaitStart(q, t)
             \/ WaitCheck(q) \/ WaitTimeout(q) \/ WaitStatus(q)
             \/ \E consume \in BOOLEAN : WaitGet(q, consume)
      PROVE  RecordInv' /\ CountInv'
  <2>1. UNCHANGED <<record, store, engine, counters, cancel, hpc>>
    BY Zenon, <1>1 DEF WaitStart, WaitCheck, WaitTimeout, WaitStatus, WaitGet
  <2> QED BY Zenon, <2>1, QuietCall DEF record, engine, worker, cancel
<1>2. CASE WaitConsume(q)
  <2> DEFINE t == qtask[q]
  <2>1. /\ t \in Tasks /\ hpc \in [Tasks -> HandlePC]
    BY Zenon, <1>2 DEF WaitConsume, SInv, IInv, TypeOK, WaitInv
  <2>2. /\ FreeTask(t) /\ \A x \in Tasks : hpc'[x] = "new" => hpc[x] = "new"
        /\ UNCHANGED <<counters, status, completed, wpc, wtask, kpc, ktask, kran>>
    BY Zenon, <1>2, <2>1 DEF WaitConsume, record, engine, worker, cancel
  <2> QED BY ZenonT(30), <2>1, <2>2, FreeCall
<1> QED BY Zenon, <1>1, <1>2

(* Closing a handle frees the record at most once.                           *)
LEMMA CloseCounts ==
  ASSUME SInv, NEW t \in Tasks
  PROVE  (\/ CloseStart(t) \/ SetAutofree(t) \/ AutofreeRecheck(t)
          \/ CloseFree(t))
         => RecordInv' /\ CountInv'
<1>1. hpc \in [Tasks -> HandlePC]
  BY Zenon DEF SInv, IInv, TypeOK
<1>2. ASSUME CloseStart(t) \/ SetAutofree(t) \/ AutofreeRecheck(t)
      PROVE  RecordInv' /\ CountInv'
  <2>1. /\ \A x \in Tasks : hpc'[x] = "new" => hpc[x] = "new"
        /\ UNCHANGED <<store, engine, counters, cancel, status, completed>>
    BY Zenon, <1>1, <1>2 DEF CloseStart, SetAutofree, AutofreeRecheck, record
  <2> QED BY <2>1, QuietCall, ZenonT(30) DEF engine, worker, cancel
<1>3. CASE CloseFree(t)
  <2>1. /\ FreeTask(t) /\ \A x \in Tasks : hpc'[x] = "new" => hpc[x] = "new"
        /\ UNCHANGED <<counters, status, completed, wpc, wtask, kpc, ktask, kran>>
    BY Zenon, <1>1, <1>3 DEF CloseFree, record, engine, worker, cancel
  <2> QED BY Zenon, <2>1, FreeCall
<1> QED BY Zenon, <1>2, <1>3

(* Nothing is stored, running or counted at the start.                       *)
LEMMA InitSInv == Init => SInv
<1> SUFFICES ASSUME Init PROVE SInv
  BY Zenon
<1>1. IInv
  BY Zenon, InitIInv
<1>2. RecordInv
  BY Zenon DEF Init, RecordInv, Unstored, OneWinner, WinnerInv, HolderInv, Holding, Mid,
         Unpublished, Won, Terminal
<1>3. /\ slab = {} /\ NowRunning = {} /\ CountedCancelled = {}
      /\ CountedAs("Completed") = {} /\ CountedAs("Failed") = {}
  BY Zenon DEF Init, NowRunning, Running, CountedAs, CountedCancelled, With
<1>4. CountInv
  BY Zenon, <1>3, FS_EmptySet DEF Init, CountInv
<1> QED BY Zenon, <1>1, <1>2, <1>4 DEF SInv

(* Every step keeps the counters exact.                                      *)
LEMMA NextSInv == SInv /\ [Next]_vars => SInv'
<1> SUFFICES ASSUME SInv, [Next]_vars PROVE SInv'
  BY Zenon
<1>1. IInv'
  BY Zenon, NextIInv DEF SInv
<1>2. RecordInv' /\ CountInv'
  <2>1. CASE UNCHANGED vars
    <3>1. Unstored'
      BY Zenon, <2>1 DEF vars, store, SInv, RecordInv, Unstored
    <3> QED BY Zenon, <2>1, <3>1, RecordFrame, CountFrame
           DEF vars, record, store, counters, worker, cancel
  <2> QED BY Zenon, <2>1, SubmitCounts, ClaimCounts, FinishCounts, CancelCounts,
         WaitCounts, CloseCounts
      DEF Next, ClaimStep, FinishStep, RunTask, CancelStep, WaitStep, CloseStep
<1> QED BY Zenon, <1>1, <1>2 DEF SInv

(* The statistics are the sizes of those sets in every reachable state.      *)
THEOREM LifecycleCounts == Safety => []SInv
BY InitSInv, NextSInv, PTL DEF Safety

(* The counters of a quiet engine follow from CountInv: nobody is about to   *)
(* count.                                                                    *)
LEMMA QuietFacts == SInv => StatsExactWhenQuiet
<1> SUFFICES ASSUME SInv PROVE StatsExactWhenQuiet
  BY Zenon
<1>1. task_count = Cardinality(slab)
  BY Zenon DEF SInv, CountInv
<1>2. ASSUME \A w \in AllWorkers : wpc[w] = "idle",
             \A k \in Cancels : kpc[k] \in {"idle", "true", "false"}
      PROVE  /\ running_count = 0
             /\ completed_count = Cardinality(With("Completed"))
             /\ failed_count = Cardinality(With("Failed"))
             /\ cancelled_count = Cardinality(With("Cancelled"))
  <2>1. NowRunning = {}
    BY Zenon, <1>2 DEF NowRunning, Running
  <2>2. /\ CountedAs("Completed") = With("Completed")
        /\ CountedAs("Failed") = With("Failed")
        /\ CountedCancelled = With("Cancelled")
    BY Zenon, <1>2 DEF CountedAs, CountedCancelled
  <2> QED BY Zenon, <2>1, <2>2, FS_EmptySet DEF SInv, CountInv
<1> QED BY Zenon, <1>1, <1>2 DEF StatsExactWhenQuiet

(* The statistics are exact whenever no thread is inside the engine, and     *)
(* task_count always is (record_task_completion, record_shutdown_            *)
(* cancellation, cancel_task and free_task each count once).                 *)
THEOREM StatisticsExact == Safety => []StatsExactWhenQuiet
BY QuietFacts, LifecycleCounts, PTL

(* A waiter that is woken finds the outcome counted (worker_loop counts      *)
(* before it signals).                                                       *)
THEOREM CountedBeforeSignal == Safety => []CountedWhenCompleted
<1>1. SInv => CountedWhenCompleted
  <2> SUFFICES ASSUME SInv PROVE CountedWhenCompleted
    BY Zenon
  <2> DEFINE Done(s) == {t \in With(s) : completed[t]}
  <2>1. \A s \in {"Completed", "Failed"} :
          Done(s) \subseteq CountedAs(s) /\ CountedAs(s) \in SUBSET Tasks
    BY Zenon DEF SInv, RecordInv, HolderInv, Holding, CountedAs, With
  <2>2. /\ Done("Cancelled") \ Isolated \subseteq CountedCancelled
        /\ CountedCancelled \in SUBSET Tasks
    BY Zenon DEF SInv, RecordInv, HolderInv, Holding, WinnerInv, Won,
           CountedCancelled, With
  <2>3. \A S \in SUBSET Tasks : \A R \in SUBSET S : Cardinality(R) <= Cardinality(S)
    BY Zenon, TaskSets, FS_Subset
  <2> QED BY Zenon, <2>1, <2>2, <2>3 DEF CountedWhenCompleted, SInv, CountInv
<1> QED BY <1>1, LifecycleCounts, PTL

=============================================================================
