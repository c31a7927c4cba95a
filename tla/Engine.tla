------------------------------- MODULE Engine -------------------------------
(***************************************************************************)
(* The engine of src/broker.rs: submission calls and shutdown calls around *)
(* Admission and Lifecycle.  It adds what ties the two together: the two   *)
(* bounded channels with their STOP messages, the submission gate (an      *)
(* RwLock: submissions read, shutdown writes), the thread that stops and   *)
(* joins the workers, and calls made by the code of a running task.        *)
(***************************************************************************)
EXTENDS EngineState

A == INSTANCE Admission WITH Items <- Tasks
L == INSTANCE Lifecycle WITH Waits <- {}, TimedWaits <- {}

Init ==
  /\ A!Init /\ L!Init
  /\ chan = [lane \in {"thread", "isolated"} |-> <<>>]
  /\ cpc = [c \in Calls |-> "idle"] /\ unsent = [c \in Calls |-> {}]
  /\ started = FALSE /\ shutdown_complete = FALSE
  /\ spc = [s \in Shutdowns |-> "idle"]
  /\ stops = <<>> /\ alive = AllWorkers
  /\ submitted_count = 0 /\ rejected_count = 0

(* A call is made by some user thread, or by the code of a task being run.   *)
Callable(x) ==
  \/ Caller[x] = NoTask
  \/ \E w \in Workers : wpc[w] = "exec" /\ wtask[w] = Caller[x]

(* The code of task t is inside a call to the engine.                        *)
InCall(t) ==
  \/ \E c \in Calls : Caller[c] = t /\ cpc[c] \notin CallEnded \cup {"idle"}
  \/ \E s \in Shutdowns : Caller[s] = t /\ spc[s] \notin Ended \cup {"idle"}
-----------------------------------------------------------------------------
(* enqueue_task and enqueue_batch *)

CallTo(c, pc) == cpc' = [cpc EXCEPT ![c] = pc]
Quiet == UNCHANGED <<chan, shutdown, alive>>

Reject(c) == rejected_count' = rejected_count + Cardinality(Batch[c])

EnqueueCheck(c) ==
  /\ cpc[c] = "idle" /\ Callable(c)
  /\ IF started \/ closed
     THEN CallTo(c, "shutdown") /\ UNCHANGED admission
     ELSE CallTo(c, "reserving") /\ A!ReserveEnter(c)
  /\ Quiet /\ UNCHANGED <<lifecycle, unsent, submitted_count, rejected_count>>

Reserve(c) ==
  /\ cpc[c] = "reserving"
  /\ A!ReserveStep(c) \/ A!WakeUp(c) \/ A!DeadlinePasses(c)
  /\ UNCHANGED <<lifecycle, own>>

(* reserve returned false: shut down, or the queue is full.                  *)
ReserveFailed(c) ==
  /\ cpc[c] = "reserving" /\ rpc[c] = "refused"
  /\ IF closed THEN CallTo(c, "shutdown") /\ UNCHANGED rejected_count
               ELSE CallTo(c, "full") /\ Reject(c)
  /\ Quiet /\ UNCHANGED <<admission, lifecycle, unsent, submitted_count>>

(* Mutant: the units of a batch whose task_factory failed are not returned.  *)
BuildFailsHolding(c) ==
  /\ cpc[c] = "reserving" /\ rpc[c] = "granted" /\ c \in Batches
  /\ CallTo(c, "failed")
  /\ Quiet
  /\ UNCHANGED <<admission, lifecycle, unsent, submitted_count, rejected_count>>

(* task_factory failed, or built another number of tasks than was reserved.  *)
BuildFails(c) ==
  /\ cpc[c] = "reserving" /\ rpc[c] = "granted" /\ c \in Batches
  /\ A!ReleaseBatch(c)
  /\ CallTo(c, "failed")
  /\ Quiet /\ UNCHANGED <<lifecycle, unsent, submitted_count, rejected_count>>

GateFree == \A s \in Shutdowns : spc[s] # "closing"

(* Mutant: shutdown_started is not looked at again under the gate.           *)
GateEnterUnchecked(c) ==
  /\ cpc[c] = "reserving" /\ rpc[c] = "granted" /\ GateFree
  /\ CallTo(c, "sending") /\ L!Insert(Batch[c])
  /\ unsent' = [unsent EXCEPT ![c] = Batch[c]]
  /\ UNCHANGED admission
  /\ Quiet /\ UNCHANGED <<submitted_count, rejected_count>>

(* Under the gate: look at shutdown_started again, insert every task.        *)
GateEnter(c) ==
  /\ cpc[c] = "reserving" /\ rpc[c] = "granted" /\ GateFree
  /\ IF started
     THEN /\ CallTo(c, "shutdown") /\ A!ReleaseBatch(c)
          /\ UNCHANGED <<lifecycle, unsent>>
     ELSE /\ CallTo(c, "sending") /\ L!Insert(Batch[c])
          /\ unsent' = [unsent EXCEPT ![c] = Batch[c]]
          /\ UNCHANGED admission
  /\ Quiet /\ UNCHANGED <<submitted_count, rejected_count>>

(* The slab has no room; records inserted so far are taken out again.        *)
RegistryFull(c) ==
  /\ cpc[c] = "reserving" /\ rpc[c] = "granted" /\ GateFree /\ ~started
  /\ Batch[c] # {}
  /\ A!ReleaseBatch(c)
  /\ CallTo(c, "full") /\ Reject(c)
  /\ Quiet /\ UNCHANGED <<lifecycle, unsent, submitted_count>>

(* try_send.  Its two error paths are dead code: see SendNeverFails.         *)
Send(c, t) ==
  /\ cpc[c] = "sending" /\ t \in unsent[c]
  /\ Len(chan[Lane(t)]) < Capacity
  /\ chan' = [chan EXCEPT ![Lane(t)] = Append(@, t)]
  /\ L!Enqueue(t)
  /\ unsent' = [unsent EXCEPT ![c] = @ \ {t}]
  /\ UNCHANGED <<admission, cpc, submitted_count, rejected_count, shutdown,
                 alive>>

(* Mutant: the submission gives its units back although its tasks are queued. *)
SubmittedReleasing(c) ==
  /\ cpc[c] = "sending" /\ unsent[c] = {}
  /\ A!Release(Batch[c])
  /\ submitted_count' = submitted_count + Cardinality(Batch[c])
  /\ L!ReturnHandles(Batch[c])
  /\ CallTo(c, "submitted")
  /\ Quiet /\ UNCHANGED <<unsent, rejected_count>>

(* Everything is sent: count, leave the gate, return the ids.                *)
Submitted(c) ==
  /\ cpc[c] = "sending" /\ unsent[c] = {}
  /\ submitted_count' = submitted_count + Cardinality(Batch[c])
  /\ L!ReturnHandles(Batch[c])
  /\ CallTo(c, "submitted")
  /\ Quiet /\ UNCHANGED <<admission, unsent, rejected_count>>
-----------------------------------------------------------------------------
(* Worker threads *)

ReceiveStop(w) ==
  /\ w \in alive /\ wpc[w] = "idle" /\ chan[Home(w)] # <<>>
  /\ Head(chan[Home(w)]) = STOP
  /\ Pop(w)
  /\ alive' = alive \ {w}
  /\ UNCHANGED <<admission, lifecycle, call, shutdown>>

ReceiveTask(w) ==
  /\ w \in alive /\ chan[Home(w)] # <<>>
  /\ Head(chan[Home(w)]) # STOP
  /\ L!Receive(w, Head(chan[Home(w)]))
  /\ Pop(w)
  /\ UNCHANGED <<admission, call, shutdown, alive>>

(* Mutant: the worker forgets admission.release(1).                          *)
ReleaseUnitNever(w) == L!ReleaseUnit(w) /\ UNCHANGED <<admission, own>>

ReleaseUnit(w) ==
  L!ReleaseUnit(w) /\ A!ReleaseOne(wtask[w]) /\ UNCHANGED own

(* User code returns only when it is in no call of its own.                  *)
RunTask(w) ==
  L!RunTask(w) /\ ~InCall(wtask[w]) /\ UNCHANGED <<admission, own>>

WorkerStep(w) ==
  L!ClaimStep(w) \/ L!FinishStep(w)
-----------------------------------------------------------------------------
(* shutdown_engine *)

ShutdownTo(s, pc) == spc' = [spc EXCEPT ![s] = pc]
OnlyShutdown == UNCHANGED <<chan, call, alive>>

(* Mutant: a worker may wait for its own end.                                *)
ShutdownEnterAny(s) ==
  /\ spc[s] = "idle" /\ Callable(s)
  /\ ShutdownTo(s, "gate")
  /\ OnlyShutdown
  /\ UNCHANGED <<admission, lifecycle, started, stops, shutdown_complete>>

(* wait=True from a worker thread is an error.                               *)
ShutdownEnter(s) ==
  /\ spc[s] = "idle" /\ Callable(s)
  /\ ShutdownTo(s, IF s \in Waiting /\ Caller[s] # NoTask
                   THEN "error" ELSE "gate")
  /\ OnlyShutdown
  /\ UNCHANGED <<admission, lifecycle, started, stops, shutdown_complete>>

(* Mutant: the writer does not wait for the submissions inside the gate.     *)
ShutdownGateEager(s) ==
  /\ spc[s] = "gate" /\ GateFree
  /\ IF s \in Cancelling THEN L!SetCancelPending ELSE UNCHANGED lifecycle
  /\ ShutdownTo(s, "closing")
  /\ OnlyShutdown /\ UNCHANGED <<admission, started, stops, shutdown_complete>>

(* The write lock, and under it the cancel_pending flag.                     *)
ShutdownGate(s) ==
  /\ spc[s] = "gate" /\ GateFree
  /\ \A c \in Calls : cpc[c] # "sending"
  /\ IF s \in Cancelling THEN L!SetCancelPending ELSE UNCHANGED lifecycle
  /\ ShutdownTo(s, "closing")
  /\ OnlyShutdown /\ UNCHANGED <<admission, started, stops, shutdown_complete>>

Lanes(workers, lane) == [i \in 1..Cardinality(workers) |-> lane]

(* Still under the gate: close admission; the first call takes the workers   *)
(* and spawns the thread that stops them.                                    *)
ShutdownClose(s) ==
  /\ spc[s] = "closing"
  /\ A!Close
  /\ started' = TRUE
  /\ stops' = IF started THEN stops
              ELSE Lanes(Workers, "thread") \o Lanes(IsoWorkers, "isolated")
  /\ ShutdownTo(s, IF s \in Waiting THEN "waiting" ELSE "returned")
  /\ OnlyShutdown /\ UNCHANGED <<lifecycle, shutdown_complete>>

(* The stopper: a blocking send per worker, joins, then the announcement.    *)
SendStop ==
  /\ stops # <<>> /\ Len(chan[Head(stops)]) < Capacity
  /\ chan' = [chan EXCEPT ![Head(stops)] = Append(@, STOP)]
  /\ stops' = Tail(stops)
  /\ UNCHANGED <<admission, lifecycle, call, started, spc, alive,
                 shutdown_complete>>

(* Mutant: the announcement does not wait for the joins.                     *)
CompleteUnjoined ==
  /\ started /\ stops = <<>> /\ ~shutdown_complete
  /\ shutdown_complete' = TRUE
  /\ OnlyShutdown /\ UNCHANGED <<admission, lifecycle, started, spc, stops>>

Complete ==
  /\ started /\ stops = <<>> /\ alive = {} /\ ~shutdown_complete
  /\ shutdown_complete' = TRUE
  /\ OnlyShutdown /\ UNCHANGED <<admission, lifecycle, started, spc, stops>>

ShutdownReturn(s) ==
  /\ spc[s] = "waiting" /\ shutdown_complete
  /\ ShutdownTo(s, "returned")
  /\ OnlyShutdown
  /\ UNCHANGED <<admission, lifecycle, started, stops, shutdown_complete>>
-----------------------------------------------------------------------------
CallStep(c) ==
  \/ ReserveFailed(c) \/ BuildFails(c) \/ GateEnter(c) \/ RegistryFull(c)
  \/ Submitted(c) \/ \E t \in Tasks : Send(c, t)

ShutdownStep(s) == ShutdownGate(s) \/ ShutdownClose(s) \/ ShutdownReturn(s)

(* The owner of a handle cancels it or closes it, one call at a time; in the  *)
(* Lifecycle runs any thread does either at any moment.                       *)
CancelStep(k) ==
  \/ L!CancelStep(k)
  \/ \E t \in Dropped : hpc[t] = "open" /\ L!CancelClaim(k, t)

HandleStep(t) ==
  /\ t \in Dropped
  /\ \A k \in Cancels : ktask[k] = t => kpc[k] \in {"true", "false"}
  /\ L!CloseStart(t) \/ L!CloseStep(t)

UserStep == (\E k \in Cancels : CancelStep(k)) \/ (\E t \in Tasks : HandleStep(t))

Next ==
  \/ \E c \in Calls : EnqueueCheck(c) \/ Reserve(c) \/ CallStep(c)
  \/ \E w \in AllWorkers :
       \/ ReceiveStop(w) \/ ReceiveTask(w) \/ ReleaseUnit(w) \/ RunTask(w)
       \/ WorkerStep(w) /\ UNCHANGED <<admission, own>>
  \/ UserStep /\ UNCHANGED <<admission, own>>
  \/ \E s \in Shutdowns : ShutdownEnter(s) \/ ShutdownStep(s)
  \/ SendStop \/ Complete

Safety == Init /\ [][Next]_vars

(* Whoever is inside the engine keeps going, user code included once the      *)
(* calls it makes return; nobody is obliged to submit, cancel or shut down.   *)
Fairness ==
  /\ \A c \in Calls :
       /\ WF_vars(CallStep(c))
       /\ WF_vars(/\ cpc[c] = "reserving" /\ A!ReserveStep(c)
                  /\ UNCHANGED <<lifecycle, own>>)
       /\ WF_vars(/\ cpc[c] = "reserving" /\ A!DeadlinePasses(c)
                  /\ UNCHANGED <<lifecycle, own>>)
       /\ WF_vars(/\ cpc[c] = "reserving" /\ c \in expired
                  /\ A!WakeUp(c) /\ UNCHANGED <<lifecycle, own>>)
  /\ \A w \in AllWorkers :
       /\ WF_vars(ReceiveStop(w) \/ ReceiveTask(w))
       /\ WF_vars(ReleaseUnit(w))
       /\ WF_vars(RunTask(w))
       /\ WF_vars(WorkerStep(w) /\ UNCHANGED <<admission, own>>)
  /\ \A k \in Cancels : WF_vars(L!CancelStep(k) /\ UNCHANGED <<admission, own>>)
  /\ \A s \in Shutdowns : WF_vars(ShutdownStep(s))
  /\ WF_vars(SendStop) /\ WF_vars(Complete)

Spec == Safety /\ Fairness
-----------------------------------------------------------------------------
(* A waiting shutdown returns to a quiet engine: every worker has left, no    *)
(* channel holds a task, and every task ever accepted has its outcome, which  *)
(* is published unless a cancel() call is just about to do so.                *)
DrainedAtShutdown ==
  (\E s \in Waiting : spc[s] = "returned")
    => /\ alive = {} /\ InChan = {}
       /\ \A t \in Tasks : hpc[t] # "new" =>
            /\ status[t] \in L!Terminal
            /\ \/ completed[t]
               \/ \E k \in Cancels :
                    ktask[k] = t /\ kpc[k] \notin {"true", "false"}

(* Shutdown is irreversible: once it has started no task enters the slab or a *)
(* channel, also from submissions that had already reserved.                  *)
NothingEntersAfterShutdown ==
  [][started => /\ started'
                /\ slab' \subseteq slab /\ queue' \subseteq queue]_vars

(* The engine's steps are steps of its parts, so what is proved of Admission  *)
(* and of Lifecycle holds of the engine.                                      *)
PartsRefined == A!Safety /\ L!Safety

(* shutdown ends: everything is drained and joined although submitters may be *)
(* blocked in reserve, workers may be running tasks that submit or shut down, *)
(* and channels may be full.                                                  *)
ShutdownCompletes ==
  (\E s \in Shutdowns : spc[s] = "gate") ~> shutdown_complete

(* Nobody shuts the engine down, and no task submits from inside a worker.    *)
Undisturbed ==
  ~started /\ \A c \in Calls : Caller[c] # NoTask => cpc[c] = "idle"

(* A task accepted by an undisturbed engine completes.                        *)
AcceptedCompletes ==
  []Undisturbed => \A t \in Tasks : (hpc[t] # "new") ~> completed[t]

(* Backpressure is temporary: every submission call returns, with or without  *)
(* timeout, in an undisturbed engine as room comes back, and in any engine    *)
(* once it shuts down.                                                        *)
SubmissionsReturn ==
  /\ []Undisturbed => \A c \in Calls : (cpc[c] # "idle") ~> cpc[c] \in CallEnded
  /\ \A c \in Calls : (started /\ cpc[c] # "idle") ~> cpc[c] \in CallEnded
=============================================================================
