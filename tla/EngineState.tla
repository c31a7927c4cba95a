---------------------------- MODULE EngineState ----------------------------
(***************************************************************************)
(* The state of the engine of src/broker.rs: the variables of Admission    *)
(* and of Lifecycle, the engine's own, where a task's unit can be, and the  *)
(* invariants that speak of nothing else.                                  *)
(***************************************************************************)
EXTENDS Integers, FiniteSets, Sequences

CONSTANTS
  Calls, Batch, Timeout, Capacity,        \* submission calls: see Admission
  Batches,                                \* those made through .batch()
  Tasks, Isolated, Workers, IsoWorkers,   \* see Lifecycle
  Cancels, NoTask,
  Dropped,      \* tasks whose handle the user cancels, closes or drops
  Shutdowns,    \* shutdown() calls
  Waiting,      \* those with wait=True
  Cancelling,   \* those with cancel_pending=True
  Caller,       \* Caller[x]: the in-process task whose code makes call x
  STOP          \* STOP_TASK_ID

ASSUME EngineAssumption ==
  /\ IsFiniteSet(Tasks) /\ NoTask \notin Tasks /\ STOP \notin Tasks
  /\ Isolated \subseteq Tasks /\ Workers \cap IsoWorkers = {}
  /\ IsFiniteSet(Workers) /\ IsFiniteSet(IsoWorkers)
  /\ Workers # {} /\ IsoWorkers # {}
  /\ Batch \in [Calls -> SUBSET Tasks]
  /\ Tasks = UNION {Batch[c] : c \in Calls}
  /\ \A c, d \in Calls : c # d => Batch[c] \cap Batch[d] = {}
  /\ \A c \in Calls : Batch[c] \subseteq Isolated \/ Batch[c] \cap Isolated = {}
  /\ Batches \subseteq Calls
  /\ \A c \in Calls \ Batches : Cardinality(Batch[c]) = 1
  /\ Timeout \in [Calls -> {"zero", "finite", "unbounded"}]
  /\ Capacity \in Nat \ {0}
  /\ Waiting \subseteq Shutdowns /\ Dropped \subseteq Tasks
  /\ Caller \in [Calls \cup Shutdowns -> (Tasks \ Isolated) \cup {NoTask}]

VARIABLES
  available, closed, rpc, expired, held,
  status, cancelled, result, completed, autofree, slab, task_count, queue, hpc,
  cancelPending, running_count, completed_count, failed_count, cancelled_count,
  wpc, wtask, wout, late, kpc, ktask, kran, qpc, qtask,
  chan,               \* the two crossbeam channels
  cpc, unsent,        \* submission calls, and what they still have to send
  started,            \* shutdown_started
  spc,                \* shutdown calls
  stops,              \* the STOP messages the stopper thread still has to send
  alive,              \* worker threads that have not left their loop
  shutdown_complete,
  submitted_count, rejected_count

admission == <<available, closed, rpc, expired, held>>
lifecycle == <<status, cancelled, result, completed, autofree, slab,
               task_count, queue, hpc, cancelPending, running_count,
               completed_count, failed_count, cancelled_count, wpc, wtask,
               wout, late, kpc, ktask, kran, qpc, qtask>>
call     == <<cpc, unsent, submitted_count, rejected_count>>
shutdown == <<started, spc, stops, shutdown_complete>>
own      == <<chan, call, shutdown, alive>>
vars     == <<admission, lifecycle, own>>

AllWorkers == Workers \cup IsoWorkers
Lane(t)    == IF t \in Isolated THEN "isolated" ELSE "thread"
Home(w)    == IF w \in IsoWorkers THEN "isolated" ELSE "thread"
CallEnded  == {"submitted", "full", "failed", "shutdown"}
Ended      == {"returned", "error"}

Pop(w) == chan' = [chan EXCEPT ![Home(w)] = Tail(@)]
Holds(s, t) == \E i \in 1..Len(s) : s[i] = t
InChan == {t \in Tasks : \E lane \in DOMAIN chan : Holds(chan[lane], t)}
Taken  == {wtask[w] : w \in {v \in AllWorkers : wpc[v] = "received"}}
Reserved ==
  UNION {IF cpc[c] = "reserving" THEN Batch[c] ELSE unsent[c] :
         c \in {d \in Calls : rpc[d] = "granted"}}
-----------------------------------------------------------------------------
(* The reservation pays for the send: a submission under the gate never finds *)
(* its channel full (STOP messages included) nor its receivers gone, so       *)
(* try_send's rollback, which would drop records already queued, never runs.  *)
SendNeverFails ==
  \A c \in Calls : unsent[c] # {} =>
    LET lane == Lane(CHOOSE t \in unsent[c] : TRUE) IN
    /\ Len(chan[lane]) + Cardinality(unsent[c]) <= Capacity
    /\ \E w \in alive : Home(w) = lane

(* queued_tasks is exact: a unit is held exactly by a task that is reserved,  *)
(* in a channel, or taken and about to be released, on every error path.      *)
HeldExact == held = Reserved \cup InChan \cup Taken

(* After shutdown, when calls have returned, the statistics add up: every     *)
(* submitted task is counted under one outcome, every unit is back, nothing   *)
(* runs.                                                                      *)
BooksBalance ==
  /\ shutdown_complete
  /\ \A c \in Calls : cpc[c] \in CallEnded \cup {"idle"}
  /\ \A k \in Cancels : kpc[k] \in {"idle", "true", "false"}
  => /\ submitted_count = completed_count + failed_count + cancelled_count
     /\ available = Capacity /\ running_count = 0
=============================================================================
