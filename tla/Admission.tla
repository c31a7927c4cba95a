------------------------------ MODULE Admission ------------------------------
(***************************************************************************)
(* QueueAdmission (src/broker.rs): the counting gate in front of both task *)
(* queues.  A submission call reserves one unit per task before the task   *)
(* exists, and a unit goes back when a worker takes the task from its      *)
(* queue or when the submission fails.  `available` is guarded by a mutex; *)
(* every lock region below is one action, and the condition variable       *)
(* `changed` is the set of calls that are "asleep".                        *)
(***************************************************************************)
EXTENDS Integers, FiniteSets

CONSTANTS
  Calls,     \* submission calls; each reserves at most once
  Items,     \* the units asked for: one per task of a batch
  Batch,     \* Batch[c]: the items call c reserves
  Timeout,   \* Timeout[c]: "zero" | "finite" | "unbounded" (no deadline fits)
  Capacity   \* PYROXIDE_QUEUE_CAPACITY

ASSUME AdmissionAssumption ==
  /\ IsFiniteSet(Items)
  /\ Batch \in [Calls -> SUBSET Items]
  /\ \A c, d \in Calls : c # d => Batch[c] \cap Batch[d] = {}
  /\ Timeout \in [Calls -> {"zero", "finite", "unbounded"}]
  /\ Capacity \in Nat \ {0}

VARIABLES
  available,  \* units not reserved
  closed,     \* set by shutdown, never reset
  rpc,        \* where each call is inside reserve
  expired,    \* calls whose deadline has passed
  held        \* items whose unit is reserved and not yet released

vars == <<available, closed, rpc, expired, held>>

Count(c) == Cardinality(Batch[c])
Returned == {"granted", "refused"}
Contending(c) == rpc[c] \in {"entering", "awake"}

Init ==
  /\ available = Capacity
  /\ closed = FALSE
  /\ rpc = [c \in Calls |-> "idle"]
  /\ expired = {}
  /\ held = {}
-----------------------------------------------------------------------------
(* reserve *)

(* The unlocked check at the head of reserve. *)
ReserveEnter(c) ==
  /\ rpc[c] = "idle"
  /\ rpc' = [rpc EXCEPT ![c] = IF Count(c) > Capacity \/ closed
                               THEN "refused" ELSE "entering"]
  /\ UNCHANGED <<available, closed, expired, held>>

(* Mutant: `if` for `while`: no second look at `available` after a wait.    *)
ReserveGrantUnchecked(c) ==
  /\ Contending(c) /\ ~closed /\ (rpc[c] = "awake" \/ available >= Count(c))
  /\ available' = available - Count(c)
  /\ held' = held \cup Batch[c]
  /\ rpc' = [rpc EXCEPT ![c] = "granted"]
  /\ UNCHANGED <<closed, expired>>

(* Mutants: a grant that charges one unit for a whole batch; a grant that   *)
(* does not look at `closed` again after waiting.                           *)
ReserveGrantOne(c) ==
  /\ Contending(c) /\ ~closed /\ available >= Count(c)
  /\ available' = available - 1
  /\ held' = held \cup Batch[c]
  /\ rpc' = [rpc EXCEPT ![c] = "granted"]
  /\ UNCHANGED <<closed, expired>>

ReserveGrantClosed(c) ==
  /\ Contending(c) /\ available >= Count(c)
  /\ available' = available - Count(c)
  /\ held' = held \cup Batch[c]
  /\ rpc' = [rpc EXCEPT ![c] = "granted"]
  /\ UNCHANGED <<closed, expired>>

(* Under the lock: enough units and still open. *)
ReserveGrant(c) ==
  /\ Contending(c)
  /\ ~closed
  /\ available >= Count(c)
  /\ available' = available - Count(c)
  /\ held' = held \cup Batch[c]
  /\ rpc' = [rpc EXCEPT ![c] = "granted"]
  /\ UNCHANGED <<closed, expired>>

(* Under the lock: closed, or short of units with no time left to wait. *)
ReserveRefuse(c) ==
  /\ Contending(c)
  /\ \/ closed
     \/ available < Count(c) /\ (Timeout[c] = "zero" \/ c \in expired)
  /\ rpc' = [rpc EXCEPT ![c] = "refused"]
  /\ UNCHANGED <<available, closed, expired, held>>

(* Mutant: a wait that does not look at its deadline.                         *)
ReserveSleepAgain(c) ==
  /\ Contending(c) /\ ~closed /\ available < Count(c) /\ Timeout[c] # "zero"
  /\ rpc' = [rpc EXCEPT ![c] = "asleep"]
  /\ UNCHANGED <<available, closed, expired, held>>

(* Under the lock: short of units; wait_timeout releases the lock and sleeps. *)
ReserveSleep(c) ==
  /\ Contending(c)
  /\ ~closed
  /\ available < Count(c)
  /\ Timeout[c] # "zero" /\ c \notin expired
  /\ rpc' = [rpc EXCEPT ![c] = "asleep"]
  /\ UNCHANGED <<available, closed, expired, held>>

(* wait_timeout returns without a notification: the deadline has passed, the *)
(* 24 hour chunk of an unbounded wait is over, or the wakeup is spurious.    *)
WakeUp(c) ==
  /\ rpc[c] = "asleep"
  /\ rpc' = [rpc EXCEPT ![c] = "awake"]
  /\ UNCHANGED <<available, closed, expired, held>>

DeadlinePasses(c) ==
  /\ rpc[c] \in {"entering", "asleep", "awake"}
  /\ Timeout[c] = "finite"
  /\ c \notin expired
  /\ expired' = expired \cup {c}
  /\ UNCHANGED <<available, closed, rpc, held>>
-----------------------------------------------------------------------------
(* release and close *)

NotifyAll ==
  rpc' = [c \in Calls |-> IF rpc[c] = "asleep" THEN "awake" ELSE rpc[c]]

(* Mutant: a release that forgets to notify. *)
ReleaseSilently(returned) ==
  /\ available' = IF available + Cardinality(returned) > Capacity
                  THEN Capacity ELSE available + Cardinality(returned)
  /\ held' = held \ returned
  /\ UNCHANGED <<closed, rpc, expired>>

Release(returned) ==
  /\ available' = IF available + Cardinality(returned) > Capacity
                  THEN Capacity ELSE available + Cardinality(returned)
  /\ held' = held \ returned
  /\ NotifyAll
  /\ UNCHANGED <<closed, expired>>

(* Mutant: a close that forgets to notify. *)
CloseSilently ==
  /\ closed' = TRUE
  /\ UNCHANGED <<available, rpc, expired, held>>

Close ==
  /\ closed' = TRUE
  /\ NotifyAll
  /\ UNCHANGED <<available, expired, held>>

(* How callers use release: a worker gives back one unit for the task it    *)
(* received, a failed submission gives back its whole batch.                *)
ReleaseOne(i) == i \in held /\ Release({i})

ReleaseBatch(c) ==
  rpc[c] = "granted" /\ Batch[c] \subseteq held /\ Release(Batch[c])
-----------------------------------------------------------------------------
ReserveStep(c) == ReserveGrant(c) \/ ReserveRefuse(c) \/ ReserveSleep(c)

Next ==
  \/ \E c \in Calls : \/ ReserveEnter(c)
                      \/ ReserveGrant(c)
                      \/ ReserveRefuse(c)
                      \/ ReserveSleep(c)
                      \/ WakeUp(c)
                      \/ DeadlinePasses(c)
                      \/ ReleaseBatch(c)
  \/ \E i \in Items : ReleaseOne(i)
  \/ Close

(* A call waiting for the mutex gets it, a deadline passes, and a sleeper    *)
(* whose deadline has passed wakes up.  Nothing forces a caller to reserve,  *)
(* a worker to release or anyone to close.                                   *)
Fairness ==
  \A c \in Calls : /\ WF_vars(ReserveStep(c))
                   /\ WF_vars(DeadlinePasses(c))
                   /\ WF_vars(WakeUp(c) /\ c \in expired)

Safety == Init /\ [][Next]_vars

Spec == Safety /\ Fairness
-----------------------------------------------------------------------------
(* Values of the variables. *)
TypeOK ==
  /\ available \in 0..Capacity
  /\ closed \in BOOLEAN
  /\ rpc \in [Calls -> {"idle", "entering", "asleep", "awake"} \cup Returned]
  /\ expired \subseteq Calls
  /\ held \subseteq Items

(* Units are conserved: what is not available is exactly what some call or  *)
(* queued task still holds.  The saturating `.min(capacity)` of release      *)
(* therefore never hides a double release, and queued() is exact.            *)
Conservation == available + Cardinality(held) = Capacity

(* No lost wakeup: a call sleeps on `changed` only while it really has to,  *)
(* because every change that could let it go on (release, close) notifies    *)
(* under the same mutex.                                                     *)
NoLostWakeup ==
  \A c \in Calls : rpc[c] = "asleep" => available < Count(c) /\ ~closed

(* After close, reserve never hands out another unit, even to a call that    *)
(* was already waiting and finds room.                                       *)
ClosedAdmitsNothing == [][closed => closed' /\ held' \subseteq held]_vars

(* Shutdown unblocks submitters: every call inside reserve when the queue    *)
(* closes returns, whatever its timeout.                                     *)
CloseUnblocks ==
  \A c \in Calls : (closed /\ rpc[c] # "idle") ~> rpc[c] \in Returned

(* A reserve with a deadline returns, even if nothing is ever released.      *)
DeadlineBoundsWait ==
  \A c \in Calls :
    (Timeout[c] # "unbounded" /\ rpc[c] # "idle") ~> rpc[c] \in Returned
=============================================================================
