----------------------------- MODULE EngineProofs -----------------------------
(***************************************************************************)
(* The theorems about the engine.  Each action is a step (or a stutter) of *)
(* Admission and of Lifecycle (StepsOfParts), and has one of the effects   *)
(* that EngineSteps shows to keep EngineInv.  The engine's invariant is    *)
(* the one of Admission, the one of Lifecycle and EngineInv together: the  *)
(* first two are kept by what AdmissionProofs and LifecycleProofs prove.   *)
(***************************************************************************)
EXTENDS Engine, EngineSteps

(* A worker in the middle of a task moves on; queues and handles stay.       *)
LEMMA WorkerEffect ==
  ASSUME NEW w \in AllWorkers, L!ClaimStep(w) \/ L!FinishStep(w) \/ L!RunTask(w)
  PROVE  /\ wpc[w] \notin {"idle", "received"}
         /\ \E pc : pc # "received" /\ wpc' = [wpc EXCEPT ![w] = pc]
         /\ UNCHANGED <<wtask, hpc, queue>>
         /\ slab' \subseteq slab
<1>1. CASE L!ClaimStep(w)
  BY Zenon, <1>1 DEF L!ClaimStep, L!Lookup, L!ShutdownCheck, L!CancelledCheck, L!Claim,
       L!ShutdownRecheck, L!Goto, L!outside, L!local, L!store
<1>2. CASE L!FinishStep(w)
  <2>1. CASE L!AutoFree(w)
    BY <2>1, Zenon DEF L!AutoFree, L!FreeTask, L!Goto, L!outside, L!local, L!store
  <2>2. CASE ~L!AutoFree(w)
    BY ZenonT(40), <1>2, <2>2 DEF L!FinishStep, L!RecordShutdown, L!StoreResult, L!SetStatus,
       L!CountCompletion, L!Signal, L!Goto, L!outside, L!local, L!store
  <2> QED BY Zenon, <2>1, <2>2
<1>3. CASE L!RunTask(w)
  BY <1>3, Zenon DEF L!RunTask, L!Execute, L!Goto, L!outside, L!local, L!store
<1> QED BY ZenonT(40), <1>1, <1>2, <1>3

(* A close call moves one handle that has been given out.                    *)
LEMMA CloseCallEffect ==
  ASSUME NEW t \in Tasks, L!CloseStart(t) \/ L!CloseStep(t)
  PROVE  /\ UNCHANGED <<wpc, wtask, queue>> /\ slab' \subseteq slab
         /\ hpc[t] \notin Unreturned
         /\ \E pc : pc \notin Unreturned /\ hpc' = [hpc EXCEPT ![t] = pc]
<1>1. CASE L!CloseStart(t)
  BY <1>1, Zenon DEF L!CloseStart, L!engine, L!worker, L!store, Unreturned
<1>2. CASE L!SetAutofree(t)
  BY <1>2, Zenon DEF L!SetAutofree, L!engine, L!worker, L!store, Unreturned
<1>3. CASE L!AutofreeRecheck(t)
  BY <1>3, Zenon DEF L!AutofreeRecheck, L!engine, L!worker, L!store, Unreturned
<1>4. CASE L!CloseFree(t)
  BY <1>4, Zenon DEF L!CloseFree, L!FreeTask, L!engine, L!worker, Unreturned
<1> QED BY ZenonT(40), <1>1, <1>2, <1>3, <1>4 DEF L!CloseStep

(* A cancel or close call touches no queue and no worker, and no task whose   *)
(* handle has not been given out.                                            *)
LEMMA UserEffect ==
  ASSUME DOMAIN hpc = Tasks, UserStep
  PROVE  /\ UNCHANGED <<wpc, wtask, queue>>
         /\ \A t \in Tasks : (hpc[t] \in Unreturned \/ hpc'[t] \in Unreturned)
                             => hpc'[t] = hpc[t]
         /\ slab' \subseteq slab
<1>1. ASSUME NEW k \in Cancels, CancelStep(k)
      PROVE  UNCHANGED <<wpc, wtask, queue, hpc, slab>>
  BY Zenon, <1>1 DEF CancelStep, L!CancelStep, L!CancelRecord, L!CancelResult,
              L!CancelSignal, L!CancelClaim, L!engine, L!worker, L!store
<1>2. CASE \E k \in Cancels : CancelStep(k)
  BY Zenon, <1>1, <1>2
<1>3. CASE \E t \in Tasks : HandleStep(t)
  <2>1. PICK t \in Tasks : L!CloseStart(t) \/ L!CloseStep(t)
    BY Zenon, <1>3 DEF HandleStep
  <2>2. /\ UNCHANGED <<wpc, wtask, queue>> /\ slab' \subseteq slab
        /\ hpc[t] \notin Unreturned
        /\ \E pc : pc \notin Unreturned /\ hpc' = [hpc EXCEPT ![t] = pc]
    BY Zenon, <2>1, CloseCallEffect
  <2> QED BY Zenon, <2>2
<1> QED BY Zenon, <1>2, <1>3 DEF UserStep

(* A release takes back the units it is given and keeps every grant.         *)
LEMMA ReleaseEffect ==
  ASSUME NEW R, A!Release(R)
  PROVE  held' = held \ R /\ GrantsKept
BY Zenon DEF A!Release, A!NotifyAll, GrantsKept

(* Closing keeps the grants and the units.                                   *)
LEMMA CloseEffect ==
  ASSUME A!Close
  PROVE  UNCHANGED held /\ GrantsKept
BY Zenon DEF A!Close, A!NotifyAll, GrantsKept
-----------------------------------------------------------------------------
(* What a part leaves alone when the engine leaves its variables alone.      *)
LEMMA PartsFrame ==
  /\ UNCHANGED admission => UNCHANGED A!vars
  /\ UNCHANGED lifecycle => UNCHANGED L!vars
BY Zenon DEF admission, lifecycle, A!vars, L!vars, L!record, L!store, L!counters,
       L!worker, L!cancel, L!wait

(* An empty batch inserts and returns nothing.                               *)
LEMMA EmptyBatch ==
  ASSUME hpc = [t \in Tasks |-> hpc[t]], task_count \in Int,
         L!Insert({}) \/ L!ReturnHandles({})
  PROVE  UNCHANGED L!vars
<1>1. hpc' = hpc /\ slab' = slab
  BY Zenon DEF L!Insert, L!ReturnHandles, L!store
<1>2. task_count' = task_count
  <2>1. L!Cardinality({}) = Cardinality({})
    BY Zenon DEF L!Cardinality, Cardinality
  <2> QED BY SMT, Z3, <2>1, FS_EmptySet DEF L!Insert, L!ReturnHandles, L!store
<1> QED BY ZenonT(40), <1>1, <1>2 DEF L!Insert, L!ReturnHandles, L!vars, L!record, L!store,
             L!counters, L!engine, L!worker, L!cancel, L!wait

(* What the refinement of the parts needs of Lifecycle's types.              *)
PartsType ==
  /\ hpc = [t \in Tasks |-> hpc[t]] /\ task_count \in Int /\ queue \subseteq Tasks
  /\ \A w \in AllWorkers : wpc[w] # "idle" => wtask[w] \in Tasks

(* Every step of the engine is a step of Admission or leaves it alone, and   *)
(* the same of Lifecycle.                                                    *)
LEMMA StepsOfParts ==
  ASSUME PartsType, [Next]_vars
  PROVE  [A!Next]_A!vars /\ [L!Next]_L!vars
<1> DEFINE Goal == [A!Next]_A!vars /\ [L!Next]_L!vars
<1>a. \A c \in Calls : \/ A!ReserveEnter(c) \/ A!ReserveStep(c) \/ A!WakeUp(c)
                       \/ A!DeadlinePasses(c) \/ A!ReleaseBatch(c)
                       => A!Next
  BY Zenon DEF A!Next, A!ReserveStep
<1>b. \A S \in SUBSET Tasks : L!Insert(S) \/ L!ReturnHandles(S) => [L!Next]_L!vars
  <2> SUFFICES ASSUME NEW S \in SUBSET Tasks, L!Insert(S) \/ L!ReturnHandles(S)
               PROVE  [L!Next]_L!vars
    BY Zenon
  <2>1. CASE S = {}
    BY Zenon, <2>1, EmptyBatch DEF PartsType
  <2>2. CASE S # {}
    BY Zenon, <2>2 DEF L!Next
  <2> QED BY ZenonT(40), <2>1, <2>2
<1>c. \A w \in AllWorkers : L!ClaimStep(w) \/ L!FinishStep(w) \/ L!RunTask(w)
                            \/ L!ReleaseUnit(w) => L!Next
  BY Zenon DEF L!Next, L!AllWorkers, AllWorkers
<1>1. ASSUME NEW c \in Calls, EnqueueCheck(c) PROVE Goal
  BY ZenonT(40), <1>1, <1>a, PartsFrame DEF EnqueueCheck
<1>2. ASSUME NEW c \in Calls, Reserve(c) PROVE Goal
  BY Zenon, <1>2, <1>a, PartsFrame DEF Reserve
<1>3. ASSUME NEW c \in Calls, ReserveFailed(c) PROVE Goal
  BY Zenon, <1>3, PartsFrame DEF ReserveFailed
<1>4. ASSUME NEW c \in Calls, BuildFails(c) \/ RegistryFull(c) PROVE Goal
  BY ZenonT(40), <1>4, <1>a, PartsFrame DEF BuildFails, RegistryFull
<1>5. ASSUME NEW c \in Calls, GateEnter(c) PROVE Goal
  BY ZenonT(40), <1>5, <1>a, <1>b, BatchFacts, PartsFrame DEF GateEnter
<1>6. ASSUME NEW c \in Calls, Submitted(c) PROVE Goal
  BY ZenonT(40), <1>6, <1>b, BatchFacts, PartsFrame DEF Submitted
<1>7. ASSUME NEW c \in Calls, NEW t \in Tasks, Send(c, t) PROVE Goal
  BY Zenon, <1>7, PartsFrame DEF Send, L!Next
<1>8. ASSUME NEW w \in AllWorkers, ReceiveStop(w) PROVE Goal
  BY ZenonT(40), <1>8, PartsFrame DEF ReceiveStop
<1>9. ASSUME NEW w \in AllWorkers, ReceiveTask(w) PROVE Goal
  <2>1. Head(chan[Home(w)]) \in Tasks
    BY Zenon, <1>9 DEF PartsType, ReceiveTask, L!Receive
  <2> QED BY ZenonT(40), <1>9, <2>1, PartsFrame
          DEF ReceiveTask, L!Next, L!AllWorkers, AllWorkers
<1>10. ASSUME NEW w \in AllWorkers, ReleaseUnit(w) PROVE Goal
  <2>1. wtask[w] \in Tasks
    BY Zenon, <1>10 DEF PartsType, ReleaseUnit, L!ReleaseUnit
  <2> QED BY ZenonT(40), <1>10, <1>c, <2>1 DEF ReleaseUnit, A!Next
<1>11. ASSUME NEW w \in AllWorkers,
              RunTask(w) \/ (WorkerStep(w) /\ UNCHANGED <<admission, own>>)
       PROVE  Goal
  BY ZenonT(40), <1>11, <1>c, PartsFrame DEF RunTask, WorkerStep
<1>12. ASSUME UserStep, UNCHANGED <<admission, own>> PROVE Goal
  <2>1. ASSUME NEW k \in Cancels, CancelStep(k) PROVE L!Next
    <3>1. \A t \in Dropped : hpc[t] = "open" /\ L!CancelClaim(k, t) => t \in Tasks
      BY Zenon, EngineAssumption
    <3> QED BY Zenon, <2>1, <3>1 DEF CancelStep, L!Next
  <2>2. ASSUME NEW t \in Tasks, HandleStep(t) PROVE L!Next
    BY Zenon, <2>2 DEF HandleStep, L!Next
  <2> QED BY ZenonT(40), <1>12, <2>1, <2>2, PartsFrame DEF UserStep
<1>13. ASSUME NEW s \in Shutdowns, ShutdownEnter(s) \/ ShutdownStep(s) PROVE Goal
  <2>1. CASE ShutdownGate(s)
    BY Zenon, <2>1, PartsFrame DEF ShutdownGate, L!Next
  <2>2. CASE ShutdownClose(s)
    BY Zenon, <2>2, PartsFrame DEF ShutdownClose, A!Next
  <2>3. CASE ShutdownEnter(s) \/ ShutdownReturn(s)
    BY Zenon, <2>3, PartsFrame DEF ShutdownEnter, ShutdownReturn
  <2> QED BY ZenonT(40), <1>13, <2>1, <2>2, <2>3 DEF ShutdownStep
<1>14. CASE SendStop \/ Complete
  BY Zenon, <1>14, PartsFrame DEF SendStop, Complete
<1>15. CASE UNCHANGED vars
  BY Zenon, <1>15, PartsFrame DEF vars
<1> QED BY ZenonT(40), <1>1, <1>2, <1>3, <1>4, <1>5, <1>6, <1>7, <1>8, <1>9, <1>10, <1>11,
           <1>12, <1>13, <1>14, <1>15 DEF Next, CallStep

-----------------------------------------------------------------------------
(* The effects of the actions.                                               *)

(* Nothing but the channels, the calls and the shutdown is the engine's own. *)
LEMMA OwnKept ==
  UNCHANGED <<admission, own>> => CallsKept /\ ShutdownKept /\ UnitsKept /\ UNCHANGED chan
BY Zenon DEF admission, own, call, shutdown, CallsKept, ShutdownKept, UnitsKept

(* What UNCHANGED admission, lifecycle and shutdown mean to EngineSteps.     *)
LEMMA KeptParts ==
  /\ UNCHANGED admission => UnitsKept
  /\ UNCHANGED lifecycle => TasksKept /\ UNCHANGED queue /\ UNCHANGED <<slab, hpc, wpc, wtask>>
  /\ UNCHANGED <<shutdown, alive>> => ShutdownKept
BY Zenon DEF admission, lifecycle, shutdown, UnitsKept, TasksKept, ShutdownKept

(* The variables of the engine that a step of a submission leaves alone.     *)
LEMMA QuietKept ==
  Quiet => ShutdownKept /\ UNCHANGED <<chan, started>>
BY Zenon DEF Quiet, shutdown, ShutdownKept

(* A call in reserve may be granted the units of its batch; nothing else.    *)
LEMMA ReserveGrants ==
  ASSUME NEW c \in Calls, DOMAIN rpc = Calls,
         A!ReserveEnter(c) \/ A!ReserveStep(c) \/ A!WakeUp(c) \/ A!DeadlinePasses(c)
  PROVE  /\ \A d \in Calls : d # c => rpc'[d] = rpc[d]
         /\ \/ held' = held \cup Batch[c] /\ rpc[c] # "granted" /\ rpc'[c] = "granted"
               /\ rpc[c] # "idle"
            \/ held' = held /\ (rpc'[c] = "granted" <=> rpc[c] = "granted")
<1>1. CASE A!ReserveGrant(c)
  BY Zenon, <1>1 DEF A!ReserveGrant, A!Contending
<1>2. CASE A!ReserveEnter(c) \/ A!ReserveRefuse(c) \/ A!ReserveSleep(c)
  BY Zenon, <1>2 DEF A!ReserveEnter, A!ReserveRefuse, A!ReserveSleep, A!Contending
<1>3. CASE A!WakeUp(c) \/ A!DeadlinePasses(c)
  BY Zenon, <1>3 DEF A!WakeUp, A!DeadlinePasses
<1> QED BY ZenonT(40), <1>1, <1>2, <1>3 DEF A!ReserveStep

(* A call enters, waits in or fails in reserve.                              *)
LEMMA ReserveIs ==
  ASSUME EInv, DOMAIN rpc = Calls, NEW c \in Calls,
         EnqueueCheck(c) \/ Reserve(c) \/ ReserveFailed(c)
  PROVE  \E pc : ReserveEffect(c, pc)
<1>1. CallInv(c) /\ CallType
  BY Zenon DEF EInv, EngineInv, CallsOK
<1>2. CASE EnqueueCheck(c)
  <2>1. /\ ChannelsKept /\ ShutdownKept /\ TasksKept /\ UNCHANGED <<unsent, submitted_count>>
        /\ cpc[c] = "idle" /\ rpc[c] = "idle"
    BY ZenonT(40), <1>1, <1>2, KeptParts, QuietKept DEF EnqueueCheck, ChannelsKept, CallInv
  <2>2. CASE started \/ closed
    <3>1. cpc' = [cpc EXCEPT ![c] = "shutdown"] /\ UNCHANGED <<held, rpc>>
      BY Zenon, <1>2, <2>2 DEF EnqueueCheck, CallTo, admission
    <3> QED BY <2>1, <3>1, ZenonT(40) DEF ReserveEffect, CallPC, CallEnded
  <2>3. CASE ~(started \/ closed)
    <3>1. cpc' = [cpc EXCEPT ![c] = "reserving"] /\ A!ReserveEnter(c)
      BY Zenon, <1>2, <2>3 DEF EnqueueCheck, CallTo
    <3>2. /\ \A d \in Calls : d # c => rpc'[d] = rpc[d]
          /\ held' = held /\ (rpc'[c] = "granted" <=> rpc[c] = "granted")
      BY ZenonT(40), <2>1, <3>1, ReserveGrants
    <3> QED BY <2>1, <3>1, <3>2, ZenonT(40) DEF ReserveEffect, CallPC, CallEnded
  <2> QED BY ZenonT(40), <2>2, <2>3
<1>3. CASE Reserve(c)
  <2>1. /\ ChannelsKept /\ ShutdownKept /\ TasksKept
        /\ UNCHANGED <<unsent, submitted_count, cpc>> /\ cpc[c] = "reserving"
    BY ZenonT(40), <1>3, KeptParts DEF Reserve, ChannelsKept, own, call, shutdown
  <2>2. cpc' = [cpc EXCEPT ![c] = "reserving"]
    BY ZenonT(40), <1>1, <2>1 DEF CallType
  <2>3. /\ \A d \in Calls : d # c => rpc'[d] = rpc[d]
        /\ \/ held' = held \cup Batch[c] /\ rpc[c] # "granted" /\ rpc'[c] = "granted"
           \/ held' = held /\ (rpc'[c] = "granted" <=> rpc[c] = "granted")
    BY Zenon, <1>3, ReserveGrants DEF Reserve
  <2> QED BY <2>1, <2>2, <2>3, ZenonT(40) DEF ReserveEffect, CallPC, CallEnded
<1>4. CASE ReserveFailed(c)
  <2>1. /\ ChannelsKept /\ ShutdownKept /\ TasksKept /\ UNCHANGED <<unsent, submitted_count>>
        /\ UNCHANGED <<held, rpc>> /\ cpc[c] = "reserving" /\ rpc[c] = "refused"
    BY ZenonT(40), <1>4, KeptParts, QuietKept DEF ReserveFailed, ChannelsKept, admission
  <2>2. \E pc \in {"shutdown", "full"} : cpc' = [cpc EXCEPT ![c] = pc]
    BY Zenon, <1>4 DEF ReserveFailed, CallTo
  <2> QED BY <2>1, <2>2, ZenonT(40) DEF ReserveEffect, CallPC, CallEnded
<1> QED BY ZenonT(40), <1>2, <1>3, <1>4

(* A submission fails after reserve: the three error paths.                  *)
LEMMA FailureIs ==
  ASSUME NEW c \in Calls, BuildFails(c) \/ RegistryFull(c) \/ (GateEnter(c) /\ started)
  PROVE  \E pc : FailureEffect(c, pc)
<1>1. /\ UNCHANGED <<lifecycle, unsent, submitted_count>> /\ Quiet
      /\ cpc[c] = "reserving" /\ rpc[c] = "granted" /\ A!Release(Batch[c])
      /\ \E pc \in {"failed", "full", "shutdown"} : cpc' = [cpc EXCEPT ![c] = pc]
  BY Zenon DEF BuildFails, RegistryFull, GateEnter, A!ReleaseBatch, CallTo
<1>2. held' = held \ Batch[c] /\ GrantsKept
  BY Zenon, <1>1, ReleaseEffect
<1>3. ChannelsKept /\ ShutdownKept /\ TasksKept
  BY ZenonT(40), <1>1, KeptParts, QuietKept DEF ChannelsKept
<1> QED BY <1>1, <1>2, <1>3, ZenonT(40) DEF FailureEffect, CallEnded

(* The batch is inserted under the gate.                                     *)
LEMMA InsertIs ==
  ASSUME NEW c \in Calls, GateEnter(c), ~started
  PROVE  InsertEffect(c)
<1>1. /\ UNCHANGED <<admission, submitted_count>> /\ Quiet
      /\ cpc[c] = "reserving" /\ rpc[c] = "granted"
      /\ \A s \in Shutdowns : spc[s] # "closing"
      /\ cpc' = [cpc EXCEPT ![c] = "sending"]
      /\ unsent' = [unsent EXCEPT ![c] = Batch[c]]
      /\ L!Insert(Batch[c])
  BY Zenon DEF GateEnter, GateFree, CallTo
<1>2. /\ UNCHANGED <<wpc, wtask, queue>>
      /\ hpc' = [t \in Tasks |-> IF t \in Batch[c] THEN "inserted" ELSE hpc[t]]
  BY Zenon, <1>1 DEF L!Insert, L!engine, L!worker
<1>3. ChannelsKept /\ ShutdownKept /\ UnitsKept
  BY ZenonT(40), <1>1, <1>2, KeptParts, QuietKept DEF ChannelsKept
<1> QED BY Zenon, <1>1, <1>2, <1>3 DEF InsertEffect

(* A task is sent.                                                           *)
LEMMA SendIs ==
  ASSUME NEW c \in Calls, NEW t \in Tasks, Send(c, t)
  PROVE  SendEffect(c, t)
<1>1. hpc[t] = "inserted" /\ hpc' = [hpc EXCEPT ![t] = "sent"]
      /\ queue' = queue \cup {t} /\ UNCHANGED <<wpc, wtask>>
  BY Zenon DEF Send, L!Enqueue, L!worker
<1> QED BY Zenon, <1>1, KeptParts DEF Send, SendEffect

(* The handles are returned and counted.                                     *)
LEMMA SubmittedIs ==
  ASSUME NEW c \in Calls, Submitted(c)
  PROVE  SubmittedEffect(c)
<1>1. /\ UNCHANGED <<admission, unsent>> /\ Quiet
      /\ cpc[c] = "sending" /\ unsent[c] = {}
      /\ cpc' = [cpc EXCEPT ![c] = "submitted"]
      /\ submitted_count' = submitted_count + Cardinality(Batch[c])
      /\ L!ReturnHandles(Batch[c])
  BY Zenon DEF Submitted, CallTo
<1>2. /\ UNCHANGED <<wpc, wtask, queue>> /\ \A t \in Batch[c] : hpc[t] = "sent"
      /\ hpc' = [t \in Tasks |-> IF t \in Batch[c] THEN "open" ELSE hpc[t]]
  BY <1>1, Zenon DEF L!ReturnHandles, L!engine, L!worker
<1>3. ChannelsKept /\ ShutdownKept /\ UnitsKept
  BY ZenonT(40), <1>1, <1>2, KeptParts, QuietKept DEF ChannelsKept
<1> QED BY Zenon, <1>1, <1>2, <1>3 DEF SubmittedEffect

(* A step of a submission call keeps the engine's part of the invariant.     *)
LEMMA CallKeeps ==
  ASSUME EInv, DOMAIN rpc = Calls, NEW c \in Calls,
         EnqueueCheck(c) \/ Reserve(c) \/ CallStep(c)
  PROVE  EngineInv'
<1>1. CASE EnqueueCheck(c) \/ Reserve(c) \/ ReserveFailed(c)
  BY ZenonT(40), <1>1, ReserveIs, ReserveKeeps
<1>2. CASE BuildFails(c) \/ RegistryFull(c) \/ (GateEnter(c) /\ started)
  BY ZenonT(40), <1>2, FailureIs, FailureKeeps
<1>3. CASE GateEnter(c) /\ ~started
  BY ZenonT(40), <1>3, InsertIs, InsertKeeps
<1>4. CASE Submitted(c)
  <2>1. SubmittedEffect(c)
    BY Zenon, <1>4, SubmittedIs
  <2>2. HandedOut \in SUBSET Tasks /\ Batch[c] \in SUBSET Tasks
        /\ HandedOut \cap Batch[c] = {}
    BY ZenonT(40), <2>1, BatchFacts DEF HandedOut, SubmittedEffect, Unreturned
  <2> QED BY ZenonT(40), <2>1, <2>2, TaskSets, SubmittedKeeps
<1>5. CASE \E t \in Tasks : Send(c, t)
  BY ZenonT(40), <1>5, SendIs, SendKeeps
<1> QED BY ZenonT(40), <1>1, <1>2, <1>3, <1>4, <1>5 DEF CallStep

(* A step of a worker keeps it.                                              *)
LEMMA WorkerStepKeeps ==
  ASSUME EInv, NEW w \in AllWorkers,
         \/ ReceiveStop(w) \/ ReceiveTask(w) \/ ReleaseUnit(w) \/ RunTask(w)
         \/ WorkerStep(w) /\ UNCHANGED <<admission, own>>
  PROVE  EngineInv'
<1>1. CASE ReceiveStop(w)
  <2>1. ReceiveStopEffect(w)
    BY Zenon, <1>1, KeptParts DEF ReceiveStop, ReceiveStopEffect, Popped, call, shutdown,
       CallsKept
  <2> QED BY Zenon, <2>1, ReceiveStopKeeps
<1>2. CASE ReceiveTask(w)
  <2>1. ReceiveTaskEffect(w, Head(chan[Home(w)]))
    BY <1>2, KeptParts, Zenon DEF ReceiveTask, ReceiveTaskEffect, Popped, call, shutdown,
       CallsKept, L!Receive, L!Goto
  <2> QED BY Zenon, <2>1, ReceiveTaskKeeps
<1>3. CASE ReleaseUnit(w)
  <2>1. wpc[w] = "received" /\ WorkEffect(w, "released")
    BY Zenon, <1>3 DEF ReleaseUnit, L!ReleaseUnit, L!Goto, L!outside, L!local, own, call,
       shutdown, WorkEffect, CallsKept, ChannelsKept, ShutdownKept
  <2>2. held' = held \ {wtask[w]} /\ GrantsKept
    BY ZenonT(40), <1>3, ReleaseEffect DEF ReleaseUnit, A!ReleaseOne
  <2> QED BY Zenon, <2>1, <2>2, ReleaseUnitKeeps
<1>4. CASE RunTask(w) \/ (WorkerStep(w) /\ UNCHANGED <<admission, own>>)
  <2>1. /\ CallsKept /\ ShutdownKept /\ UnitsKept /\ UNCHANGED chan
        /\ L!ClaimStep(w) \/ L!FinishStep(w) \/ L!RunTask(w)
    BY Zenon, <1>4, OwnKept DEF RunTask, WorkerStep
  <2>2. /\ wpc[w] \notin {"idle", "received"}
        /\ \E pc : pc # "received" /\ wpc' = [wpc EXCEPT ![w] = pc]
        /\ UNCHANGED <<wtask, hpc, queue>>
    BY Zenon, <2>1, WorkerEffect
  <2>3. PICK pc : pc # "received" /\ WorkEffect(w, pc)
    BY <2>1, <2>2, Zenon DEF WorkEffect, ChannelsKept
  <2> QED BY ZenonT(40), <2>1, <2>2, <2>3, WorkerKeeps
<1> QED BY ZenonT(40), <1>1, <1>2, <1>3, <1>4

(* A cancel or close call keeps it.                                          *)
LEMMA UserStepKeeps ==
  ASSUME EInv, UserStep, UNCHANGED <<admission, own>>
  PROVE  EngineInv'
<1>1. CallsKept /\ ShutdownKept /\ UnitsKept /\ UNCHANGED chan
  BY Zenon, OwnKept
<1>2. DOMAIN hpc = Tasks
  BY Zenon DEF EInv, LifeOK, LifeType
<1>3. /\ UNCHANGED <<wpc, wtask, queue>>
      /\ \A t \in Tasks : (hpc[t] \in Unreturned \/ hpc'[t] \in Unreturned)
                          => hpc'[t] = hpc[t]
  BY Zenon, <1>2, UserEffect
<1>4. ChannelsKept
  BY Zenon, <1>1, <1>3 DEF ChannelsKept
<1> QED BY ZenonT(40), <1>1, <1>3, <1>4, UserKeeps

(* The stopper gets one STOP message for every worker.                       *)
LEMMA LanesType ==
  Lanes(Workers, "thread") \o Lanes(IsoWorkers, "isolated") \in Seq(LaneNames)
<1>1. Cardinality(Workers) \in Nat /\ Cardinality(IsoWorkers) \in Nat
  BY Zenon, EngineAssumption, FS_CardinalityType
<1> QED BY <1>1, StopsType, Zenon DEF Lanes

(* A step of a shutdown call keeps it.                                       *)
LEMMA ShutdownStepKeeps ==
  ASSUME EInv, NEW s \in Shutdowns, ShutdownEnter(s) \/ ShutdownStep(s)
  PROVE  EngineInv'
<1>1. StopType
  BY Zenon DEF EInv, EngineInv
<1>2. started \in BOOLEAN /\ stops \in Seq(LaneNames) /\ shutdown_complete \in BOOLEAN
  BY Zenon, <1>1 DEF StopType
<1>3. CASE ShutdownEnter(s) \/ ShutdownReturn(s)
  <2>1. /\ UNCHANGED <<admission, lifecycle, started, stops, shutdown_complete>>
        /\ OnlyShutdown /\ \E pc \in {"error", "gate", "returned"} :
             /\ spc' = [spc EXCEPT ![s] = pc]
             /\ pc = "returned" => shutdown_complete
    BY Zenon, <1>3 DEF ShutdownEnter, ShutdownReturn, ShutdownTo
  <2>2. /\ UNCHANGED <<alive, held>> /\ GrantsKept /\ CallsKept /\ ChannelsKept /\ TasksKept
    BY Zenon, <2>1, KeptParts DEF OnlyShutdown, call, UnitsKept, GrantsKept, CallsKept, ChannelsKept
  <2>3. \E pc : ShutdownEffect(s, pc)
    BY <1>2, <2>1, <2>2, ZenonT(40) DEF ShutdownEffect, ShutdownPC, Ended
  <2> QED BY Zenon, <2>3, ShutdownKeeps
<1>4. CASE ShutdownGate(s)
  <2>1. /\ UNCHANGED <<admission, started, stops, shutdown_complete>> /\ NoSender
        /\ OnlyShutdown /\ spc' = [spc EXCEPT ![s] = "closing"]
        /\ L!SetCancelPending \/ UNCHANGED lifecycle
    BY Zenon, <1>4 DEF ShutdownGate, ShutdownTo, NoSender
  <2>2. TasksKept /\ UNCHANGED queue
    BY Zenon, <2>1, KeptParts DEF L!SetCancelPending, L!worker, TasksKept
  <2>3. UNCHANGED <<alive, held>> /\ GrantsKept /\ CallsKept /\ ChannelsKept
    BY ZenonT(40), <2>1, <2>2, KeptParts DEF OnlyShutdown, call, UnitsKept, GrantsKept, CallsKept,
       ChannelsKept
  <2>4. ShutdownEffect(s, "closing")
    BY ZenonT(40), <1>2, <2>1, <2>2, <2>3 DEF ShutdownEffect, ShutdownPC
  <2> QED BY Zenon, <2>4, ShutdownKeeps
<1>5. CASE ShutdownClose(s)
  <2>1. /\ UNCHANGED <<lifecycle, shutdown_complete>> /\ OnlyShutdown /\ A!Close
        /\ spc[s] = "closing" /\ started' = TRUE
        /\ \E pc \in {"waiting", "returned"} :
             spc' = [spc EXCEPT ![s] = pc] /\ (s \in Waiting => pc = "waiting")
        /\ stops' = stops \/ stops' = Lanes(Workers, "thread") \o Lanes(IsoWorkers, "isolated")
    BY <1>5, ZenonT(40) DEF ShutdownClose, ShutdownTo
  <2>2. UNCHANGED <<alive, held>> /\ GrantsKept /\ CallsKept /\ ChannelsKept /\ TasksKept
    BY ZenonT(40), <2>1, KeptParts, CloseEffect DEF OnlyShutdown, call, CallsKept, ChannelsKept
  <2>3. stops' \in Seq(LaneNames)
    BY ZenonT(40), <1>2, <2>1, LanesType
  <2>4. \E pc : ShutdownEffect(s, pc)
    BY <2>1, <2>2, <2>3, ZenonT(40) DEF ShutdownEffect, ShutdownPC, Ended
  <2> QED BY Zenon, <2>4, ShutdownKeeps
<1> QED BY ZenonT(40), <1>3, <1>4, <1>5 DEF ShutdownStep

(* Every step of the engine keeps its part of the invariant.                 *)
LEMMA EngineStep ==
  ASSUME EInv, DOMAIN rpc = Calls, [Next]_vars
  PROVE  EngineInv'
<1>1. CASE SendStop
  <2>1. SendStopEffect(Head(stops))
    BY Zenon, <1>1, KeptParts DEF SendStop, SendStopEffect, call, CallsKept
  <2> QED BY Zenon, <2>1, SendStopKeeps
<1>2. CASE Complete
  <2>1. /\ shutdown_complete' = TRUE /\ started /\ alive = {}
        /\ UNCHANGED <<started, spc, stops, alive>>
        /\ CallsKept /\ ChannelsKept /\ TasksKept /\ UnitsKept
    BY Zenon, <1>2, KeptParts DEF Complete, OnlyShutdown, call, CallsKept, ChannelsKept
  <2> QED BY Zenon, <2>1, CompleteKeeps
<1>3. CASE UNCHANGED vars
  <2>1. /\ UNCHANGED <<started, spc, stops, alive, shutdown_complete>>
        /\ CallsKept /\ ChannelsKept /\ TasksKept /\ UnitsKept
    BY Zenon, <1>3, KeptParts, OwnKept DEF vars, ChannelsKept, ShutdownKept
  <2>2. shutdown_complete \in BOOLEAN
    BY Zenon DEF EInv, EngineInv, StopType
  <2> QED BY ZenonT(40), <2>1, <2>2, CompleteKeeps
<1> QED BY ZenonT(40), <1>1, <1>2, <1>3, CallKeeps, WorkerStepKeeps, UserStepKeeps,
           ShutdownStepKeeps DEF Next

(* The engine starts idle and empty.                                         *)
LEMMA EngineStarts == Init => EngineInv
<1> SUFFICES ASSUME Init PROVE EngineInv
  BY Zenon
<1>1. EngineEmpty
  BY Zenon DEF Init, A!Init, L!Init, L!AllWorkers, AllWorkers, EngineEmpty, LaneNames
<1> QED BY ZenonT(40), <1>1, EngineInit, FS_EmptySet
-----------------------------------------------------------------------------
(* A waiting shutdown returns to a quiet engine.                             *)
LEMMA DrainedFromInv ==
  ASSUME EInv, LifePlaces
  PROVE  DrainedAtShutdown
<1> SUFFICES ASSUME NEW s \in Waiting, spc[s] = "returned"
             PROVE  /\ alive = {} /\ InChan = {}
                    /\ \A t \in Tasks : hpc[t] # "new" =>
                         /\ status[t] \in L!Terminal
                         /\ \/ completed[t]
                            \/ \E k \in Cancels :
                                 ktask[k] = t /\ kpc[k] \notin {"true", "false"}
  BY Zenon DEF DrainedAtShutdown
<1>1. shutdown_complete
  BY Zenon DEF EInv, EngineInv, CompleteInv
<1>2. /\ alive = {} /\ InChan = {} /\ ~Busy
      /\ \A t \in Tasks : hpc[t] # "new" => status[t] \in L!Terminal
  BY ZenonT(40), <1>1, QuietEngine DEF L!Terminal, Finished
<1> QED BY ZenonT(40), <1>2 DEF LifePlaces, L!Terminal, Finished

(* Once shutdown has started nothing enters the slab or a queue.             *)
LEMMA NothingEnters ==
  ASSUME EInv, [Next]_vars, started
  PROVE  started' /\ slab' \subseteq slab /\ queue' \subseteq queue
<1> DEFINE Goal == started' /\ slab' \subseteq slab /\ queue' \subseteq queue
<1>1. DOMAIN hpc = Tasks /\ \A c \in Calls : cpc[c] # "sending"
  BY Zenon DEF EInv, EngineInv, GateInv, NoSender, LifeOK, LifeType
<1>2. ASSUME NEW c \in Calls, EnqueueCheck(c) \/ Reserve(c) \/ CallStep(c) PROVE Goal
  <2>1. UNCHANGED <<lifecycle, started>>
    <3>1. CASE Reserve(c)
      BY ZenonT(40), <3>1 DEF Reserve, own, shutdown
    <3>2. CASE EnqueueCheck(c) \/ ReserveFailed(c) \/ BuildFails(c) \/ GateEnter(c)
               \/ RegistryFull(c)
      BY <3>2, QuietKept, ZenonT(40) DEF EnqueueCheck, ReserveFailed, BuildFails, GateEnter,
         RegistryFull
    <3>3. ~Submitted(c) /\ \A t \in Tasks : ~Send(c, t)
      BY <1>1, Zenon DEF Submitted, Send
    <3> QED BY <1>2, <3>1, <3>2, <3>3, ZenonT(40) DEF CallStep
  <2> QED BY ZenonT(40), <2>1, KeptParts
<1>3. ASSUME NEW w \in AllWorkers, ReceiveStop(w) \/ ReceiveTask(w) \/ ReleaseUnit(w)
      PROVE  Goal
  <2>1. CASE ReceiveStop(w)
    BY ZenonT(40), <2>1, KeptParts DEF ReceiveStop, shutdown
  <2>2. CASE ReceiveTask(w)
    BY ZenonT(40), <2>2 DEF ReceiveTask, L!Receive, L!store, shutdown
  <2>3. CASE ReleaseUnit(w)
    BY <2>3, ZenonT(40) DEF ReleaseUnit, L!ReleaseUnit, L!outside, L!store, own, shutdown
  <2> QED BY ZenonT(40), <1>3, <2>1, <2>2, <2>3
<1>4. ASSUME NEW w \in AllWorkers,
             RunTask(w) \/ (WorkerStep(w) /\ UNCHANGED <<admission, own>>)
      PROVE  Goal
  <2>1. ShutdownKept /\ (L!ClaimStep(w) \/ L!FinishStep(w) \/ L!RunTask(w))
    BY ZenonT(40), <1>4, OwnKept DEF RunTask, WorkerStep
  <2> QED BY ZenonT(40), <2>1, WorkerEffect DEF ShutdownKept
<1>5. CASE UserStep /\ UNCHANGED <<admission, own>>
  BY ZenonT(40), <1>1, <1>5, UserEffect, OwnKept DEF ShutdownKept
<1>6. ASSUME NEW s \in Shutdowns, ShutdownEnter(s) \/ ShutdownStep(s) PROVE Goal
  <2>1. CASE ShutdownGate(s)
    BY ZenonT(40), <2>1, KeptParts DEF ShutdownGate, L!SetCancelPending, L!store
  <2>2. CASE ShutdownClose(s)
    BY ZenonT(40), <2>2, KeptParts DEF ShutdownClose
  <2>3. CASE ShutdownEnter(s) \/ ShutdownReturn(s)
    BY <2>3, KeptParts, Zenon DEF ShutdownEnter, ShutdownReturn
  <2> QED BY ZenonT(40), <1>6, <2>1, <2>2, <2>3 DEF ShutdownStep
<1>7. CASE SendStop \/ Complete
  BY <1>7, KeptParts, ZenonT(40) DEF SendStop, Complete
<1>8. CASE UNCHANGED vars
  BY ZenonT(40), <1>8, KeptParts, OwnKept DEF vars, ShutdownKept
<1> QED BY ZenonT(40), <1>2, <1>3, <1>4, <1>5, <1>6, <1>7, <1>8 DEF Next

(* What is between 0 and the capacity is a number.                           *)
LEMMA RangeNat == \A n \in 0..Capacity : n \in Nat
BY SMT, Z3, EngineAssumption
------------------------------------------------------------------------------
AP == INSTANCE AdmissionProofs WITH Items <- Tasks
LP == INSTANCE LifecycleProofs WITH Waits <- {}, TimedWaits <- {}

IInv == AP!IInv /\ LP!SInv /\ EngineInv
-----------------------------------------------------------------------------
(* The engine's parameters are legal parameters of both parts.               *)
LEMMA PartsAssumptions == AP!AdmissionAssumption /\ LP!LifecycleAssumption
<1>1. AP!AdmissionAssumption
  BY EngineAssumption, ZenonT(40) DEF AP!IsFiniteSet, IsFiniteSet
<1>2. LP!LifecycleAssumption
  BY EngineAssumption, ZenonT(40) DEF LP!IsFiniteSet, IsFiniteSet
<1> QED BY ZenonT(40), <1>1, <1>2

(* Engine's instance of Admission and the one with the proofs are the same.  *)
LEMMA AdmissionBridge == [A!Next]_A!vars => [AP!Next]_AP!vars
BY ZenonT(40) DEF A!Next, AP!Next, A!vars, AP!vars, A!ReserveEnter,
  AP!ReserveEnter, A!ReserveGrant, AP!ReserveGrant, A!ReserveRefuse,
  AP!ReserveRefuse, A!ReserveSleep, AP!ReserveSleep, A!WakeUp, AP!WakeUp,
  A!DeadlinePasses, AP!DeadlinePasses, A!ReleaseBatch, AP!ReleaseBatch,
  A!ReleaseOne, AP!ReleaseOne, A!Close, AP!Close, A!Release, AP!Release,
  A!NotifyAll, AP!NotifyAll, A!Contending, AP!Contending, A!Count, AP!Count,
  A!Cardinality, AP!Cardinality

(* Engine's instance of Lifecycle and the one with the proofs are the same.  *)
LEMMA LifecycleBridge == [L!Next]_L!vars => [LP!Next]_LP!vars
BY ZenonT(40) DEF L!Next, LP!Next, L!vars, LP!vars, L!ClaimStep, LP!ClaimStep,
  L!FinishStep, LP!FinishStep, L!RunTask, LP!RunTask, L!CancelStep,
  LP!CancelStep, L!WaitStep, LP!WaitStep, L!CloseStep, LP!CloseStep,
  L!record, LP!record, L!notStatus, LP!notStatus, L!store, LP!store,
  L!counters, LP!counters, L!worker, LP!worker, L!cancel, LP!cancel, L!wait,
  LP!wait, L!outside, LP!outside, L!local, LP!local, L!engine, LP!engine,
  L!AllWorkers, LP!AllWorkers, L!Terminal, LP!Terminal, L!Goto, LP!Goto,
  L!Serves, LP!Serves, L!FreeTask, LP!FreeTask, L!SetCompleted,
  LP!SetCompleted, L!FinalStatus, LP!FinalStatus, L!Cancellable,
  LP!Cancellable, L!Cardinality, LP!Cardinality, L!Insert, LP!Insert,
  L!Enqueue, LP!Enqueue, L!ReturnHandles, LP!ReturnHandles,
  L!SetCancelPending, LP!SetCancelPending, L!Receive, LP!Receive,
  L!ReleaseUnit, LP!ReleaseUnit, L!Lookup, LP!Lookup, L!ShutdownCheck,
  LP!ShutdownCheck, L!CancelledCheck, LP!CancelledCheck, L!Claim, LP!Claim,
  L!ShutdownRecheck, LP!ShutdownRecheck, L!RecordShutdown, LP!RecordShutdown,
  L!Execute, LP!Execute, L!StoreResult, LP!StoreResult, L!SetStatus,
  LP!SetStatus, L!CountCompletion, LP!CountCompletion, L!Signal, LP!Signal,
  L!AutoFree, LP!AutoFree, L!CancelClaim, LP!CancelClaim, L!CancelRecord,
  LP!CancelRecord, L!CancelResult, LP!CancelResult, L!CancelSignal,
  LP!CancelSignal, L!WaitStart, LP!WaitStart, L!WaitCheck, LP!WaitCheck,
  L!WaitTimeout, LP!WaitTimeout, L!WaitStatus, LP!WaitStatus, L!WaitGet,
  LP!WaitGet, L!WaitConsume, LP!WaitConsume, L!CloseStart, LP!CloseStart,
  L!SetAutofree, LP!SetAutofree, L!AutofreeRecheck, LP!AutofreeRecheck,
  L!CloseFree, LP!CloseFree

(* The initial states of the two instances of a part are the same.           *)
LEMMA InitBridge == (A!Init => AP!Init) /\ (L!Init => LP!Init)
BY ZenonT(40) DEF A!Init, AP!Init, L!Init, LP!Init, L!AllWorkers, LP!AllWorkers

(* What the lemmas above use of Lifecycle's invariant is part of it.         *)
LEMMA LifeFacts ==
  ASSUME LP!SInv
  PROVE  LifeOK /\ PartsType
<1>1. LP!TypeOK /\ LP!Alone /\ LP!AllWorkers = AllWorkers
  BY ZenonT(40) DEF LP!SInv, LP!IInv, LP!AllWorkers, AllWorkers
<1>2. (\A w \in AllWorkers : LP!WorkerInv(w)) /\ (\A t \in Tasks : LP!TaskInv(t))
  BY ZenonT(40), <1>1 DEF LP!SInv, LP!IInv
<1>3. queue \in SUBSET Tasks /\ task_count \in Int
  BY ZenonT(40), <1>1 DEF LP!TypeOK
<1>4. Sent
  BY ZenonT(40), <1>2, <1>3 DEF LP!TaskInv, Sent
<1>5. AtWork
  BY ZenonT(40), <1>2 DEF LP!WorkerInv, AtWork
<1>6. Apart
  BY ZenonT(40), <1>1 DEF LP!Alone, Apart
<1>7. /\ DOMAIN hpc = Tasks /\ hpc = [t \in Tasks |-> hpc[t]]
      /\ DOMAIN wpc = AllWorkers /\ DOMAIN wtask = AllWorkers
  BY ZenonT(40), <1>1 DEF LP!TypeOK
<1>8. LifeOK
  BY ZenonT(40), <1>3, <1>4, <1>5, <1>6, <1>7 DEF LifeOK, LifeType
<1>9. PartsType
  BY ZenonT(40), <1>3, <1>5, <1>7 DEF PartsType, AtWork
<1> QED BY ZenonT(40), <1>8, <1>9

(* Unfinished work is with somebody, by Lifecycle's invariant.               *)
LEMMA PlaceFacts ==
  ASSUME LP!SInv
  PROVE  LifePlaces
<1>1. /\ LP!TypeOK /\ LP!AllWorkers = AllWorkers /\ LP!Unpublished
      /\ \A t \in Tasks : LP!TaskInv(t) /\ LP!PlaceInv(t)
  BY ZenonT(40) DEF LP!SInv, LP!IInv, LP!RecordInv, LP!AllWorkers, AllWorkers
<1> SUFFICES ASSUME NEW t \in Tasks
             PROVE  /\ status[t] \in {"Pending", "Running", "Completed", "Failed",
                                      "Cancelled"}
                    /\ hpc[t] \in {"new", "inserted"} => status[t] = "Pending"
                    /\ status[t] = "Running" => Busy
                    /\ status[t] = "Pending" =>
                         hpc[t] \in {"new", "inserted"} \/ t \in queue \/ Busy
                    /\ status[t] \in Finished /\ ~completed[t]
                         => Busy \/ \E k \in Cancels :
                              /\ kpc[k] \in {"record", "result", "signal"}
                              /\ ktask[k] = t
  BY ZenonT(40) DEF LifePlaces
<1>2. status[t] \in {"Pending", "Running", "Completed", "Failed", "Cancelled"}
  BY ZenonT(40), <1>1 DEF LP!TypeOK, LP!Terminal
<1>3. hpc[t] \in {"new", "inserted"} => status[t] = "Pending"
  BY ZenonT(40), <1>1 DEF LP!TaskInv
<1>4. /\ status[t] = "Running" => Busy
      /\ status[t] = "Pending" => hpc[t] \in {"new", "inserted"} \/ t \in queue \/ Busy
  BY ZenonT(40), <1>1 DEF LP!PlaceInv, LP!InMid, LP!InEarly, LP!Mid, LP!Early, Busy
<1>5. status[t] \in Finished /\ ~completed[t]
        => Busy \/ \E k \in Cancels : /\ kpc[k] \in {"record", "result", "signal"}
                                      /\ ktask[k] = t
  BY ZenonT(40), <1>1 DEF LP!Unpublished, LP!InHands, LP!InCancel, LP!Holding, LP!Mid, Busy,
       LP!Terminal, Finished
<1> QED BY ZenonT(40), <1>2, <1>3, <1>4, <1>5

(* What the lemmas above assume follows from the invariant.                  *)
LEMMA InvFacts ==
  ASSUME IInv
  PROVE  /\ EInv /\ PartsType /\ LifePlaces /\ StatsOK /\ DOMAIN rpc = Calls
         /\ held \in SUBSET Tasks /\ available \in Nat
         /\ available + Cardinality(held) = Capacity
<1>1. EInv /\ PartsType
  BY ZenonT(40), LifeFacts DEF IInv, EInv
<1>2. LifePlaces
  BY ZenonT(40), PlaceFacts DEF IInv
<1>3. DOMAIN rpc = Calls /\ held \in SUBSET Tasks /\ available \in Nat
  BY ZenonT(40), RangeNat DEF IInv, AP!IInv, AP!TypeOK
<1>4. available + Cardinality(held) = Capacity
  BY ZenonT(40) DEF IInv, AP!IInv, AP!Conservation, AP!Cardinality, Cardinality
<1>5. LP!StatsExactWhenQuiet
  BY ZenonT(40), PartsAssumptions, LP!QuietFacts DEF IInv
<1>6. StatsOK
  BY <1>5, ZenonT(40) DEF StatsOK, LP!StatsExactWhenQuiet, AllWorkers, LP!AllWorkers,
     With, LP!With, LP!Cardinality, Cardinality
<1> QED BY ZenonT(40), <1>1, <1>2, <1>3, <1>4, <1>6

(* The invariant holds initially.                                            *)
LEMMA InitIInv == Init => IInv
<1> SUFFICES ASSUME Init PROVE IInv
  BY Zenon
<1>1. AP!Init /\ LP!Init
  BY ZenonT(40), InitBridge DEF Init
<1>2. LP!SInv
  BY ZenonT(40), <1>1, PartsAssumptions, LP!InitSInv
<1>3. AP!IInv
  BY ZenonT(40), <1>1, PartsAssumptions, AP!InitIInv
<1> QED BY ZenonT(40), <1>2, <1>3, EngineStarts DEF IInv

(* The invariant is kept by every step.                                      *)
LEMMA NextIInv == IInv /\ [Next]_vars => IInv'
<1> SUFFICES ASSUME IInv, [Next]_vars PROVE IInv'
  BY ZenonT(40)
<1>1. EInv /\ PartsType /\ DOMAIN rpc = Calls
  BY ZenonT(40), InvFacts
<1>2. [AP!Next]_AP!vars /\ [LP!Next]_LP!vars
  BY ZenonT(40), <1>1, StepsOfParts, AdmissionBridge, LifecycleBridge
<1>3. AP!IInv'
  BY ZenonT(40), <1>2, PartsAssumptions, AP!StepPreserves DEF IInv
<1>4. LP!SInv'
  BY ZenonT(40), <1>2, PartsAssumptions, LP!NextSInv DEF IInv
<1>5. EngineInv'
  BY ZenonT(40), <1>1, EngineStep
<1> QED BY ZenonT(40), <1>3, <1>4, <1>5 DEF IInv
-----------------------------------------------------------------------------
(* The invariants of both parts and of the engine hold of every reachable    *)
(* state: nothing the submission gate, the channels, the workers or a        *)
(* shutdown do together breaks what QueueAdmission and Task rely on.         *)
THEOREM EngineInvariant == Safety => []IInv
BY InitIInv, NextIInv, PTL DEF Safety

(* The engine implements its parts: each of its steps is a step of admission *)
(* or leaves it alone, and the same of the life cycle of the tasks.          *)
THEOREM EngineImplementsParts == Safety => PartsRefined
<1>1. Init => A!Init /\ L!Init
  BY ZenonT(40) DEF Init
<1>2. IInv /\ [Next]_vars => [A!Next]_A!vars /\ [L!Next]_L!vars
  BY ZenonT(40), InvFacts, StepsOfParts
<1> QED BY <1>1, <1>2, EngineInvariant, PTL DEF Safety, PartsRefined, A!Safety, L!Safety

(* A unit of admission is held exactly by a task that is reserved, in a      *)
(* channel, or received and about to be released.                            *)
THEOREM UnitsHeldExactly == Safety => []HeldExact
<1>1. IInv => HeldExact
  BY ZenonT(40) DEF IInv, EngineInv
<1> QED BY <1>1, EngineInvariant, PTL

(* A reserved task always finds room in its channel and a worker to serve it: *)
(* the error paths of try_send never run.                                    *)
THEOREM SendsSucceed == Safety => []SendNeverFails
<1>1. IInv => SendNeverFails
  BY ZenonT(40), InvFacts, SendFromInv
<1> QED BY <1>1, EngineInvariant, PTL

(* A shutdown(wait=True) call returns only when every worker has left and    *)
(* every accepted task has its outcome.                                      *)
THEOREM ShutdownDrains == Safety => []DrainedAtShutdown
<1>1. IInv => DrainedAtShutdown
  BY ZenonT(40), InvFacts, DrainedFromInv
<1> QED BY <1>1, EngineInvariant, PTL

(* The statistics of an engine that has shut down add up.                    *)
THEOREM StatisticsBalance == Safety => []BooksBalance
<1>1. IInv => BooksBalance
  BY ZenonT(40), InvFacts, BooksFromInv
<1> QED BY <1>1, EngineInvariant, PTL

(* Once shutdown has started no task enters the slab or a channel, also from *)
(* a submission that had reserved before.                                    *)
THEOREM ShutdownIsFinal == Safety => NothingEntersAfterShutdown
<1>1. IInv /\ [Next]_vars
        => [started => /\ started'
                       /\ slab' \subseteq slab /\ queue' \subseteq queue]_vars
  BY ZenonT(40), InvFacts, NothingEnters
<1> QED BY <1>1, EngineInvariant, PTL DEF Safety, NothingEntersAfterShutdown
=============================================================================
