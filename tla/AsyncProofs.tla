---------------------------- MODULE AsyncProofs ----------------------------
(***************************************************************************)
(* Proofs about AsyncWait and TaskGroup, for every number of tasks, loops  *)
(* and result_async calls, every pipe size, and every group.               *)
(*                                                                         *)
(* TablesExact is inductive once it speaks of the calls one by one         *)
(* (TableInv).  GroupExitSound is not: it says nothing before __aexit__    *)
(* has returned.  GroupInv says what `exceptions` holds on the way: the    *)
(* errors of exactly the calls that are no longer awaited; and ResultInv   *)
(* what a call that returned a value knows of its task.                    *)
(***************************************************************************)
EXTENDS TaskGroup, TLAPS

Idle    == {"unborn", "new", "done"}
Running == {"ensure", "create", "check", "await", "wait", "fetch", "finally"}

(* The two tables and the calls.                                             *)
TableInv ==
  /\ pc \in [Coros -> Idle \cup Running] /\ DOMAIN fut = Coros
  /\ pending \in [Tasks -> Coros \cup {Free}]
  /\ \A t \in Tasks : t \in waiters <=> \E c \in Coros : TaskOf[c] = t /\ Active(c)
  /\ \A c, d \in Coros : Active(c) /\ Active(d) /\ TaskOf[c] = TaskOf[d] => c = d
  /\ \A t \in Tasks, q \in Coros :
       pending[t] = q => TaskOf[q] = t /\ Active(q) /\ fut[q] # "none"

(* A value came from a task that had completed; only its record may go.      *)
ResultInv ==
  /\ DOMAIN res = Coros /\ DOMAIN status = Tasks
  /\ \A c \in Coros : res[c] = "value" => status[TaskOf[c]] \in {"Completed", "Freed"}

(* The exception of a call is kept unless it only tells of the cancellation  *)
(* that the body's own exception caused.                                     *)
Kept(c) == res[c] # "value" /\ ~(body # "ok" /\ KindOf(c) = "taskCancelled")

Collected ==
  {[from |-> "body", kind |-> b] : b \in {body} \ {"ok"}}
  \cup {[from |-> c, kind |-> KindOf(c)] : c \in {x \in Children \ tasks : Kept(x)}}

(* What the exit has promised when it is over.                               *)
Reported ==
  /\ exit = "normal" <=> body = "ok" /\ \A c \in Children : res[c] = "value"
  /\ \A c \in Children :
       res[c] \in {"failed", "busy", "gone", "error"} /\ KindOf(c) = "error" =>
         \/ exit = "group" /\ [from |-> c, kind |-> "error"] \in errors
         \/ exit = "typeError" /\ body = "base"

(* __aexit__ has begun, and its wait was not cancelled.                      *)
Entered == gpc # "body" /\ exit # "cancelled"

GroupInv ==
  /\ gpc \in {"body", "wait", "report", "done"} /\ body \in BodyEnds
  /\ gpc # "done" => exit = "none"
  /\ gpc = "body" => \A c \in Children : pc[c] = "unborn"
  /\ Entered => tasks \subseteq Children /\ \A c \in Children \ tasks : pc[c] = "done"
  /\ gpc \in {"report", "done"} => tasks = {}
  /\ gpc \in {"wait", "report"} => errors = Collected
  /\ gpc = "done" /\ Entered => Reported

AInv == TableInv /\ ResultInv
GInv == AInv /\ GroupInv
-----------------------------------------------------------------------------
(* An entry of _pending_futures is the future of a call in progress.         *)
LEMMA EntryFacts ==
  ASSUME TableInv, NEW t \in Tasks, NEW q \in Coros, pending[t] = q
  PROVE  TaskOf[q] = t /\ Active(q) /\ fut[q] # "none"
<1>1. \A x \in Tasks, y \in Coros : pending[x] = y => TaskOf[y] = x /\ Active(y) /\ fut[y] # "none"
  BY Zenon DEF TableInv
<1> QED BY Zenon, <1>1

(* A call that goes on within result_async, with the tables as they are.     *)
LEMMA MoveKeeps ==
  ASSUME TableInv, NEW c \in Coros, NEW s \in Running, pc[c] \in Running, MoveTo(c, s),
         UNCHANGED <<pending, waiters>>, DOMAIN fut' = Coros,
         \A d \in Coros : fut[d] # "none" => fut'[d] # "none"
  PROVE  TableInv'
<1>1. /\ pc' \in [Coros -> Idle \cup Running]
      /\ \A d \in Coros : Active(d)' <=> Active(d)
  BY SMT, Z3 DEF TableInv, MoveTo, Active, Running, Idle
<1> QED BY Zenon, <1>1 DEF TableInv

(* The lock region at the start: the call refuses, or it becomes the one     *)
(* waiter of its task.                                                       *)
LEMMA BeginKeeps ==
  ASSUME TableInv, NEW c \in Coros, Begin(c)
  PROVE  TableInv'
<1>0. /\ pc[c] = "new" /\ UNCHANGED <<fut, pending>> /\ TaskOf[c] \in Tasks
  BY SMT, Z3, AsyncAssumption DEF Begin
<1>1. CASE TaskOf[c] \in waiters /\ MoveTo(c, "done") /\ UNCHANGED waiters
  <2>1. /\ pc' \in [Coros -> Idle \cup Running]
        /\ \A d \in Coros : Active(d)' <=> Active(d)
    BY SMT, Z3, <1>0, <1>1 DEF TableInv, MoveTo, Active, Running, Idle
  <2> QED BY ZenonT(40), <1>0, <1>1, <2>1 DEF TableInv
<1>2. CASE /\ TaskOf[c] \notin waiters /\ MoveTo(c, "ensure")
           /\ waiters' = waiters \cup {TaskOf[c]}
  <2>1. /\ pc' \in [Coros -> Idle \cup Running] /\ Active(c)' /\ ~Active(c)
        /\ \A d \in Coros : d # c => (Active(d)' <=> Active(d))
    BY SMT, Z3, <1>0, <1>2 DEF TableInv, MoveTo, Active, Running, Idle
  <2>2. \A d \in Coros : Active(d) => TaskOf[d] # TaskOf[c]
    BY Zenon, <1>0, <1>2 DEF TableInv
  <2>3. \A t \in Tasks : t \in waiters' <=> \E d \in Coros : TaskOf[d] = t /\ Active(d)'
    <3> TAKE t \in Tasks
    <3>1. CASE t = TaskOf[c]
      BY Zenon, <1>2, <2>1, <3>1
    <3>2. CASE t # TaskOf[c]
      BY Zenon, <1>2, <2>1, <3>2 DEF TableInv
    <3> QED BY Zenon, <3>1, <3>2
  <2>4. \A d, e \in Coros : Active(d)' /\ Active(e)' /\ TaskOf[d] = TaskOf[e] => d = e
    BY Zenon, <2>1, <2>2 DEF TableInv
  <2>5. ASSUME NEW t \in Tasks, NEW q \in Coros, pending'[t] = q
        PROVE  TaskOf[q] = t /\ Active(q)' /\ fut'[q] # "none"
    <3>1. TaskOf[q] = t /\ Active(q) /\ fut[q] # "none"
      BY Zenon, <1>0, <2>5, EntryFacts
    <3> QED BY Zenon, <1>0, <2>1, <3>1
  <2>6. pending' \in [Tasks -> Coros \cup {Free}] /\ DOMAIN fut' = Coros
    BY Zenon, <1>0 DEF TableInv
  <2> QED BY Zenon, <2>1, <2>3, <2>4, <2>5, <2>6 DEF TableInv
<1> QED BY Zenon, <1>1, <1>2 DEF Begin

(* The future enters the table under the task this call alone awaits.        *)
LEMMA CreateKeeps ==
  ASSUME TableInv, NEW c \in Coros, CreateFuture(c)
  PROVE  TableInv'
<1>0. TaskOf[c] \in Tasks /\ pc[c] = "create" /\ Free \notin Coros
  BY SMT, Z3, AsyncAssumption DEF CreateFuture, Runs
<1>1. /\ pc' \in [Coros -> Idle \cup Running]
      /\ (\A d \in Coros : Active(d)' <=> Active(d)) /\ Active(c)
  BY SMT, Z3, <1>0 DEF CreateFuture, TableInv, MoveTo, Active, Running, Idle
<1>2. /\ pending' \in [Tasks -> Coros \cup {Free}] /\ pending'[TaskOf[c]] = c
      /\ \A t \in Tasks : t # TaskOf[c] => pending'[t] = pending[t]
  BY SMT, Z3, <1>0 DEF CreateFuture, TableInv
<1>3. /\ DOMAIN fut' = Coros /\ fut'[c] # "none" /\ waiters' = waiters
      /\ \A d \in Coros : d # c => fut'[d] = fut[d]
  BY SMT, Z3 DEF CreateFuture, TableInv
<1>4. ASSUME NEW t \in Tasks, NEW q \in Coros, pending'[t] = q
      PROVE  TaskOf[q] = t /\ Active(q)' /\ fut'[q] # "none"
  <2>1. CASE t = TaskOf[c]
    BY Zenon, <1>1, <1>2, <1>3, <1>4, <2>1
  <2>2. CASE t # TaskOf[c]
    <3>1. TaskOf[q] = t /\ Active(q) /\ fut[q] # "none"
      BY ZenonT(40), <1>2, <1>4, <2>2 DEF TableInv
    <3> QED BY Zenon, <1>1, <1>3, <2>2, <3>1
  <2> QED BY Zenon, <2>1, <2>2
<1> QED BY Zenon, <1>1, <1>2, <1>3, <1>4 DEF TableInv

(* The `finally`: the call takes its future and itself out of the tables.    *)
LEMMA FinallyKeeps ==
  ASSUME TableInv, NEW c \in Coros, Finally(c)
  PROVE  TableInv'
<1>0. TaskOf[c] \in Tasks /\ pc[c] = "finally" /\ Free \notin Coros
  BY SMT, Z3, AsyncAssumption DEF Finally, Runs
<1>1. /\ pc' \in [Coros -> Idle \cup Running] /\ Active(c) /\ ~Active(c)'
      /\ \A d \in Coros : d # c => (Active(d)' <=> Active(d))
  BY SMT, Z3, <1>0 DEF Finally, TableInv, MoveTo, Active, Running, Idle
<1>2. /\ pending' \in [Tasks -> Coros \cup {Free}]
      /\ pending'[TaskOf[c]] = IF pending[TaskOf[c]] = c THEN Free ELSE pending[TaskOf[c]]
      /\ \A t \in Tasks : t # TaskOf[c] => pending'[t] = pending[t]
  BY SMT, Z3, <1>0 DEF Finally, TableInv
<1>3. /\ DOMAIN fut' = Coros /\ waiters' = waiters \ {TaskOf[c]}
      /\ \A d \in Coros : d # c => fut'[d] = fut[d]
  BY SMT, Z3 DEF Finally, TableInv
<1>4. ASSUME NEW t \in Tasks, NEW q \in Coros, pending'[t] = q
      PROVE  TaskOf[q] = t /\ Active(q)' /\ fut'[q] # "none"
  <2>1. pending[t] = q /\ q # c
    <3>1. CASE t = TaskOf[c]
      BY SMT, Z3, <1>0, <1>2, <1>4, <3>1
    <3>2. CASE t # TaskOf[c]
      <4>1. pending[t] = q
        BY Zenon, <1>2, <1>4, <3>2
      <4>2. TaskOf[q] = t
        BY Zenon, <4>1 DEF TableInv
      <4> QED BY Zenon, <3>2, <4>1, <4>2
    <3> QED BY Zenon, <3>1, <3>2
  <2> QED BY Zenon, <1>1, <1>3, <2>1 DEF TableInv
<1>5. \A t \in Tasks : t \in waiters' <=> \E d \in Coros : TaskOf[d] = t /\ Active(d)'
  <2> TAKE t \in Tasks
  <2>1. CASE t = TaskOf[c]
    BY Zenon, <1>1, <1>3, <2>1 DEF TableInv
  <2>2. CASE t # TaskOf[c]
    BY Zenon, <1>1, <1>3, <2>2 DEF TableInv
  <2> QED BY Zenon, <2>1, <2>2
<1>6. \A d, e \in Coros : Active(d)' /\ Active(e)' /\ TaskOf[d] = TaskOf[e] => d = e
  BY Zenon, <1>1 DEF TableInv
<1> QED BY Zenon, <1>1, <1>2, <1>3, <1>4, <1>5, <1>6 DEF TableInv

(* _resolve_future_safe takes an entry out of _pending_futures and completes *)
(* the future it found there.                                                *)
LEMMA ResolveKeeps ==
  ASSUME TableInv, NEW l \in Loops, NEW t \in Tasks, ResolveFutureSafe(l, t)
  PROVE  TableInv'
<1>0. UNCHANGED <<pc, waiters>> /\ Free \notin Coros
  BY Zenon, AsyncAssumption DEF ResolveFutureSafe
<1>1. \A d \in Coros : Active(d)' <=> Active(d)
  BY Zenon, <1>0 DEF Active
<1>2. CASE UNCHANGED <<pending, fut>>
  BY Zenon, <1>0, <1>1, <1>2 DEF TableInv
<1>3. CASE ~UNCHANGED <<pending, fut>>
  <2>1. /\ pending' = [pending EXCEPT ![t] = Free]
        /\ \E x : x # "none" /\ fut' = [fut EXCEPT ![pending[t]] = x]
    BY SMT, Z3, <1>3 DEF ResolveFutureSafe
  <2>2. /\ pending' \in [Tasks -> Coros \cup {Free}] /\ DOMAIN fut' = Coros
        /\ \A x \in Tasks, q \in Coros : pending'[x] = q => pending[x] = q
        /\ \A d \in Coros : fut[d] # "none" => fut'[d] # "none"
    BY SMT, Z3, <1>0, <2>1 DEF TableInv
  <2>3. ASSUME NEW x \in Tasks, NEW q \in Coros, pending'[x] = q
        PROVE  TaskOf[q] = x /\ Active(q)' /\ fut'[q] # "none"
    <3>1. TaskOf[q] = x /\ Active(q) /\ fut[q] # "none"
      BY Zenon, <2>2, <2>3, EntryFacts
    <3> QED BY Zenon, <1>1, <2>2, <3>1
  <2> QED BY ZenonT(40), <1>0, <1>1, <2>2, <2>3 DEF TableInv
<1> QED BY Zenon, <1>2, <1>3
-----------------------------------------------------------------------------
(* What a step does to the records and to the calls that are over: a         *)
(* finished task stays finished until it is freed, and a call that has       *)
(* returned stays as it is.                                                  *)
Settled(t) == status[t] \in {"Completed", "Freed"}

Steady ==
  /\ DOMAIN status' = Tasks /\ DOMAIN res' = Coros
  /\ \A t \in Tasks : Settled(t) => Settled(t)'
  /\ \A c \in Coros : /\ pc[c] = "done" => pc'[c] = "done" /\ res'[c] = res[c]
                      /\ pc[c] = "unborn" => pc'[c] = "unborn"
                      /\ res'[c] = "value" => res[c] = "value" \/ Settled(TaskOf[c])'

(* cancel_task leaves alone what has finished.                               *)
LEMMA CancelSteady ==
  ASSUME NEW S, DOMAIN status = Tasks, CancelTasks(S)
  PROVE  DOMAIN status' = Tasks /\ \A t \in Tasks : Settled(t) => Settled(t)'
<1>1. PICK C \in SUBSET {t \in S : status[t] = "Open"} :
        status' = [t \in Tasks |-> IF t \in C THEN "Cancelled" ELSE status[t]]
  BY Zenon DEF CancelTasks
<1>2. \A t \in C : status[t] = "Open"
  BY Zenon
<1> QED BY SMT, Z3, <1>1, <1>2 DEF Settled

(* The engine's steps and those of other threads.                            *)
LEMMA EngineSteady ==
  ASSUME ResultInv, NEW t \in Tasks, Engine(t) \/ CancelTask(t) \/ Close(t)
  PROVE  Steady /\ UNCHANGED coroVars
<1>1. UNCHANGED coroVars
  BY Zenon DEF Engine, Finish, NotifyWaker, CancelTask, Close
<1>2. UNCHANGED <<pc, res>>
  BY Zenon, <1>1 DEF coroVars
<1>3. DOMAIN status' = Tasks /\ \A x \in Tasks : Settled(x) => Settled(x)'
  <2>1. CASE Finish(t)
    BY SMT, Z3, <2>1 DEF Finish, ResultInv, Settled
  <2>2. CASE NotifyWaker(t)
    BY SMT, Z3, <2>2 DEF NotifyWaker, ResultInv, Settled
  <2>3. CASE CancelTask(t)
    BY Zenon, <2>3, CancelSteady DEF CancelTask, ResultInv
  <2>4. CASE Close(t)
    BY SMT, Z3, <2>4 DEF Close, ResultInv, Settled, Terminal
  <2> QED BY Zenon, <2>1, <2>2, <2>3, <2>4 DEF Engine
<1> QED BY Zenon, <1>1, <1>2, <1>3 DEF Steady, ResultInv

(* A call changes only its own state, and none once it has returned.  It     *)
(* ends with a value only as it finds its task completed.                    *)
LEMMA CallSteady ==
  ASSUME TableInv, ResultInv, NEW c \in Coros, ResultAsync(c)
  PROVE  Steady
<1>0. DOMAIN status = Tasks /\ DOMAIN res = Coros /\ DOMAIN pc = Coros /\ TaskOf[c] \in Tasks
  BY SMT, Z3, AsyncAssumption DEF TableInv, ResultInv
<1>1. pc[c] \notin {"done", "unborn"}
  BY SMT, Z3 DEF ResultAsync, Begin, EnsureWaker, CreateFuture, CheckStatus, Resume, TimeOut, WaitNow,
     Fetch, Finally, Runs
<1>2. \E s : s # "unborn" /\ pc' = [pc EXCEPT ![c] = s]
  BY SMT, Z3 DEF ResultAsync, Begin, EnsureWaker, CreateFuture, CheckStatus, Resume, TimeOut, WaitNow,
     Fetch, Finally, Runs, MoveTo
<1>3. \A d \in Coros : d # c => pc'[d] = pc[d]
  BY SMT, Z3, <1>0, <1>2
<1>4. CASE Fetch(c)
  <2>1. status' = IF status[TaskOf[c]] = "Completed" /\ c \notin Keeps
                  THEN [status EXCEPT ![TaskOf[c]] = "Freed"] ELSE status
    BY Zenon, <1>4 DEF Fetch
  <2>2. DOMAIN status' = Tasks /\ \A t \in Tasks : Settled(t) => Settled(t)'
    BY SMT, Z3, <1>0, <2>1 DEF Settled
  <2>3. PICK r : r = CASE status[TaskOf[c]] = "Completed" -> "value"
                       [] status[TaskOf[c]] = "Failed" -> "failed"
                       [] OTHER -> "gone"
    BY Zenon
  <2>4. res' = [res EXCEPT ![c] = r] /\ (r = "value" => Settled(TaskOf[c]))
    BY SMT, Z3, <1>4, <2>3 DEF Fetch, EndsAs, Settled
  <2>5. DOMAIN res' = Coros /\ res'[c] = r /\ \A d \in Coros : d # c => res'[d] = res[d]
    BY SMT, Z3, <1>0, <2>4
  <2>6. r = "value" => Settled(TaskOf[c])'
    BY Zenon, <1>0, <2>2, <2>4
  <2> QED BY Zenon, <1>1, <1>3, <2>2, <2>5, <2>6 DEF Steady
<1>5. CASE ~Fetch(c)
  <2>1. UNCHANGED status
    BY Zenon, <1>5 DEF ResultAsync, Begin, EnsureWaker, CreateFuture, CheckStatus, Resume,
       TimeOut, WaitNow, Finally, taskVars
  <2>2. res' = res \/ \E r : r # "value" /\ res' = [res EXCEPT ![c] = r]
    BY SMT, Z3, <1>5 DEF ResultAsync, Begin, EnsureWaker, CreateFuture, CheckStatus, Resume,
       TimeOut, WaitNow, Finally, EndsAs
  <2>3. /\ DOMAIN res' = Coros /\ (\A d \in Coros : d # c => res'[d] = res[d])
        /\ res'[c] = "value" => res[c] = "value"
    BY SMT, Z3, <1>0, <2>2
  <2> QED BY Zenon, <1>0, <1>1, <1>3, <2>1, <2>3 DEF Steady, Settled
<1> QED BY Zenon, <1>4, <1>5

(* Each step of a call keeps the tables exact.                               *)
LEMMA CallKeeps ==
  ASSUME TableInv, NEW c \in Coros, ResultAsync(c)
  PROVE  TableInv'
<1>1. ASSUME EnsureWaker(c) \/ CheckStatus(c) \/ Resume(c) \/ TimeOut(c) \/ WaitNow(c) \/ Fetch(c)
      PROVE  TableInv'
  <2>1. pc[c] \in Running /\ UNCHANGED <<pending, waiters>>
    BY SMT, Z3, <1>1 DEF EnsureWaker, CheckStatus, Resume, TimeOut, WaitNow, Fetch, Runs, Running
  <2>2. \E s \in Running : MoveTo(c, s)
    BY SMT, Z3, <1>1 DEF EnsureWaker, CheckStatus, Resume, TimeOut, WaitNow, Fetch, Running
  <2>3. \/ fut' = fut
        \/ fut' = [fut EXCEPT ![c] = IF @ = "pending" THEN "cancelled" ELSE @]
    BY Zenon, <1>1 DEF EnsureWaker, CheckStatus, Resume, TimeOut, WaitNow, Fetch
  <2>4. DOMAIN fut' = Coros /\ \A d \in Coros : fut[d] # "none" => fut'[d] # "none"
    BY SMT, Z3, <2>3 DEF TableInv
  <2> QED BY Zenon, <2>1, <2>2, <2>4, MoveKeeps
<1> QED BY Zenon, <1>1, BeginKeeps, CreateKeeps, FinallyKeeps DEF ResultAsync

(* Steps that leave the calls and the tables alone.                          *)
LEMMA TableFrame ==
  ASSUME TableInv, UNCHANGED <<pc, fut, pending, waiters>>
  PROVE  TableInv'
<1>1. \A c \in Coros : Active(c)' <=> Active(c)
  BY Zenon DEF Active
<1>2. ASSUME NEW t \in Tasks, NEW q \in Coros, pending'[t] = q
      PROVE  TaskOf[q] = t /\ Active(q)' /\ fut'[q] # "none"
  <2>1. TaskOf[q] = t /\ Active(q) /\ fut[q] # "none"
    BY Zenon, <1>2, EntryFacts
  <2> QED BY Zenon, <1>1, <2>1
<1> QED BY Zenon, <1>1, <1>2 DEF TableInv

(* A steady step keeps what the calls know of their tasks.                   *)
LEMMA ResultKeeps ==
  ASSUME ResultInv, Steady
  PROVE  ResultInv'
<1>1. \A c \in Coros : TaskOf[c] \in Tasks
  BY SMT, Z3, AsyncAssumption
<1>2. \A c \in Coros : res[c] = "value" => Settled(TaskOf[c])
  BY Zenon DEF ResultInv, Settled
<1>3. \A c \in Coros : res'[c] = "value" => Settled(TaskOf[c])'
  BY Zenon, <1>1, <1>2 DEF Steady
<1> QED BY Zenon, <1>3 DEF ResultInv, Steady, Settled

(* The steps a group shares with any other use of the awaits.                *)
LEMMA AsyncKeeps ==
  ASSUME AInv, AsyncStep
  PROVE  AInv' /\ Steady
<1>0. TableInv /\ ResultInv
  BY Zenon DEF AInv
<1>1. ASSUME NEW t \in Tasks, Engine(t) \/ CancelTask(t) \/ Close(t) PROVE TableInv' /\ Steady
  <2>1. Steady /\ UNCHANGED <<pc, fut, pending, waiters>>
    BY Zenon, <1>0, <1>1, EngineSteady DEF coroVars
  <2> QED BY Zenon, <1>0, <2>1, TableFrame
<1>2. ASSUME NEW c \in Coros, ResultAsync(c) PROVE TableInv' /\ Steady
  BY Zenon, <1>0, <1>2, CallKeeps, CallSteady
<1>3. ASSUME UNCHANGED <<status, pc, res>> PROVE Steady
  BY Zenon, <1>0, <1>3 DEF Steady, ResultInv, Settled
<1>4. ASSUME NEW l \in Loops, NEW t \in Tasks, ResolveFutureSafe(l, t) PROVE TableInv' /\ Steady
  <2>1. UNCHANGED <<status, pc, res>>
    BY Zenon, <1>4 DEF ResolveFutureSafe, taskVars
  <2> QED BY Zenon, <1>0, <1>3, <1>4, <2>1, ResolveKeeps
<1>5. ASSUME NEW g \in Gens, WakerThread(g) PROVE TableInv' /\ Steady
  <2>1. UNCHANGED <<status, pc, res, fut, pending, waiters>>
    BY Zenon, <1>5 DEF WakerThread, taskVars
  <2> QED BY Zenon, <1>0, <1>3, <2>1, TableFrame
<1>6. TableInv' /\ Steady
  BY Zenon, <1>1, <1>2, <1>4, <1>5 DEF AsyncStep
<1> QED BY Zenon, <1>0, <1>6, ResultKeeps DEF AInv

(* The tables are exact, as the invariant says call by call.                 *)
LEMMA TablesHold == TableInv => TablesExact
<1> SUFFICES ASSUME TableInv, NEW t \in Tasks, NEW A, A = {c \in Coros : TaskOf[c] = t /\ Active(c)}
             PROVE  /\ t \in waiters <=> A # {}
                    /\ \A c, d \in A : c = d
                    /\ pending[t] # Free => pending[t] \in A /\ fut[pending[t]] # "none"
  BY Zenon DEF TablesExact
<1>1. t \in waiters <=> A # {}
  BY Zenon DEF TableInv
<1>2. \A c, d \in A : c = d
  BY Zenon DEF TableInv
<1>3. ASSUME pending[t] # Free PROVE pending[t] \in A /\ fut[pending[t]] # "none"
  <2>1. pending[t] \in Coros
    BY SMT, Z3, <1>3 DEF TableInv
  <2>2. TaskOf[pending[t]] = t /\ Active(pending[t]) /\ fut[pending[t]] # "none"
    BY Zenon, <2>1, EntryFacts
  <2> QED BY Zenon, <2>1, <2>2
<1> QED BY Zenon, <1>1, <1>2, <1>3

(* At the start no task is awaited.                                          *)
LEMMA InitAInv == Init => AInv
<1> SUFFICES ASSUME Init PROVE AInv
  BY SMT, Z3
<1>1. pc \in [Coros -> Idle \cup Running] /\ \A c \in Coros : ~Active(c)
  BY SMT, Z3 DEF Init, Idle, Active
<1>2. /\ DOMAIN fut = Coros /\ pending \in [Tasks -> Coros \cup {Free}] /\ waiters = {}
      /\ \A t \in Tasks, q \in Coros : pending[t] # q
  BY SMT, Z3, AsyncAssumption DEF Init
<1>3. ResultInv
  BY SMT, Z3 DEF Init, ResultInv
<1> QED BY Zenon, <1>1, <1>2, <1>3 DEF AInv, TableInv
-----------------------------------------------------------------------------
(* _async_waiters and _pending_futures tell the truth about the calls, for   *)
(* any number of calls, timeouts, cancellations and tear-downs of the waker. *)
THEOREM AsyncTables == AsyncSpec => []TablesExact
<1>1. AInv /\ [AsyncNext]_vars => AInv'
  <2> SUFFICES ASSUME AInv, [AsyncNext]_vars PROVE AInv'
    BY SMT, Z3
  <2>1. ASSUME UNCHANGED <<status, pc, res, fut, pending, waiters>> PROVE AInv'
    BY Zenon, <2>1, TableFrame DEF AInv, ResultInv
  <2>2. CASE CleanupWaker
    BY Zenon, <2>1, <2>2 DEF CleanupWaker, taskVars
  <2>3. CASE UNCHANGED vars
    BY Zenon, <2>1, <2>3 DEF vars
  <2> QED BY Zenon, <2>2, <2>3, AsyncKeeps DEF AsyncNext
<1>2. AInv => TablesExact
  BY Zenon, TablesHold DEF AInv
<1> QED BY InitAInv, <1>1, <1>2, PTL DEF AsyncSpec
-----------------------------------------------------------------------------
(* The steps of the awaits leave the exit of a group where it is.            *)
LEMMA GroupFrame ==
  ASSUME GroupInv, Steady, UNCHANGED groupVars
  PROVE  GroupInv'
<1>0. Children \subseteq Coros
  BY SMT, Z3, AsyncAssumption
<1>1. UNCHANGED <<gpc, body, tasks, errors, exit>>
  BY Zenon DEF groupVars
<1>2. \A c \in Children : pc[c] = "done" => pc'[c] = "done" /\ res'[c] = res[c]
  BY Zenon, <1>0 DEF Steady
<1>3. \A c \in Children : pc[c] = "done" => KindOf(c)' = KindOf(c) /\ (Kept(c)' <=> Kept(c))
  BY Zenon, <1>1, <1>2 DEF KindOf, Kept
<1>4. Entered => \A c \in Children \ tasks : pc[c] = "done"
  BY Zenon DEF GroupInv
<1>5. Entered => Collected' = Collected
  <2> SUFFICES ASSUME Entered PROVE Collected' = Collected
    BY Zenon
  <2>1. \A c \in Children \ tasks : KindOf(c)' = KindOf(c) /\ (Kept(c)' <=> Kept(c))
    BY Zenon, <1>3, <1>4
  <2> QED BY Zenon, <1>1, <2>1 DEF Collected
<1>6. gpc = "done" /\ Entered => (Reported => Reported')
  <2> SUFFICES ASSUME gpc = "done", Entered, Reported PROVE Reported'
    BY Zenon
  <2>1. \A c \in Children : pc[c] = "done"
    BY SMT, Z3 DEF GroupInv
  <2>2. \A c \in Children : res'[c] = res[c] /\ KindOf(c)' = KindOf(c)
    BY Zenon, <1>2, <1>3, <2>1
  <2>3. exit' = "normal" <=> body' = "ok" /\ \A c \in Children : res'[c] = "value"
    BY Zenon, <1>1, <2>2 DEF Reported
  <2>4. ASSUME NEW c \in Children, res'[c] \in {"failed", "busy", "gone", "error"},
               KindOf(c)' = "error"
        PROVE  \/ exit' = "group" /\ [from |-> c, kind |-> "error"] \in errors'
               \/ exit' = "typeError" /\ body' = "base"
    <3>1. res[c] \in {"failed", "busy", "gone", "error"} /\ KindOf(c) = "error"
      BY Zenon, <2>2, <2>4
    <3> QED BY Zenon, <1>1, <3>1 DEF Reported
  <2> QED BY Zenon, <2>3, <2>4 DEF Reported
<1>7. \A c \in Children : pc[c] = "unborn" => pc'[c] = "unborn"
  BY Zenon, <1>0 DEF Steady
<1>8. Entered' <=> Entered
  BY Zenon, <1>1 DEF Entered
<1>9. /\ (gpc' \in {"wait", "report"} => errors' = Collected')
      /\ (gpc' = "done" /\ Entered' => Reported')
  <2>1. gpc \in {"wait", "report"} => Entered /\ errors = Collected
    BY SMT, Z3 DEF GroupInv, Entered
  <2>2. gpc = "done" /\ Entered => Reported
    BY Zenon DEF GroupInv
  <2> QED BY Zenon, <1>1, <1>5, <1>6, <1>8, <2>1, <2>2
<1> QED BY Zenon, <1>1, <1>2, <1>7, <1>8, <1>9 DEF GroupInv

(* __aexit__ begins: the calls it makes are new.                             *)
LEMMA ExitBeginKeeps ==
  ASSUME GInv, ExitBegin
  PROVE  GInv'
<1>0. Children \subseteq Coros /\ TableInv /\ ResultInv /\ gpc = "body" /\ exit = "none"
  BY SMT, Z3, AsyncAssumption DEF GInv, AInv, GroupInv, ExitBegin
<1>1. \A c \in Children : pc[c] = "unborn"
  BY Zenon, <1>0 DEF GInv, GroupInv
<1>2. PICK b \in BodyEnds :
        /\ body' = b /\ errors' = IF b = "ok" THEN {} ELSE {[from |-> "body", kind |-> b]}
        /\ IF b = "ok" THEN UNCHANGED <<status, owed>> ELSE Cancel
  BY Zenon DEF ExitBegin
<1>3. /\ pc' = [c \in Coros |-> IF c \in Children THEN "new" ELSE pc[c]] /\ tasks' = Children
      /\ gpc' \in {"report", "wait"} /\ (gpc' = "report" => Children = {})
      /\ UNCHANGED <<res, fut, pending, waiters, exit>>
  BY SMT, Z3 DEF ExitBegin
<1>4. TableInv'
  <2>1. pc' \in [Coros -> Idle \cup Running] /\ \A c \in Coros : Active(c)' <=> Active(c)
    BY SMT, Z3, <1>0, <1>1, <1>3 DEF TableInv, Idle, Running, Active
  <2>2. ASSUME NEW t \in Tasks, NEW q \in Coros, pending'[t] = q
        PROVE  TaskOf[q] = t /\ Active(q)' /\ fut'[q] # "none"
    <3>1. TaskOf[q] = t /\ Active(q) /\ fut[q] # "none"
      BY Zenon, <1>0, <1>3, <2>2, EntryFacts
    <3> QED BY Zenon, <1>3, <2>1, <3>1
  <2> QED BY Zenon, <1>0, <1>3, <2>1, <2>2 DEF TableInv
<1>5. ResultInv'
  <2>1. DOMAIN status' = Tasks /\ \A t \in Tasks : Settled(t) => Settled(t)'
    BY Zenon, <1>0, <1>2, CancelSteady DEF Cancel, ResultInv, Settled
  <2>2. \A c \in Coros : TaskOf[c] \in Tasks
    BY SMT, Z3, AsyncAssumption
  <2> QED BY Zenon, <1>0, <1>3, <2>1, <2>2 DEF ResultInv, Settled
<1>6. errors' = Collected'
  <2>1. Children \ tasks' = {}
    BY Zenon, <1>3
  <2>2. Collected' = {[from |-> "body", kind |-> x] : x \in {b} \ {"ok"}}
    BY Zenon, <1>2, <2>1 DEF Collected
  <2> QED BY Zenon, <1>2, <2>2
<1>7. GroupInv'
  BY SMT, Z3, <1>0, <1>2, <1>3, <1>6 DEF GroupInv
<1> QED BY Zenon, <1>4, <1>5, <1>7 DEF GInv, AInv

(* asyncio.wait returns: the calls that are done leave `tasks`, and their    *)
(* exceptions are collected.                                                 *)
LEMMA WaitKeeps ==
  ASSUME GInv, WaitFirstException
  PROVE  GInv'
<1>0. /\ Children \subseteq Coros /\ TableInv /\ ResultInv /\ GroupInv /\ gpc = "wait"
      /\ UNCHANGED <<pc, res, fut, pending, waiters, body, exit>>
  BY Zenon, AsyncAssumption DEF GInv, AInv, WaitFirstException, coroVars
<1>1. PICK D, K : /\ D = {c \in tasks : pc[c] = "done"}
                  /\ K = {c \in {x \in D : res[x] # "value"} :
                            ~(body # "ok" /\ KindOf(c) = "taskCancelled")}
  BY Zenon
<1>2. /\ errors' = errors \cup {[from |-> c, kind |-> KindOf(c)] : c \in K}
      /\ tasks' = tasks \ D /\ (UNCHANGED <<status, owed>> \/ Cancel)
      /\ gpc' = IF tasks' = {} THEN "report" ELSE "wait"
  BY Zenon, <1>1 DEF WaitFirstException
<1>3. /\ tasks \subseteq Children /\ (\A c \in Children \ tasks : pc[c] = "done")
      /\ errors = Collected /\ exit = "none"
  BY SMT, Z3, <1>0 DEF GroupInv, Entered
<1>4. \A c : KindOf(c)' = KindOf(c) /\ (Kept(c)' <=> Kept(c))
  BY Zenon, <1>0 DEF KindOf, Kept
<1>5. {x \in Children \ tasks' : Kept(x)'} = {x \in Children \ tasks : Kept(x)} \cup K
  <2>1. \A x : x \in K <=> x \in tasks /\ x \in D /\ Kept(x)
    BY Zenon, <1>1 DEF Kept
  <2> QED BY Zenon, <1>2, <1>3, <1>4, <2>1
<1>6. errors' = Collected'
  <2>1. Collected' = {[from |-> "body", kind |-> x] : x \in {body} \ {"ok"}}
          \cup {[from |-> c, kind |-> KindOf(c)] : c \in {x \in Children \ tasks' : Kept(x)'}}
    BY Zenon, <1>0, <1>4 DEF Collected
  <2>2. Collected' = {[from |-> "body", kind |-> x] : x \in {body} \ {"ok"}}
          \cup {[from |-> c, kind |-> KindOf(c)] : c \in {x \in Children \ tasks : Kept(x)} \cup K}
    BY Zenon, <1>5, <2>1
  <2> QED BY Zenon, <1>2, <1>3, <2>2 DEF Collected
<1>7. ResultInv'
  <2>1. DOMAIN status' = Tasks /\ \A t \in Tasks : Settled(t) => Settled(t)'
    BY Zenon, <1>0, <1>2, CancelSteady DEF Cancel, ResultInv, Settled
  <2>2. \A c \in Coros : TaskOf[c] \in Tasks
    BY SMT, Z3, AsyncAssumption
  <2> QED BY Zenon, <1>0, <2>1, <2>2 DEF ResultInv, Settled
<1>8. \A c \in Children \ tasks' : pc'[c] = "done"
  BY Zenon, <1>0, <1>1, <1>2, <1>3
<1>9. GroupInv'
  <2>1. gpc' \in {"report", "wait"} /\ (gpc' = "report" => tasks' = {}) /\ tasks' \subseteq Children
    BY SMT, Z3, <1>2, <1>3
  <2>2. body' \in BodyEnds
    BY Zenon, <1>0 DEF GroupInv
  <2> QED BY SMT, Z3, <1>0, <1>3, <1>6, <1>8, <2>1, <2>2 DEF GroupInv
<1>10. TableInv'
  BY Zenon, <1>0, TableFrame
<1> QED BY Zenon, <1>7, <1>9, <1>10 DEF GInv, AInv

(* The report: only errors about cancellation are dropped, and only when     *)
(* there is another error.                                                   *)
LEMMA ReportKeeps ==
  ASSUME GInv, Report
  PROVE  GInv'
<1>0. /\ Children \subseteq Coros /\ TableInv /\ ResultInv /\ GroupInv /\ gpc = "report"
      /\ UNCHANGED <<status, pc, res, fut, pending, waiters, body, tasks>> /\ gpc' = "done"
  BY Zenon, AsyncAssumption DEF GInv, AInv, Report, coroVars, taskVars
<1>1. tasks = {} /\ (\A c \in Children : pc[c] = "done") /\ errors = Collected /\ body \in BodyEnds
  BY SMT, Z3, <1>0 DEF GroupInv, Entered
<1>2. PICK R : R = {e \in errors : e.kind \notin {"taskCancelled", "saysCancelled"}}
  BY Zenon
<1>3. /\ errors' = IF R # {} THEN R ELSE errors
      /\ exit' \in CASE errors' = {} -> {"normal"}
                     [] errors' = {[from |-> "body", kind |-> body]} -> {"reraise"}
                     [] OTHER -> IF body = "base" THEN {"group", "typeError"} ELSE {"group"}
  BY Zenon, <1>2 DEF Report
<1>4. /\ errors' = {} <=> errors = {}
      /\ exit' = "normal" <=> errors' = {}
      /\ (errors' # {} /\ errors' # {[from |-> "body", kind |-> body]}) =>
           exit' = "group" \/ (exit' = "typeError" /\ body = "base")
  <2>1. R \subseteq errors
    BY Zenon, <1>2
  <2>2. errors' = {} <=> errors = {}
    BY Zenon, <1>3, <2>1
  <2>3. PICK B : B = {[from |-> "body", kind |-> body]} /\ B # {}
    BY Zenon
  <2>4. exit' \in CASE errors' = {} -> {"normal"} [] errors' = B -> {"reraise"}
                   [] OTHER -> IF body = "base" THEN {"group", "typeError"} ELSE {"group"}
    BY Zenon, <1>3, <2>3
  <2>5. /\ exit' = "normal" <=> errors' = {}
        /\ errors' # {} /\ errors' # B =>
             exit' = "group" \/ (exit' = "typeError" /\ body = "base")
    <3>1. PICK E : E = errors'
      BY Zenon
    <3>2. exit' \in CASE E = {} -> {"normal"} [] E = B -> {"reraise"}
                     [] OTHER -> IF body = "base" THEN {"group", "typeError"} ELSE {"group"}
      BY Zenon, <2>4, <3>1
    <3>3. B # {}
      BY Zenon, <2>3
    <3>4. CASE E = {}
      BY SMT, Z3, <3>1, <3>2, <3>3, <3>4
    <3>5. CASE E = B
      BY SMT, Z3, <3>1, <3>2, <3>3, <3>5
    <3>6. CASE E # {} /\ E # B
      <4>1. exit' \in IF body = "base" THEN {"group", "typeError"} ELSE {"group"}
        BY Zenon, <3>2, <3>6
      <4>2. exit' = "group" \/ (exit' = "typeError" /\ body = "base")
        BY SMT, Z3, <4>1
      <4>3. exit' # "normal"
        BY SMT, Z3, <4>2
      <4> QED BY Zenon, <3>1, <3>6, <4>2, <4>3
    <3> QED BY Zenon, <3>4, <3>5, <3>6
  <2> QED BY Zenon, <2>2, <2>3, <2>5
<1>5. errors = {} <=> body = "ok" /\ \A c \in Children : res[c] = "value"
  <2>1. body = "ok" => \A c : Kept(c) <=> res[c] # "value"
    BY Zenon DEF Kept
  <2>2. body # "ok" => [from |-> "body", kind |-> body] \in errors
    BY Zenon, <1>1 DEF Collected
  <2>3. \A c \in Children : Kept(c) => [from |-> c, kind |-> KindOf(c)] \in errors
    BY Zenon, <1>1 DEF Collected
  <2>4. ASSUME body = "ok", \A c \in Children : res[c] = "value" PROVE errors = {}
    <3>1. {x \in Children \ tasks : Kept(x)} = {}
      BY Zenon, <2>1, <2>4
    <3> QED BY Zenon, <1>1, <2>4, <3>1 DEF Collected
  <2> QED BY Zenon, <2>1, <2>2, <2>3, <2>4
<1>6. ASSUME NEW c \in Children, res[c] \in {"failed", "busy", "gone", "error"},
             KindOf(c) = "error"
      PROVE  \/ exit' = "group" /\ [from |-> c, kind |-> "error"] \in errors'
             \/ exit' = "typeError" /\ body = "base"
  <2>1. PICK e : e = [from |-> c, kind |-> "error"]
    BY Zenon
  <2>2. e.kind = "error" /\ e # [from |-> "body", kind |-> body]
    BY SMT, Z3, <1>0, <2>1, GroupAssumption
  <2>3. Kept(c)
    BY SMT, Z3, <1>6 DEF Kept
  <2>4. e \in errors
    BY Zenon, <1>1, <1>6, <2>1, <2>3 DEF Collected
  <2>5. e \in R
    BY SMT, Z3, <1>2, <2>2, <2>4
  <2>6. e \in errors'
    BY Zenon, <1>3, <2>5
  <2> QED BY Zenon, <1>4, <2>1, <2>2, <2>6
<1>7. Reported'
  <2>1. \A c \in Children : res'[c] = res[c] /\ KindOf(c)' = KindOf(c)
    BY Zenon, <1>0 DEF KindOf
  <2>2. exit' = "normal" <=> body' = "ok" /\ \A c \in Children : res'[c] = "value"
    BY Zenon, <1>0, <1>4, <1>5
  <2>3. ASSUME NEW c \in Children, res'[c] \in {"failed", "busy", "gone", "error"},
               KindOf(c)' = "error"
        PROVE  \/ exit' = "group" /\ [from |-> c, kind |-> "error"] \in errors'
               \/ exit' = "typeError" /\ body' = "base"
    BY Zenon, <1>0, <1>6, <2>1, <2>3
  <2> QED BY Zenon, <2>2, <2>3 DEF Reported
<1>8. GroupInv'
  <2>1. tasks' = {} /\ body' \in BodyEnds /\ \A c \in Children : pc'[c] = "done"
    BY Zenon, <1>0, <1>1
  <2> QED BY SMT, Z3, <1>0, <1>7, <2>1 DEF GroupInv
<1>9. TableInv' /\ ResultInv'
  BY Zenon, <1>0, TableFrame DEF ResultInv
<1> QED BY Zenon, <1>8, <1>9 DEF GInv, AInv

(* The wait is cancelled: nothing is promised any more.                      *)
LEMMA CancelledKeeps ==
  ASSUME GInv, WaitCancelled
  PROVE  GInv'
<1>0. /\ TableInv /\ ResultInv /\ GroupInv
      /\ UNCHANGED <<status, pc, res, fut, pending, waiters, body>>
      /\ gpc' = "done" /\ exit' = "cancelled" /\ tasks' = {}
  BY Zenon DEF GInv, AInv, WaitCancelled, coroVars, taskVars
<1>1. body' \in BodyEnds
  BY Zenon, <1>0 DEF GroupInv
<1>2. GroupInv'
  BY SMT, Z3, <1>0, <1>1 DEF GroupInv, Entered
<1>3. TableInv' /\ ResultInv'
  BY Zenon, <1>0, TableFrame DEF ResultInv
<1> QED BY Zenon, <1>2, <1>3 DEF GInv, AInv
-----------------------------------------------------------------------------
(* The inductive invariant of a group.                                       *)
THEOREM GroupInvariant == Spec => []GInv
<1>1. GroupInit => GInv
  <2> SUFFICES ASSUME GroupInit PROVE GInv
    OBVIOUS
  <2>1. AInv
    BY Zenon, InitAInv DEF GroupInit
  <2>2. Children \subseteq Coros
    BY SMT, Z3, AsyncAssumption
  <2>3. GroupInv
    BY SMT, Z3, <2>2 DEF GroupInit, Init, GroupInv, Entered, BodyEnds
  <2> QED BY Zenon, <2>1, <2>3 DEF GInv
<1>2. GInv /\ [Next]_allVars => GInv'
  <2> SUFFICES ASSUME GInv, [Next]_allVars PROVE GInv'
    OBVIOUS
  <2>1. CASE AsyncStep /\ UNCHANGED groupVars
    BY Zenon, <2>1, AsyncKeeps, GroupFrame DEF GInv
  <2>2. CASE UNCHANGED allVars
    <3>1. UNCHANGED <<status, pc, res, fut, pending, waiters>> /\ UNCHANGED groupVars
      BY Zenon, <2>2 DEF allVars, vars
    <3>2. Steady
      BY Zenon, <3>1 DEF GInv, AInv, Steady, ResultInv, Settled
    <3>3. TableInv' /\ ResultInv'
      BY Zenon, <3>1, <3>2, TableFrame, ResultKeeps DEF GInv, AInv
    <3> QED BY Zenon, <3>1, <3>2, <3>3, GroupFrame DEF GInv, AInv
  <2> QED BY Zenon, <2>1, <2>2, ExitBeginKeeps, WaitKeeps, CancelledKeeps, ReportKeeps
          DEF Next, AExit
<1> QED BY <1>1, <1>2, PTL DEF Spec

(* Unless its wait was cancelled, what __aexit__ raises, or that it raises   *)
(* nothing, tells the truth about the body and every task of the group,      *)
(* however many there are; only a TypeError, over a body that a              *)
(* BaseException ended, hides what they failed with.                         *)
THEOREM GroupExitTruthful == Spec => []GroupExitSound
<1>1. GInv => GroupExitSound
  <2> SUFFICES ASSUME GInv, gpc = "done", exit # "cancelled" PROVE GroupExitSound
    BY Zenon DEF GroupExitSound
  <2>1. Reported /\ ResultInv /\ \A c \in Children : pc[c] = "done"
    BY SMT, Z3 DEF GInv, AInv, GroupInv, Entered
  <2>2. ASSUME exit = "normal", \A t \in Handles : status[t] # "Freed"
        PROVE  GroupStatus = "Completed"
    <3>1. \A c \in Children : c \in Coros /\ res[c] = "value"
      BY Zenon, <2>1, <2>2, AsyncAssumption DEF Reported
    <3>2. \A t \in Handles : status[t] = "Completed"
      <4> TAKE t \in Handles
      <4>1. PICK c \in Children : t = TaskOf[c]
        BY Zenon DEF Handles
      <4>2. status[t] \in {"Completed", "Freed"}
        BY Zenon, <2>1, <3>1, <4>1 DEF ResultInv
      <4> QED BY SMT, Z3, <2>2, <4>2
    <3>3. PICK S : S = {status[t] : t \in Handles}
      BY Zenon
    <3>4. S \subseteq {"Completed"} /\ "Failed" \notin S /\ "Cancelled" \notin S
      BY SMT, Z3, <3>2, <3>3
    <3> QED BY SMT, Z3, <3>3, <3>4 DEF GroupStatus
  <2> QED BY Zenon, <2>1, <2>2 DEF GroupExitSound, Reported
<1> QED BY GroupInvariant, <1>1, PTL

(* The tables are exact in a group as well.                                  *)
THEOREM GroupTables == Spec => []TablesExact
<1>1. GInv => TablesExact
  BY Zenon, TablesHold DEF GInv, AInv
<1> QED BY GroupInvariant, <1>1, PTL
=============================================================================
