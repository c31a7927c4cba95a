----------------------------- MODULE TaskGroup -----------------------------
(***************************************************************************)
(* A TaskGroup used as an asynchronous context manager                     *)
(* (python/pyroxide/workflows.py), over the awaits of AsyncWait.  When the *)
(* body ends, __aexit__ cancels the tasks if it ended with an exception,   *)
(* awaits every handle by a result_async call of its own, cancels the rest *)
(* at the first failure, and reports the errors together.  The asyncio     *)
(* task that runs __aexit__ may itself be cancelled while it waits; the    *)
(* ones it created for its calls are not.  The engine is not shut down     *)
(* meanwhile.                                                              *)
(*                                                                         *)
(* An exception is [from, kind], from a child call or the body.  The kinds *)
(* are what the filters tell apart: "taskCancelled", the RuntimeError of a *)
(* cancelled task; "saysCancelled", any other RuntimeError whose text has  *)
(* "cancelled" in it; "base", a BaseException that is no Exception, such   *)
(* as CancelledError; and "error", anything else.                          *)
(***************************************************************************)
EXTENDS AsyncWait

CONSTANTS
  GroupLoop,   \* the loop the group is used on
  SaysCancelled \* tasks whose failure has "cancelled" in its text

ASSUME GroupAssumption == "body" \notin Coros

VARIABLES
  gpc,      \* where __aexit__ is
  body,     \* how the body ended
  tasks,    \* the calls still awaited
  errors,   \* `exceptions`
  exit      \* what __aexit__ did

groupVars == <<gpc, body, tasks, errors, exit>>
allVars == <<vars, groupVars>>

Handles == {TaskOf[c] : c \in Children}
BodyEnds == {"ok", "error", "saysCancelled", "base"}

GroupInit ==
  /\ Init
  /\ gpc = "body" /\ body = "ok" /\ tasks = {} /\ errors = {} /\ exit = "none"

(* TaskGroup.status *)
GroupStatus ==
  LET statuses == {status[t] : t \in Handles}
  IN  CASE "Failed" \in statuses -> "Failed"
        [] "Cancelled" \in statuses -> "Cancelled"
        [] statuses \subseteq {"Completed"} -> "Completed"
        [] OTHER -> "Running"

(* TaskGroup.cancel: every handle, in order; no await in between. *)
Cancel == CancelTasks(Handles)
-----------------------------------------------------------------------------
(* __aexit__ is entered: cancel everything if the body raised. *)
ExitBegin ==
  /\ cur[GroupLoop] = Free /\ gpc = "body"
  /\ \E b \in BodyEnds :
       /\ body' = b
       /\ errors' = IF b = "ok" THEN {} ELSE {[from |-> "body", kind |-> b]}
       /\ IF b = "ok" THEN UNCHANGED <<status, owed>> ELSE Cancel
  /\ pc' = [c \in Coros |-> IF c \in Children THEN "new" ELSE pc[c]]
  /\ tasks' = Children
  /\ gpc' = IF tasks' = {} THEN "report" ELSE "wait"
  /\ UNCHANGED <<autofree, res, fut, by, pending, waiters, cur, calls, wakerVars, exit>>

(* The exception a finished call ended with. *)
KindOf(c) ==
  CASE res[c] = "cancelled" -> "taskCancelled"
    [] res[c] = "failed" /\ TaskOf[c] \in SaysCancelled -> "saysCancelled"
    [] OTHER -> "error"

(* Mutant: the group stops waiting at the first exception.                  *)
WaitFirstOnly ==
  /\ cur[GroupLoop] = Free /\ gpc = "wait"
  /\ LET done == {c \in tasks : pc[c] = "done"}
         failed == {c \in done : res[c] # "value"}
         kept == {c \in failed : ~(body # "ok" /\ KindOf(c) = "taskCancelled")}
     IN  /\ failed # {} \/ done = tasks
         /\ errors' = errors \cup {[from |-> c, kind |-> KindOf(c)] : c \in kept}
         /\ IF failed = {} THEN UNCHANGED <<status, owed>> ELSE Cancel
         /\ tasks' = {}
  /\ gpc' = "report"
  /\ UNCHANGED <<autofree, coroVars, wakerVars, body, exit>>

(* asyncio.wait(tasks, FIRST_EXCEPTION) returns: all calls are done, or one *)
(* has raised.  Any exception cancels the group; the cancellations that the *)
(* body's own exception caused are not recorded.                            *)
WaitFirstException ==
  /\ cur[GroupLoop] = Free /\ gpc = "wait"
  /\ LET done == {c \in tasks : pc[c] = "done"}
         failed == {c \in done : res[c] # "value"}
         kept == {c \in failed : ~(body # "ok" /\ KindOf(c) = "taskCancelled")}
     IN  /\ failed # {} \/ done = tasks
         /\ errors' = errors \cup {[from |-> c, kind |-> KindOf(c)] : c \in kept}
         /\ IF failed = {} THEN UNCHANGED <<status, owed>> ELSE Cancel
         /\ tasks' = tasks \ done
  /\ gpc' = IF tasks' = {} THEN "report" ELSE "wait"
  /\ UNCHANGED <<autofree, coroVars, wakerVars, body, exit>>

(* The asyncio task is cancelled in asyncio.wait: a CancelledError, which no *)
(* `except Exception` catches.  The calls go on, and so do their tasks.     *)
WaitCancelled ==
  /\ cur[GroupLoop] = Free /\ gpc = "wait"
  /\ gpc' = "done" /\ exit' = "cancelled" /\ tasks' = {} /\ errors' = {}
  /\ UNCHANGED <<taskVars, coroVars, wakerVars, body>>

(* RuntimeErrors about cancellation are dropped when there is another       *)
(* error; the body's exception alone is re-raised; any others are raised as *)
(* an ExceptionGroup.  The built-in one, from Python 3.11 on, refuses an    *)
(* exception of kind "base" with a TypeError; the fallback accepts it.      *)
Report ==
  /\ cur[GroupLoop] = Free /\ gpc = "report"
  /\ LET real == {e \in errors : e.kind \notin {"taskCancelled", "saysCancelled"}}
     IN  errors' = IF real # {} THEN real ELSE errors
  /\ exit' \in CASE errors' = {} -> {"normal"}
                 [] errors' = {[from |-> "body", kind |-> body]} -> {"reraise"}
                 [] OTHER -> IF body = "base" THEN {"group", "typeError"} ELSE {"group"}
  /\ gpc' = "done"
  /\ UNCHANGED <<taskVars, coroVars, wakerVars, body, tasks>>

AExit == ExitBegin \/ WaitFirstException \/ WaitCancelled \/ Report
-----------------------------------------------------------------------------
Next == AExit \/ (AsyncStep /\ UNCHANGED groupVars)

Spec ==
  /\ GroupInit /\ [][Next]_allVars
  /\ AsyncFairness
  /\ WF_allVars(WaitFirstException \/ Report)

(* The exit of a group ends once the engine has finished or cancelled its   *)
(* tasks, also when one of them is awaited by someone else; and every call  *)
(* it made returns, also when the exit itself was cancelled.                *)
GroupExits == gpc = "wait" ~> gpc = "done" /\ \A c \in Children : pc[c] = "done"

(* A group that has exited awaits nothing any more, unless its own wait was *)
(* cancelled.  Otherwise it exits normally exactly when the body and every  *)
(* task succeeded, and then its status is Completed unless a handle has     *)
(* been closed; and a failure that does not speak of cancellation is never  *)
(* dropped from what it raises, unless a BaseException ended the body and   *)
(* the ExceptionGroup refuses it.                                           *)
GroupExitSound ==
  gpc = "done" /\ exit # "cancelled" =>
    /\ \A c \in Children : pc[c] = "done"
    /\ exit = "normal" <=> body = "ok" /\ \A c \in Children : res[c] = "value"
    /\ exit = "normal" /\ (\A t \in Handles : status[t] # "Freed") => GroupStatus = "Completed"
    /\ \A c \in Children :
         res[c] \in {"failed", "busy", "gone", "error"} /\ KindOf(c) = "error" =>
           \/ exit = "group" /\ [from |-> c, kind |-> "error"] \in errors
           \/ exit = "typeError" /\ body = "base"
=============================================================================
