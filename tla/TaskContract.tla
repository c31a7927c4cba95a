---------------------------- MODULE TaskContract ----------------------------
(***************************************************************************)
(* What a task promises its user, without workers, queues or locks.  A     *)
(* task has one outcome.  Work that is running in-process is never         *)
(* cancelled; pending work, and running isolated work, may be.  The        *)
(* outcome is published once, after it is final, and everyone who asks is  *)
(* told that outcome, or is told nothing about it (a timeout, or a record  *)
(* that is gone).                                                          *)
(***************************************************************************)
CONSTANTS Tasks, Isolated, Waits, NoTask

VARIABLES
  state,   \* the status a user may rely on
  done,    \* published to waiters
  asked,   \* asked[q]: the task that result() call q is about
  answer   \* what q was told

vars == <<state, done, asked, answer>>

Outcomes == {"Completed", "Failed", "Cancelled"}
Told(s) == CASE s = "Completed" -> "ok"
             [] s = "Failed"    -> "err"
             [] s = "Cancelled" -> "cancelled"

Init ==
  /\ state = [t \in Tasks |-> "Pending"]
  /\ done = [t \in Tasks |-> FALSE]
  /\ asked = [q \in Waits |-> NoTask]
  /\ answer = [q \in Waits |-> "none"]

Start(t) ==
  /\ state[t] = "Pending"
  /\ state' = [state EXCEPT ![t] = "Running"]
  /\ UNCHANGED <<done, asked, answer>>

Finish(t) ==
  /\ state[t] = "Running"
  /\ \E s \in {"Completed", "Failed"} : state' = [state EXCEPT ![t] = s]
  /\ UNCHANGED <<done, asked, answer>>

Cancel(t) ==
  /\ state[t] = "Pending" \/ (state[t] = "Running" /\ t \in Isolated)
  /\ state' = [state EXCEPT ![t] = "Cancelled"]
  /\ UNCHANGED <<done, asked, answer>>

Publish(t) ==
  /\ state[t] \in Outcomes /\ ~done[t]
  /\ done' = [done EXCEPT ![t] = TRUE]
  /\ UNCHANGED <<state, asked, answer>>

Ask(q, t) ==
  /\ asked[q] = NoTask
  /\ asked' = [asked EXCEPT ![q] = t]
  /\ \E a \in {"none", "nothing"} : answer' = [answer EXCEPT ![q] = a]
  /\ UNCHANGED <<state, done>>

Answer(q) ==
  /\ asked[q] # NoTask /\ answer[q] = "none"
  /\ \/ answer' = [answer EXCEPT ![q] = "nothing"]
     \/ /\ state[asked[q]] \in Outcomes
        /\ answer' = [answer EXCEPT ![q] = Told(state[asked[q]])]
  /\ UNCHANGED <<state, done, asked>>

Next ==
  \/ \E t \in Tasks : Start(t) \/ Finish(t) \/ Cancel(t) \/ Publish(t)
  \/ \E q \in Waits : Answer(q) \/ \E t \in Tasks : Ask(q, t)

Spec == Init /\ [][Next]_vars
=============================================================================
