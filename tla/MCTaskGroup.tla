---------------------------- MODULE MCTaskGroup ----------------------------
(* A group of two tasks on one loop; a call on the same loop also awaits the *)
(* first of them, and another thread may cancel it or close its handle.      *)
EXTENDS TaskGroup, TLC

CONSTANTS t1, t2, g1, g2, x, loop

MCTaskOf == g1 :> t1 @@ g2 :> t2 @@ x :> t1
MCLoopOf == g1 :> loop @@ g2 :> loop @@ x :> loop
MCEnds == [t \in Tasks |-> {"Completed", "Failed"}]

(* Call x, or the close, is made, if one is, before the group's call for the *)
(* same task has returned: the group does not look at that task later.       *)
CalledInTime ==
  /\ pc[x] = "new" /\ pc'[x] # "new" => pc[g1] # "done" /\ status[t1] # "Freed"
  /\ status[t1] # "Freed" /\ status'[t1] = "Freed" => pc[g1] # "done" /\ pc[x] = "new"

(* A body that raises ends with a BaseException: its exit can do all that    *)
(* the exit of one that ends with another exception can.                     *)
BodyRaisesBase == body' \in {"ok", "base"}

MCSpec ==
  /\ GroupInit /\ [][Next /\ CalledInTime /\ BodyRaisesBase]_allVars
  /\ AsyncFairness /\ WF_allVars(WaitFirstException \/ Report)
=============================================================================
