---------------------------- MODULE MCAsyncWait ----------------------------
(* Two calls for the same task, one of them with a timeout, while another    *)
(* thread may cancel the task or close its handle; a second task only adds   *)
(* its byte to a pipe that holds one.  In MCHandover the two calls are on    *)
(* different loops.                                                          *)
EXTENDS AsyncWait, TLC

CONSTANTS t1, t2, x, y, l1, l2

MCTaskOf == x :> t1 @@ y :> t1
MCLoopOf == x :> l1 @@ y :> l1
MCHandover == x :> l1 @@ y :> l2
MCEnds == t1 :> {"Completed", "Failed"} @@ t2 :> {"Completed"}
=============================================================================
