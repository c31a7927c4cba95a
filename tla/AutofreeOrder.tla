---------------------------- MODULE AutofreeOrder ----------------------------
(***************************************************************************)
(* Lifecycle once more, without its assumption that the store and the load *)
(* of set_autofree (src/broker.rs) take effect in program order.  The      *)
(* store is Release and the load of another field is Acquire, so nothing   *)
(* keeps the processor from holding the store back (x86 does so in a store *)
(* buffer) until after the load.  The closing thread drains its buffer at  *)
(* the latest with its next locked instruction: the remove of free_task,   *)
(* or the release of the slab guard with which set_autofree ends.  A task  *)
(* that is "closed" and still buffered stands just before that release.    *)
(***************************************************************************)
EXTENDS Lifecycle

VARIABLE buffered   \* tasks whose autofree store no other thread sees yet

bufferedVars == <<vars, buffered>>

BufferedInit == Init /\ buffered = {}

BufferedStore(t) ==
  /\ hpc[t] = "storing" /\ t \in slab
  /\ buffered' = buffered \cup {t}
  /\ hpc' = [hpc EXCEPT ![t] = "loading"]
  /\ UNCHANGED <<record, store, engine, counters, cancel, wait>>

Drain(t) ==
  /\ t \in buffered
  /\ autofree' = [autofree EXCEPT ![t] = TRUE]
  /\ buffered' = buffered \ {t}
  /\ UNCHANGED <<status, cancelled, result, completed, store, engine, hpc,
                 counters, cancel, wait>>

(* Every other step of Lifecycle: all but the SetAutofree that stores at once. *)
OtherStep ==
  /\ Next
  /\ UNCHANGED <<autofree, buffered>>
  /\ \A t \in buffered : hpc[t] = "freeing" => hpc'[t] = "freeing"

BufferedNext ==
  \/ \E t \in Tasks : BufferedStore(t) \/ Drain(t)
  \/ OtherStep

BufferedSafety == BufferedInit /\ [][BufferedNext]_bufferedVars

(* "Automatically frees the task memory in the Rust Slab when the Python      *)
(* handle is deleted/dropped" (TaskHandle.__del__): a task whose handle is    *)
(* closed, whose autofree store has arrived and which no queue or worker      *)
(* refers to has left the slab.                                               *)
ClosedIsFreed ==
  \A t \in Tasks :
    hpc[t] = "closed" /\ Idle(t) /\ t \notin buffered => t \notin slab
=============================================================================
