----------------------------- MODULE MCLifecycle -----------------------------
(* One task, in-process or isolated: whichever is submitted first is the     *)
(* only one.  Records share nothing but the counters, so that all callers    *)
(* can race on that one.  (The runs of Engine have several tasks.)           *)
EXTENDS Lifecycle, FiniteSets

OneSubmitted == Cardinality({t \in Tasks : hpc[t] # "new"}) <= 1

(* Calls to cancel() are interchangeable and none has to be made, so the      *)
(* first to be made can always be called k.                                   *)
FirstCancelFirst ==
  LET k == CHOOSE c \in Cancels : TRUE
  IN  kpc[k] = "idle" => \A c \in Cancels : kpc[c] = "idle"

MCSpec ==
  /\ Init /\ [][Next /\ (OneSubmitted /\ FirstCancelFirst)']_vars
  /\ EngineFairness /\ KillFairness
=============================================================================
