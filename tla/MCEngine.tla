------------------------------ MODULE MCEngine ------------------------------
(***************************************************************************)
(* Instances of Engine: who submits what, and who calls.  The .cfg files   *)
(* choose among these and give the other constants their values.           *)
(***************************************************************************)
EXTENDS Engine, TLC

CONSTANTS t1, t2, t3, c1, c2, c3, s1, s2, s3

(* A batch of two and a single submission compete for the units.           *)
PairAndOne == c1 :> {t1, t2} @@ c2 :> {t3}
Patient    == c1 :> "finite" @@ c2 :> "unbounded"
ByUsers    == [x \in Calls \cup Shutdowns |-> NoTask]

(* Three single submissions; c2, s2 and s3 are made by the code of task t1. *)
Singles  == c1 :> {t1} @@ c2 :> {t2} @@ c3 :> {t3}
Endless == [c \in Calls |-> "unbounded"]
FromTask == [x \in Calls \cup Shutdowns |->
               IF x \in {c2, s2, s3} THEN t1 ELSE NoTask]

(* A cancel() that comes too late returns FALSE and changes nothing: what  *)
(* follows it is what follows without it.                                  *)
CancelHits == \A k \in Cancels : kpc[k] # "false"
=============================================================================
