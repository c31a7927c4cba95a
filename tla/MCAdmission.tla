----------------------------- MODULE MCAdmission -----------------------------
(* Four calls on a queue of two: a pair that must wait for both units, a     *)
(* single without deadline, a single that never waits, and an oversized      *)
(* batch.                                                                    *)
EXTENDS Admission, TLC

CONSTANTS pair, single, try, huge

MCBatch   == pair :> {1, 2} @@ single :> {3} @@ try :> {4} @@ huge :> {5, 6, 7}
MCTimeout == pair :> "finite" @@ single :> "unbounded"
             @@ try :> "zero" @@ huge :> "finite"
=============================================================================
