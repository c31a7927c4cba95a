------------------------------- MODULE MCPlugins ------------------------------
(* Two tasks on one library, which exists in two builds; a module that is     *)
(* only registered and copied.                                                *)
EXTENDS Plugins, TLC

CONSTANT lib

OnLib == [t \in Tasks |-> lib]

(* Interchangeable threads, processes, tasks and builds.                      *)
Symmetry == Permutations(Users) \cup Permutations(Coordinators)
            \cup Permutations(Procs) \cup Permutations(Tasks)
            \cup Permutations(Builds)

(* Calls overlap before the first task is submitted; from then on tasks meet  *)
(* one call at a time, and whatever tables the overlap has left.              *)
OverlapFirst ==
  (\E u, w \in Users : u # w /\ ucall[u] # Idle /\ ucall[w] # Idle) =>
    \A t \in Tasks : tpc[t] = "new"
===============================================================================
