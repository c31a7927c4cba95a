------------------------------- MODULE MCScopes -------------------------------
(* Instances of Scopes.  Values: -1 and 0 are refused where the code refuses  *)
(* them, 3 exceeds the memory maximum, 5 exceeds what Rust takes.             *)
EXTENDS Scopes

Raw(n, p) == [int |-> n, plain |-> p]
Unset == [s \in EnvNames |-> None]

MCEnvironments ==
  {[s \in EnvNames |-> CASE s = "wasm_timeout" -> Raw(2, TRUE)
                         [] s = "queue_timeout" -> Raw(0, TRUE)
                         [] s = "wasm_memory" -> None
                         [] OTHER -> Raw(3, TRUE)],
   [Unset EXCEPT !["wasm_timeout"] = Raw(2, FALSE)],
   [Unset EXCEPT !["wasm_timeout"] = Raw(0, TRUE)],
   [Unset EXCEPT !["wasm_timeout"] = Raw(NotInt, FALSE)],
   [Unset EXCEPT !["wasm_memory"] = Raw(3, TRUE)],
   [Unset EXCEPT !["min_workers"] = Raw(3, TRUE)],
   [Unset EXCEPT !["compiler_timeout"] = Raw(0, TRUE)]}

Limits(w, m, q) == [s \in Settings |-> CASE s = "wasm_timeout" -> w
                                         [] s = "wasm_memory" -> m
                                         [] s = "queue_timeout" -> q]

MCOverrides == {Limits(1, None, None), Limits(2, 1, 0), Limits(1, 3, None)}
MCDepth     == [c \in Contexts |-> IF c = Main THEN 2 ELSE 1]
MCUpdates   == {Limits(-1, 1, None), Limits(2, None, None),
                Limits(5, None, None), Limits(None, None, 0)}
MCDefault   == Limits(1, 2, 1)
MCSignatures == {[args |-> <<"i32">>, ret |-> "i32"], [args |-> <<>>, ret |-> None]}
MCArgLists   == {<<1>>, <<>>}
MCFits       == {<<"i32", 1>>}
===============================================================================
