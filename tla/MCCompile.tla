----------------------------- MODULE MCCompile -----------------------------
(* Two threads of one process and a second process, each of which may end.   *)
(* Between them the calls use every compile function; MCNative gives all of  *)
(* them native ones, after a third process that may have died with the lock. *)
EXTENDS Compile, TLC

CONSTANTS a1, a2, b, procA, procB, old

MCProcOf == a1 :> procA @@ a2 :> procA @@ b :> procB
MCLangsOf == a1 :> {"c"} @@ a2 :> {"zig_wasm"}
             @@ b :> {"zig", "c_wasm", "rust", "rust_wasm", "wat", "other"}
MCNative == a1 :> {"rust"} @@ a2 :> {"c"} @@ b :> {"zig"}

(* The other process meets calls of the first with one native and one        *)
(* WebAssembly function; the rest, which use the locks in the same way, are  *)
(* called when those calls have returned.                                    *)
RestAlone ==
  lang[b] = "none" /\ lang'[b] \in {"rust", "rust_wasm", "wat", "other"} =>
    Returned(a1) /\ Returned(a2)

MCSpec == Init /\ [][Next /\ RestAlone]_vars /\ Fairness
=============================================================================
