--------------------------- MODULE MCCompileCache ---------------------------
(* Two processes, one of them with two threads.                            *)
EXTENDS CompileCache, TLC

CONSTANTS c1, c2, c3, p1, p2

MCCallers == {c1, c2, c3}
MCProcs == {p1, p2}
MCProcessOf == c1 :> p1 @@ c2 :> p1 @@ c3 :> p2
MCUses == c1 :> {"compiled_only"}
            @@ c2 :> {"plain", "clear"}
            @@ c3 :> {"plain", "prebuild"}
=============================================================================
