------------------------ MODULE MCNativeActionServer ------------------------
(* A spin that releases the GIL interleaves in every way a spin that keeps *)
(* it does, and in more: the passing run leaves "holding" out, and the two *)
(* runs that look for a violation have only it, the weakest spin.          *)
EXTENDS NativeActionServer, TLC
=============================================================================
