-------------------------- MODULE MCNativeSession --------------------------
(* Two executors, one of them with Python callbacks, and two resources.    *)
EXTENDS NativeSession

CONSTANTS x1, x2

MCExecutors == {x1, x2}
MCPython == {x1}
MCOne == {x1}
=============================================================================
