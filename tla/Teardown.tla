------------------------------ MODULE Teardown ------------------------------
(***************************************************************************)
(* cppyy_kit/__init__.py: the registry of teardown callbacks, the lazy     *)
(* start of the native runtime, and the order in which Python's exit hooks *)
(* run them and take Cling down.                                           *)
(*                                                                         *)
(* atexit runs the newest hook first.  cppyy's import adds the hook that   *)
(* takes Cling down (external), _ensure_runtime moves the one of shutdown  *)
(* above it.  One thread registers, shuts down and exits; the callbacks it *)
(* runs may register others, and may raise, which changes nothing here.    *)
(***************************************************************************)
EXTENDS Naturals, Sequences, SequencesExt

CONSTANTS
    Cleanups,          \* teardown callbacks
    MaxRegistrations   \* bound: calls of register_teardown

ASSUME TeardownBound == MaxRegistrations \in Nat

VARIABLES
    cling,                \* external: "none", "up", or "down" for good
    exit_hooks,           \* external: atexit's hooks, the oldest first
    lifetime,             \* "running", "hooks" or "ended"
    runtime_ready,        \* _RUNTIME_READY
    shutdown_registered,  \* _SHUTDOWN_REGISTERED
    shutdown_done,        \* _SHUTDOWN_DONE
    shutting_down,        \* in the loop of shutdown()
    teardown,             \* _TEARDOWN
    owed,                 \* history: callbacks registered and not run since
    late,                 \* history: those registered when shutdown was over
    registrations         \* calls of register_teardown so far

teardownVars ==
    <<cling, exit_hooks, lifetime, runtime_ready, shutdown_registered,
      shutdown_done, shutting_down, teardown, owed, late, registrations>>

TeardownInit ==
    /\ cling = "none" /\ exit_hooks = <<>> /\ lifetime = "running"
    /\ runtime_ready = FALSE
    /\ shutdown_registered = FALSE /\ shutdown_done = FALSE
    /\ shutting_down = FALSE
    /\ teardown = <<>> /\ owed = {} /\ late = {}
    /\ registrations = 0

-----------------------------------------------------------------------------
\* Importing cppyy, here or in user code, starts Cling.
ClingStarted == IF cling = "none" THEN Append(exit_hooks, "cling") ELSE exit_hooks

ImportCppyy ==
    /\ lifetime = "running" /\ cling = "none"
    /\ cling' = "up"
    /\ exit_hooks' = ClingStarted
    /\ UNCHANGED <<lifetime, runtime_ready, shutdown_registered, shutdown_done,
                   shutting_down, teardown, owed, late, registrations>>

\* Faulty variant: a hook that is registered stays where it is.
EnsureRuntimeKeepsHook ==
    /\ lifetime = "running" /\ ~runtime_ready
    /\ cling' = "up"
    /\ exit_hooks' = IF shutdown_registered THEN ClingStarted
                     ELSE Append(ClingStarted, "shutdown")
    /\ shutdown_registered' = TRUE /\ runtime_ready' = TRUE
    /\ UNCHANGED <<lifetime, shutdown_done, shutting_down, teardown, owed, late,
                   registrations>>

\* atexit.unregister; a hook is there once at most.
Unregistered(hooks, hook) ==
    IF hook \in ToSet(hooks)
    THEN RemoveAt(hooks, CHOOSE i \in DOMAIN hooks : hooks[i] = hook)
    ELSE hooks

\* _ensure_runtime: cppyy, then the hook of shutdown, moved if it was there.
EnsureRuntime ==
    /\ lifetime = "running" /\ ~runtime_ready
    /\ cling' = "up"
    /\ exit_hooks' = Append(Unregistered(ClingStarted, "shutdown"), "shutdown")
    /\ shutdown_registered' = TRUE /\ runtime_ready' = TRUE
    /\ UNCHANGED <<lifetime, shutdown_done, shutting_down, teardown, owed, late,
                   registrations>>

-----------------------------------------------------------------------------
\* register_teardown, from the program or from a callback that runs.
RegisterTeardown(c) ==
    /\ lifetime = "running" \/ shutting_down
    /\ registrations < MaxRegistrations
    /\ registrations' = registrations + 1
    /\ exit_hooks' = IF shutdown_registered THEN exit_hooks
                     ELSE Append(exit_hooks, "shutdown")
    /\ shutdown_registered' = TRUE
    /\ teardown' = IF c \in ToSet(teardown) THEN teardown ELSE Append(teardown, c)
    /\ owed' = owed \cup {c}
    /\ late' = IF shutdown_done /\ ~shutting_down THEN late \cup {c} ELSE late
    /\ UNCHANGED <<cling, lifetime, runtime_ready, shutdown_done, shutting_down>>

\* shutdown(): once for the life of the process.
Shutdown ==
    /\ ~shutdown_done /\ ~shutting_down
    /\ shutdown_done' = TRUE /\ shutting_down' = TRUE

ExplicitShutdown ==
    /\ lifetime = "running" /\ Shutdown
    /\ UNCHANGED <<cling, exit_hooks, lifetime, runtime_ready, shutdown_registered,
                   teardown, owed, late, registrations>>

\* The loop pops the newest callback and calls it, until there is none.
RunCleanup ==
    /\ shutting_down /\ teardown # <<>>
    /\ teardown' = Front(teardown)
    /\ owed' = owed \ {Last(teardown)}
    /\ UNCHANGED <<cling, exit_hooks, lifetime, runtime_ready, shutdown_registered,
                   shutdown_done, shutting_down, late, registrations>>
ShutdownReturns ==
    /\ shutting_down /\ teardown = <<>>
    /\ shutting_down' = FALSE
    /\ UNCHANGED <<cling, exit_hooks, lifetime, runtime_ready, shutdown_registered,
                   shutdown_done, teardown, owed, late, registrations>>

-----------------------------------------------------------------------------
\* The interpreter exits.
Exit ==
    /\ lifetime = "running" /\ ~shutting_down
    /\ lifetime' = "hooks"
    /\ UNCHANGED <<cling, exit_hooks, runtime_ready, shutdown_registered,
                   shutdown_done, shutting_down, teardown, owed, late,
                   registrations>>

RunExitHook ==
    /\ lifetime = "hooks" /\ ~shutting_down /\ exit_hooks # <<>>
    /\ exit_hooks' = Front(exit_hooks)
    /\ \/ /\ Last(exit_hooks) = "shutdown"
          /\ Shutdown \/ (shutdown_done /\ UNCHANGED <<shutdown_done, shutting_down>>)
          /\ UNCHANGED cling
       \/ /\ Last(exit_hooks) = "cling"
          /\ cling' = "down"
          /\ UNCHANGED <<shutdown_done, shutting_down>>
    /\ UNCHANGED <<lifetime, runtime_ready, shutdown_registered, teardown, owed,
                   late, registrations>>

ExitEnds ==
    /\ lifetime = "hooks" /\ ~shutting_down /\ exit_hooks = <<>>
    /\ lifetime' = "ended"
    /\ UNCHANGED <<cling, exit_hooks, runtime_ready, shutdown_registered,
                   shutdown_done, shutting_down, teardown, owed, late,
                   registrations>>

TeardownNext ==
    \/ ImportCppyy \/ EnsureRuntime
    \/ \E c \in Cleanups : RegisterTeardown(c)
    \/ ExplicitShutdown \/ RunCleanup \/ ShutdownReturns
    \/ Exit \/ RunExitHook \/ ExitEnds

TeardownSpec == TeardownInit /\ [][TeardownNext]_teardownVars

-----------------------------------------------------------------------------
\* In whatever order a program registers callbacks, imports cppyy and starts
\* the runtime, Cling goes down after the callbacks, those that callbacks
\* registered included; only one that came after shutdown() was over has not
\* run by then.
CleanupsPrecedeCling ==
    runtime_ready /\ cling = "down" => ~shutting_down /\ owed \subseteq late

\* A callback that was registered runs at shutdown() or at exit: violated by
\* one that a program registers after it called shutdown() itself.
RegisteredCleanupRuns == lifetime = "ended" => owed = {}
=============================================================================
