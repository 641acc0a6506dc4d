--------------------------- MODULE NativeSession ---------------------------
(***************************************************************************)
(* rclcpp_kit.native.NativeSession: executors spun by native C++ threads   *)
(* (ExecutorThread), the resources registered with the session, and        *)
(* close(), which cancels, joins, drains, releases and shuts down in that  *)
(* order.                                                                  *)
(*                                                                         *)
(* The interpreter lock is part of the model because cppyy keeps it for    *)
(* the whole of a C++ call: close() joins the C++ threads with the GIL     *)
(* held, and a Python callback needs the GIL on the thread being joined.   *)
(*                                                                         *)
(* rclcpp::Executor is external and modelled by what the session uses:     *)
(* spin() sets its spinning flag on entry and tests it around every wait   *)
(* and before every execution; cancel() clears the flag and triggers the   *)
(* guard condition that ends one wait.                                     *)
(***************************************************************************)
EXTENDS Naturals, Sequences

CONSTANTS
    Executors,        \* executors of the session, each with one native thread
    PythonExecutors,  \* those that have Python callbacks
    NoThread,         \* the GIL is free; nobody closes; nobody is joined
    MaxResources      \* bound: resources registered with the session

Main == "main"

ASSUME ExecutorAssumption ==
    /\ PythonExecutors \subseteq Executors
    /\ NoThread \notin Executors
    /\ Main \notin Executors \union {NoThread}
ASSUME BoundAssumption == MaxResources \in Nat

VARIABLES
    phase,      \* how far close() has gone
    caller,     \* the thread inside close(), Main or a callback's thread
    gil,        \* the thread that holds the GIL
    started,    \* _executor_threads, in the order they were started
    cursor,     \* position of the loop over started or resources, from the end
    joining,    \* the thread whose ExecutorThread.close is waiting in join()
    thread,     \* thread[x]: where the native thread of executor x stands
    spinning,   \* spinning[x]: rclcpp's flag
    interrupt,  \* interrupt[x]: the guard condition is triggered
    stopped,    \* stopped[x]: ExecutorThread::closed_
    valid,      \* the context is valid
    registered, \* how many resources were ever registered
    resources,  \* _resources
    released    \* resources whose close() was called, in that order

sessionVars == <<phase, caller, cursor, stopped, started, joining>>
resourceVars == <<registered, resources, released>>
vars == <<phase, caller, gil, started, cursor, joining, thread, spinning,
          interrupt, stopped, valid, registered, resources, released>>

Phases == {"open", "cancel", "join", "drain", "release", "clear",
           "drain again", "shutdown", "closed"}
Places == {"none", "starting", "entering", "loop", "waiting", "picked",
           "native", "want gil", "python", "leaving", "exited"}
Threads == Executors \union {Main}
Resources == 1 .. MaxResources

\* The thread has started and its function has not returned.
Alive(x) == thread[x] \notin {"none", "exited"}

TypeOK ==
    /\ phase \in Phases
    /\ caller \in Threads \union {NoThread}
    /\ gil \in Threads \union {NoThread}
    /\ started \in Seq(Executors)
    /\ cursor \in Nat
    /\ joining \in Executors \union {NoThread}
    /\ thread \in [Executors -> Places]
    /\ spinning \in [Executors -> BOOLEAN]
    /\ interrupt \in [Executors -> BOOLEAN]
    /\ stopped \in [Executors -> BOOLEAN]
    /\ valid \in BOOLEAN
    /\ registered \in 0 .. MaxResources
    /\ resources \in Seq(Resources)
    /\ released \in Seq(Resources)

Init ==
    /\ phase = "open"
    /\ caller = NoThread
    /\ gil = Main
    /\ started = <<>>
    /\ cursor = 0
    /\ joining = NoThread
    /\ thread = [x \in Executors |-> "none"]
    /\ spinning = [x \in Executors |-> FALSE]
    /\ interrupt = [x \in Executors |-> FALSE]
    /\ stopped = [x \in Executors |-> FALSE]
    /\ valid = TRUE
    /\ registered = 0
    /\ resources = <<>>
    /\ released = <<>>

-----------------------------------------------------------------------------
(* The interpreter lock.                                                   *)

\* A thread in the interpreter drops the GIL between two bytecodes when
\* another asks for it.  It does not while a C++ call (a join) runs.
Yield(t) ==
    /\ gil = t
    /\ ~(joining # NoThread /\ t = IF caller = NoThread THEN Main ELSE caller)
    /\ gil' = NoThread
    /\ thread' = IF t = Main THEN thread
                             ELSE [thread EXCEPT ![t] = "want gil"]
    /\ UNCHANGED <<sessionVars, resourceVars, spinning, interrupt, valid>>

MainTakesGil ==
    /\ gil = NoThread
    /\ gil' = Main
    /\ UNCHANGED <<sessionVars, resourceVars, thread, spinning, interrupt,
                   valid>>

\* PyGILState_Ensure in a callback's trampoline.
WorkerTakesGil(x) ==
    /\ thread[x] = "want gil"
    /\ gil = NoThread
    /\ gil' = x
    /\ thread' = [thread EXCEPT ![x] = "python"]
    /\ UNCHANGED <<sessionVars, resourceVars, spinning, interrupt, valid>>

-----------------------------------------------------------------------------
(* The native thread of an executor.                                       *)

\* running_.store(true).
ThreadStarts(x) ==
    /\ thread[x] = "starting"
    /\ thread' = [thread EXCEPT ![x] = "entering"]
    /\ UNCHANGED <<sessionVars, resourceVars, gil, spinning, interrupt, valid>>

\* executor_->spin() sets spinning, whatever a cancel() did before.
SpinEnters(x) ==
    /\ thread[x] = "entering"
    /\ spinning' = [spinning EXCEPT ![x] = TRUE]
    /\ thread' = [thread EXCEPT ![x] = "loop"]
    /\ UNCHANGED <<sessionVars, resourceVars, gil, interrupt, valid>>

\* while (ok(context) && spinning).
SpinTests(x) ==
    /\ thread[x] = "loop"
    /\ thread' = [thread EXCEPT ![x] =
                    IF valid /\ spinning[x] THEN "waiting" ELSE "leaving"]
    /\ UNCHANGED <<sessionVars, resourceVars, gil, spinning, interrupt, valid>>

\* The wait ends because of cancel()'s guard condition.
WaitInterrupted(x) ==
    /\ thread[x] = "waiting"
    /\ interrupt[x]
    /\ interrupt' = [interrupt EXCEPT ![x] = FALSE]
    /\ thread' = [thread EXCEPT ![x] = "loop"]
    /\ UNCHANGED <<sessionVars, resourceVars, gil, spinning, valid>>

\* The wait ends because an entity became ready.
WaitEnds(x) ==
    /\ thread[x] = "waiting"
    /\ thread' = [thread EXCEPT ![x] = "picked"]
    /\ UNCHANGED <<sessionVars, resourceVars, gil, spinning, interrupt, valid>>

\* execute_any_executable: nothing is executed once spinning is cleared.
Execute(x) ==
    /\ thread[x] = "picked"
    /\ thread' = [thread EXCEPT ![x] =
                    IF ~spinning[x] THEN "loop"
                    ELSE IF x \in PythonExecutors THEN "want gil"
                    ELSE "native"]
    /\ UNCHANGED <<sessionVars, resourceVars, gil, spinning, interrupt, valid>>

NativeCallbackReturns(x) ==
    /\ thread[x] = "native"
    /\ thread' = [thread EXCEPT ![x] = "loop"]
    /\ UNCHANGED <<sessionVars, resourceVars, gil, spinning, interrupt, valid>>

\* The Python callback returns or raises; the trampoline releases the GIL.
PythonCallbackReturns(x) ==
    /\ thread[x] = "python"
    /\ caller # x \/ phase = "closed"
    /\ gil' = NoThread
    /\ thread' = [thread EXCEPT ![x] = "loop"]
    /\ UNCHANGED <<sessionVars, resourceVars, spinning, interrupt, valid>>

\* spin() clears the flag, running_.store(false), the function returns.
ThreadEnds(x) ==
    /\ thread[x] = "leaving"
    /\ spinning' = [spinning EXCEPT ![x] = FALSE]
    /\ thread' = [thread EXCEPT ![x] = "exited"]
    /\ UNCHANGED <<sessionVars, resourceVars, gil, interrupt, valid>>

-----------------------------------------------------------------------------
(* The session while it is open.  A thread that holds the GIL runs Python. *)

InPython(t) == gil = t /\ joining = NoThread

StartExecutor(x) ==
    /\ phase = "open"
    /\ InPython(Main)
    /\ thread[x] = "none"
    /\ thread' = [thread EXCEPT ![x] = "starting"]
    /\ started' = Append(started, x)
    /\ UNCHANGED <<phase, caller, cursor, stopped, joining, resourceVars, gil,
                   spinning, interrupt, valid>>

\* register_resource: _ensure_open lets it through until the last statement of
\* close().  A callback may register while the main thread is closing; the
\* main thread itself uses the session only while nobody closes it.
RegisterResource(t) ==
    /\ InPython(t)
    /\ phase # "closed" /\ valid
    /\ t # caller
    /\ t = Main => phase = "open"
    /\ registered < MaxResources
    /\ registered' = registered + 1
    /\ resources' = Append(resources, registered + 1)
    /\ UNCHANGED <<sessionVars, released, gil, thread, spinning, interrupt,
                   valid>>

-----------------------------------------------------------------------------
(* ExecutorThread::close, on its own or inside NativeSession.close.        *)

\* Faulty variant: cancel() does not interrupt the wait.
CancelledQuietly(x) ==
    /\ spinning' = [spinning EXCEPT ![x] = FALSE]
    /\ UNCHANGED interrupt

Cancelled(x) ==
    /\ spinning' = [spinning EXCEPT ![x] = FALSE]
    /\ interrupt' = [interrupt EXCEPT ![x] = TRUE]

\* Faulty variant: every thread is detached.
StopThreadDetaches(x, by) ==
    /\ ~stopped[x]
    /\ stopped' = [stopped EXCEPT ![x] = TRUE]
    /\ Cancelled(x)
    /\ joining' = NoThread

\* closed_.exchange(true), cancel(), then join() or, on the thread itself,
\* detach().
StopThread(x, by) ==
    /\ ~stopped[x]
    /\ stopped' = [stopped EXCEPT ![x] = TRUE]
    /\ Cancelled(x)
    /\ joining' = IF x = by THEN NoThread ELSE x

\* NativeExecutorThread.close() called by the user.
UserClosesThread(x) ==
    /\ phase = "open"
    /\ InPython(Main)
    /\ thread[x] # "none"
    /\ StopThread(x, Main)
    /\ UNCHANGED <<phase, caller, cursor, started, resourceVars, gil, thread,
                   valid>>

\* join() returns when the thread's function has returned.
JoinReturns ==
    /\ joining # NoThread
    /\ thread[joining] = "exited"
    /\ joining' = NoThread
    /\ UNCHANGED <<phase, caller, cursor, stopped, started, resourceVars, gil,
                   thread, spinning, interrupt, valid>>

-----------------------------------------------------------------------------
(* NativeSession.close.                                                    *)

InClose(p) == phase = p /\ InPython(caller)

CloseBegins(t) ==
    /\ phase = "open"
    /\ InPython(t)
    /\ caller' = t
    /\ phase' = "cancel"
    /\ cursor' = Len(started)
    /\ UNCHANGED <<started, joining, stopped, resourceVars, gil, thread,
                   spinning, interrupt, valid>>

\* for executor in reversed(self._executors): executor.cancel().
CloseCancels ==
    /\ InClose("cancel")
    /\ IF cursor > 0
       THEN /\ Cancelled(started[cursor])
            /\ cursor' = cursor - 1
            /\ UNCHANGED phase
       ELSE /\ phase' = "join"
            /\ cursor' = Len(started)
            /\ UNCHANGED <<spinning, interrupt>>
    /\ UNCHANGED <<caller, started, joining, stopped, resourceVars, gil,
                   thread, valid>>

\* for thread in reversed(self._executor_threads): thread.close().
CloseJoins ==
    /\ InClose("join")
    /\ IF cursor = 0
       THEN /\ phase' = "drain"
            /\ UNCHANGED <<cursor, stopped, spinning, interrupt, joining>>
       ELSE /\ cursor' = cursor - 1
            /\ UNCHANGED phase
            /\ IF stopped[started[cursor]]
               THEN UNCHANGED <<stopped, spinning, interrupt, joining>>
               ELSE StopThread(started[cursor], caller)
    /\ UNCHANGED <<caller, started, resourceVars, gil, thread, valid>>

\* drain_callable_reaper(), then the loop over the resources begins.
CloseDrains ==
    /\ InClose("drain")
    /\ phase' = "release"
    /\ cursor' = Len(resources)
    /\ UNCHANGED <<caller, started, joining, stopped, resourceVars, gil,
                   thread, spinning, interrupt, valid>>

\* Faulty variant: the loop does not reverse the list.
CloseReleasesInOrder ==
    /\ InClose("release")
    /\ IF cursor > 0
       THEN /\ released' = Append(released, resources[Len(resources) + 1 - cursor])
            /\ cursor' = cursor - 1
            /\ UNCHANGED phase
       ELSE /\ phase' = "clear"
            /\ UNCHANGED <<cursor, released>>
    /\ UNCHANGED <<caller, started, joining, stopped, registered, resources,
                   gil, thread, spinning, interrupt, valid>>

\* for resource in reversed(self._resources): close(), exceptions swallowed.
CloseReleases ==
    /\ InClose("release")
    /\ IF cursor > 0
       THEN /\ released' = Append(released, resources[cursor])
            /\ cursor' = cursor - 1
            /\ UNCHANGED phase
       ELSE /\ phase' = "clear"
            /\ UNCHANGED <<cursor, released>>
    /\ UNCHANGED <<caller, started, joining, stopped, registered, resources,
                   gil, thread, spinning, interrupt, valid>>

\* The lists are cleared: executors, threads and nodes lose their owner.
CloseClears ==
    /\ InClose("clear")
    /\ phase' = "drain again"
    /\ resources' = <<>>
    /\ started' = <<>>
    /\ UNCHANGED <<caller, cursor, joining, stopped, registered, released,
                   gil, thread, spinning, interrupt, valid>>

CloseDrainsAgain ==
    /\ InClose("drain again")
    /\ phase' = "shutdown"
    /\ UNCHANGED <<caller, cursor, started, joining, stopped, resourceVars,
                   gil, thread, spinning, interrupt, valid>>

\* context.shutdown(reason); self._closed = True.
CloseShutsDown ==
    /\ InClose("shutdown")
    /\ valid' = FALSE
    /\ phase' = "closed"
    /\ UNCHANGED <<caller, cursor, started, joining, stopped, resourceVars,
                   gil, thread, spinning, interrupt>>

-----------------------------------------------------------------------------
Worker(x) ==
    \/ ThreadStarts(x) \/ SpinEnters(x) \/ SpinTests(x) \/ WaitInterrupted(x)
    \/ Execute(x) \/ NativeCallbackReturns(x) \/ PythonCallbackReturns(x)
    \/ ThreadEnds(x)

CloseStep ==
    \/ CloseCancels \/ CloseJoins \/ CloseDrains \/ CloseReleases
    \/ CloseClears \/ CloseDrainsAgain \/ CloseShutsDown

Next ==
    \/ \E t \in Threads : Yield(t) \/ RegisterResource(t) \/ CloseBegins(t)
    \/ MainTakesGil
    \/ \E x \in Executors :
         Worker(x) \/ WorkerTakesGil(x) \/ WaitEnds(x) \/ StartExecutor(x)
           \/ UserClosesThread(x)
    \/ JoinReturns
    \/ CloseStep

Spec == Init /\ [][Next]_vars

\* The operating system schedules every thread, and CPython's GIL is handed
\* round (a waiter makes the holder drop it after the switch interval), so a
\* thread that is offered the GIL again and again takes it.  Nothing makes
\* entities ready, threads start or the session close.
Fairness ==
    /\ \A x \in Executors : WF_vars(Worker(x)) /\ SF_vars(WorkerTakesGil(x))
    /\ \A t \in Threads : WF_vars(Yield(t))
    /\ SF_vars(MainTakesGil)
    /\ WF_vars(JoinReturns)
    /\ SF_vars(CloseStep)

FairSpec == Spec /\ Fairness

-----------------------------------------------------------------------------
(* Properties.                                                             *)

Joined == {"drain", "release", "clear", "drain again", "shutdown", "closed"}

\* From the first drain of the callable reaper to the context's shutdown no
\* native thread of the session is running any more, except the one that
\* called close() itself: what the drains, the resources' close() and the
\* shutdown rely on ("every native executor thread this session owned has
\* just been joined above").
JoinedBeforeDrain ==
    phase \in Joined => \A x \in Executors : Alive(x) => x = caller

\* Every resource ever registered, by the main thread or by a callback that
\* was still running when close() had begun, is closed exactly once, in the
\* reverse of the order in which they were registered.
ReleasedInReverse ==
    phase \in {"clear", "drain again", "shutdown", "closed"} =>
        released = [i \in 1 .. registered |-> registered + 1 - i]

\* close() returns when, as it begins to join, every cancel() came after the
\* thread had entered spin() (it will not execute anything more) and no thread
\* is inside, or waiting for the GIL of, a Python callback.
Joinable(x) ==
    \/ x = caller
    \/ /\ thread[x] \notin {"starting", "entering", "want gil", "python"}
       /\ ~spinning[x]

CloseReturnsIfJoinable ==
    phase = "join" /\ (\A x \in Executors : Joinable(x)) ~> phase = "closed"

\* close() returns although Python callbacks may be running: "Stop native
\* threads, release tracked objects, and shut down context".
CloseReturns ==
    phase = "cancel"
      /\ (\A x \in Executors : thread[x] \notin {"starting", "entering"})
        ~> phase = "closed"
=============================================================================
