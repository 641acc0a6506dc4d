-------------------------- MODULE PythonCallbacks --------------------------
(***************************************************************************)
(* rclcpp_kit.python_callback_entities: Python callbacks behind compiled   *)
(* lambdas, for events, subscriptions, generic subscriptions, services and *)
(* clock timers.                                                           *)
(*                                                                         *)
(* Each entity shares a DispatchState with the lambda it gave to rclcpp.   *)
(* The state owns references to the callable and to the generated classes; *)
(* its last owner, often a worker without the GIL, leaves them to a reaper *)
(* that a later drain empties.  A worker takes the GIL for its dispatch;   *)
(* the Python callback in it may let go of the GIL and may close entities. *)
(***************************************************************************)
EXTENDS Naturals, FiniteSets

CONSTANTS
    Workers,        \* executor threads
    Entities,       \* entities with a Python callback
    MaxDispatches,  \* bound: entities executed
    NoGil           \* nobody holds the GIL

ASSUME DispatchBound == MaxDispatches \in Nat
ASSUME CallbackThreads == IsFiniteSet(Workers) /\ NoGil \notin Workers

CallbackKinds == {"event", "subscription", "generic", "service", "timer"}

VARIABLES
    kind,          \* kind[e]: which of the five factories made e, fixed
    facade_open,   \* ~_CallbackEntity._closed, and state_ is set
    attached,      \* the lambda is in an rclcpp entity that lives
    dispatching,   \* dispatching[w]: where a worker is ...
    executed,      \* executed[w]: ... and the entity it executes
    interpreter,   \* the worker that holds the GIL
    references,    \* references[e]: what DispatchState's owner still holds
    reaped,        \* entities whose references lie in the reaper
    executions,    \* entities executed so far
    tally,         \* the counters of an entity's DispatchState
    snapshot       \* _stats_snapshot: callbacks and errors over crossings

callbackVars == <<kind, facade_open, attached, dispatching, executed,
                  interpreter, references, reaped, executions, tally, snapshot>>

NoEntity == "none"
ASSUME EntityNames == NoEntity \notin Entities

Runs(w, k) == executed[w] # NoEntity /\ kind[executed[w]] = k

\* What the constructor of DispatchState increments, by kind.
ReferencesOf(k) ==
    CASE k \in {"event", "subscription"} -> 3
      [] k = "service" -> 4
      [] k \in {"generic", "timer"} -> 1

PythonCallbacksInit ==
    /\ kind \in [Entities -> CallbackKinds]
    /\ facade_open = [e \in Entities |-> TRUE]
    /\ attached = [e \in Entities |-> TRUE]
    /\ dispatching = [w \in Workers |-> "idle"]
    /\ executed = [w \in Workers |-> NoEntity]
    /\ interpreter = NoGil
    /\ references = [e \in Entities |-> ReferencesOf(kind[e])]
    /\ reaped = {}
    /\ executions = 0
    /\ tally = [e \in Entities |->
                  [crossings |-> 0, callbacks |-> 0, errors |-> 0]]
    /\ snapshot = tally

\* Who keeps the DispatchState of e alive.
Executing(e) == {w \in Workers : executed[w] = e}
Shared(e) == facade_open[e] \/ attached[e] \/ Executing(e) # {}

\* ~DispatchState: the references go to the reaper.
Reap ==
    reaped' = reaped \cup {e \in Entities : references[e] > 0 /\ ~Shared(e)'}

Moves(w, place) == dispatching' = [dispatching EXCEPT ![w] = place]

-----------------------------------------------------------------------------
\* An executor thread takes an entity out of its wait set, and keeps it.
ExecuteEntity(w, e) ==
    /\ dispatching[w] = "idle" /\ attached[e]
    /\ executions < MaxDispatches
    /\ executions' = executions + 1
    /\ executed' = [executed EXCEPT ![w] = e]
    /\ Moves(w, "called")
    /\ UNCHANGED <<kind, facade_open, attached, interpreter, references,
                   reaped, tally, snapshot>>

\* DispatchState::dispatch, from PyGILState_Ensure to the Python call.
\* "closing" is read under the GIL.  A proxy that cannot be bound ends it.
Dispatch(w, crossings, canFail) ==
    LET e == executed[w]
    IN  /\ dispatching[w] = "called" /\ interpreter = NoGil
        /\ \/ /\ ~facade_open[e]
              /\ Moves(w, "leaving")
              /\ UNCHANGED <<kind, tally, interpreter>>
           \/ /\ facade_open[e]
              /\ tally' = [tally EXCEPT ![e].crossings = @ + crossings]
              /\ interpreter' = w
              /\ Moves(w, "python")
           \/ /\ facade_open[e] /\ canFail
              /\ tally' = [tally EXCEPT ![e].crossings = @ + crossings,
                                        ![e].errors = @ + 1]
              /\ Moves(w, "leaving")
              /\ UNCHANGED interpreter
        /\ UNCHANGED <<kind, facade_open, attached, executed, references,
                       reaped, executions, snapshot>>

\* An event counts its callbacks alone; a timer has nothing to bind.
DispatchEvent(w) == Runs(w, "event") /\ Dispatch(w, 0, TRUE)
DispatchSubscription(w) == Runs(w, "subscription") /\ Dispatch(w, 1, TRUE)
DispatchGeneric(w) == Runs(w, "generic") /\ Dispatch(w, 1, TRUE)
DispatchService(w) == Runs(w, "service") /\ Dispatch(w, 1, TRUE)
DispatchTimer(w) == Runs(w, "timer") /\ Dispatch(w, 1, FALSE)

\* The interpreter switches threads inside the callback.
CallbackYields(w) ==
    /\ dispatching[w] = "python" /\ interpreter = w
    /\ interpreter' = NoGil
    /\ UNCHANGED <<kind, facade_open, attached, dispatching, executed,
                   references, reaped, tally, executions, snapshot>>
Resume(w) ==
    /\ dispatching[w] = "python" /\ interpreter = NoGil
    /\ interpreter' = w
    /\ UNCHANGED <<kind, facade_open, attached, dispatching, executed,
                   references, reaped, tally, executions, snapshot>>

\* The callback returns, or raises, or a service's returns no response.
CallbackReturns(w) ==
    LET e == executed[w]
    IN  /\ dispatching[w] = "python" /\ interpreter = w
        /\ \/ tally' = [tally EXCEPT ![e].callbacks = @ + 1]
           \/ tally' = [tally EXCEPT ![e].errors = @ + 1]
        /\ interpreter' = NoGil
        /\ Moves(w, "leaving")
        /\ UNCHANGED <<kind, facade_open, attached, executed, references,
                       reaped, executions, snapshot>>

\* The executor lets go of the entity, and the lambda's state with it.
LeaveEntity(w) ==
    /\ dispatching[w] = "leaving"
    /\ Moves(w, "idle")
    /\ executed' = [executed EXCEPT ![w] = NoEntity]
    /\ UNCHANGED <<kind, facade_open, attached, interpreter, references,
                   tally, executions, snapshot>>
    /\ Reap

-----------------------------------------------------------------------------
\* The C++ close(): "closing" first, then the entity, then the state.  An
\* event callback has no entity: rclcpp keeps the lambda in its slot.
CloseImplementation(e) ==
    /\ facade_open' = [facade_open EXCEPT ![e] = FALSE]
    /\ attached' = [attached EXCEPT ![e] = kind[e] = "event" /\ @]

\* drain_python_callback_releases() over all the reapers.
Drained(dropped) ==
    [e \in Entities |-> IF e \in dropped THEN 0 ELSE references[e]]

\* Faulty variant: close() drops the references itself, dispatched or not.
CloseReleasesAtOnce(e) ==
    /\ facade_open[e]
    /\ snapshot' = [snapshot EXCEPT ![e] = tally[e]]
    /\ CloseImplementation(e)
    /\ references' = Drained(reaped \cup {e})
    /\ reaped' = {}
    /\ UNCHANGED <<kind, dispatching, executed, interpreter, executions, tally>>

\* _CallbackEntity.close(): the counters are kept, then the C++ close, then
\* the drain, in one go under the GIL.
CloseUnderGil(e) ==
    /\ facade_open[e]
    /\ snapshot' = [snapshot EXCEPT ![e] = tally[e]]
    /\ CloseImplementation(e)
    /\ UNCHANGED <<kind, dispatching, executed, interpreter, executions,
                   tally>>
    /\ references' = Drained(reaped \cup {d \in Entities : ~Shared(d)'})
    /\ reaped' = {}

\* From a Python thread of the user, or from a callback.
CloseEntity(e) == interpreter = NoGil /\ CloseUnderGil(e)
CloseInCallback(w, e) == interpreter = w /\ CloseUnderGil(e)

\* The entity an event callback belongs to goes away.
DetachEvent(e) ==
    /\ kind[e] = "event" /\ attached[e]
    /\ attached' = [attached EXCEPT ![e] = FALSE]
    /\ UNCHANGED <<kind, facade_open, dispatching, executed, interpreter,
                   references, tally, executions, snapshot>>
    /\ Reap

\* The session drains as well.
DrainReaped ==
    /\ interpreter = NoGil /\ reaped # {}
    /\ references' = Drained(reaped)
    /\ reaped' = {}
    /\ UNCHANGED <<kind, facade_open, attached, dispatching, executed,
                   interpreter, tally, executions, snapshot>>

PythonCallbacksNext ==
    \/ \E w \in Workers :
        \/ \E e \in Entities : ExecuteEntity(w, e) \/ CloseInCallback(w, e)
        \/ DispatchEvent(w) \/ DispatchSubscription(w) \/ DispatchGeneric(w)
        \/ DispatchService(w) \/ DispatchTimer(w)
        \/ CallbackYields(w) \/ Resume(w) \/ CallbackReturns(w) \/ LeaveEntity(w)
    \/ \E e \in Entities : CloseEntity(e) \/ DetachEvent(e)
    \/ DrainReaped

PythonCallbacksSpec ==
    PythonCallbacksInit /\ [][PythonCallbacksNext]_callbackVars

-----------------------------------------------------------------------------
InCallback(e) == {w \in Executing(e) : dispatching[w] = "python"}

\* The references of a state are all there while anyone can still dispatch
\* through it, and once nobody can they lie in the reaper until they are
\* dropped, under the GIL and all together.
ReferencesHeld ==
    \A e \in Entities :
        /\ references[e] \in {0, ReferencesOf(kind[e])}
        /\ Shared(e) => references[e] > 0 /\ e \notin reaped
        /\ ~Shared(e) => (e \in reaped <=> references[e] > 0)

\* Every crossing ends as a callback or as an error, or is still under way;
\* what close() keeps is short by the callbacks that were.
CrossingsAccounted ==
    \A e \in Entities :
        /\ kind[e] # "event" => tally[e].crossings =
             tally[e].callbacks + tally[e].errors + Cardinality(InCallback(e))
        /\ ~facade_open[e] => snapshot[e].crossings = tally[e].crossings

\* The two together: however close(), a dispatch and an executor that lets go
\* cross, neither a reference nor a crossing is lost.
CallbacksAccountedFor == ReferencesHeld /\ CrossingsAccounted
=============================================================================
