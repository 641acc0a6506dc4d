--------------------------- MODULE CallableReaper ---------------------------
(***************************************************************************)
(* The lifetime of a Python callable bound to a native entity              *)
(* (rclcpp_kit.direct_entities): PinnedCallable, PyObjectReaper,           *)
(* ManagedCallbackEntityImpl, DirectSubscription.close and the two drains  *)
(* of NativeSession.close.                                                 *)
(*                                                                         *)
(* Every copy of the std::function owns one reference to the callable.     *)
(* The copy inside rclcpp's entity dies with the last owner of the entity, *)
(* possibly on a native worker that rebuilds its wait set under the        *)
(* executor's mutex and without the GIL.  A destroyed copy therefore only  *)
(* queues its reference; a thread that holds the GIL drains the queue.     *)
(*                                                                         *)
(* rclcpp's executor is external: its workers hold strong references to    *)
(* the entities of their wait set, renew them under the executor's mutex,  *)
(* and dispatch one of them at a time; remove_node takes the same mutex.   *)
(***************************************************************************)
EXTENDS Naturals

CONSTANTS
    Entities,  \* entities with a Python callback, each with its own callable
    Workers,   \* native threads of the executor
    Nobody     \* the GIL or the executor's mutex is free

MainThread == "main"

ASSUME ThreadAssumption ==
    /\ Nobody \notin Workers
    /\ MainThread \notin Workers \union {Nobody}

VARIABLES
    facade,   \* facade[e]: the Python DirectSubscription of e
    dispatch,      \* dispatch[e]: copies of the std::function in the entity,
    wrapped,       \* ... in the managed wrapper's callback_,
    cpp_callback,  \* ... and in the facade's field (each 0 or 1)
    owned,    \* owned[e]: references to the callable that Python code owns
    refs,     \* refs[e]: the reference count of the callable
    queued,   \* queued[e]: its releases in the reaper's queue
    batch,    \* batch[e]: its releases in the batch being drained
    held,     \* held[w]: entities the wait set of w owns
    place,    \* place[w]: where the worker stands
    current,  \* current[w]: the entity the worker dispatches
    mutex,    \* who holds the executor's mutex_
    interpreter,  \* who holds the GIL
    main,         \* what the main thread is doing
    ending        \* how far NativeSession.close has gone

copies == <<dispatch, wrapped, cpp_callback>>
objects == <<facade, copies, owned, refs>>
queues == <<queued, batch>>
workers == <<held, place, current, mutex>>
reaperVars == <<objects, queues, workers, interpreter, main, ending>>

Facades == {"none", "open", "closing", "closed"}
Calls == {"python", "remove_node", "drain"}
WorkerPlaces == {"idle", "rebuilding", "wants gil", "running", "exited"}
ReaperPhases == {"open", "join", "drain", "clear", "drain again", "closed"}

CountsOK ==
    /\ dispatch \in [Entities -> {0, 1}]
    /\ wrapped \in [Entities -> {0, 1}]
    /\ cpp_callback \in [Entities -> {0, 1}]
    /\ owned \in [Entities -> Nat]
    /\ refs \in [Entities -> Nat]
    /\ queued \in [Entities -> Nat]
    /\ batch \in [Entities -> Nat]

ControlOK ==
    /\ facade \in [Entities -> Facades]
    /\ held \in [Workers -> SUBSET Entities]
    /\ place \in [Workers -> WorkerPlaces]
    /\ current \in [Workers -> Entities]
    /\ mutex \in Workers \union {Nobody}
    /\ interpreter \in Workers \union {MainThread, Nobody}
    /\ main \in Calls
    /\ ending \in ReaperPhases

ReaperTypeOK == CountsOK /\ ControlOK

ReaperInit ==
    /\ facade = [e \in Entities |-> "none"]
    /\ dispatch = [e \in Entities |-> 0]
    /\ wrapped = [e \in Entities |-> 0]
    /\ cpp_callback = [e \in Entities |-> 0]
    /\ owned = [e \in Entities |-> 0]
    /\ refs = [e \in Entities |-> 0]
    /\ queued = [e \in Entities |-> 0]
    /\ batch = [e \in Entities |-> 0]
    /\ held = [w \in Workers |-> {}]
    /\ place = [w \in Workers |-> "idle"]
    /\ current \in {[w \in Workers |-> e] : e \in Entities}
    /\ mutex = Nobody
    /\ interpreter = MainThread
    /\ main = "python"
    /\ ending = "open"

\* The facade owns its entity through the managed wrapper or its own field.
FacadeOwns(e) == facade[e] \in {"open", "closing"}

\* A wait set owns it too.
Shared(e) == \E w \in Workers : e \in held[w]

\* References the keep-alive list and the facade's fields own.
FacadeReferences(e) ==
    IF facade[e] = "open" THEN 2 ELSE IF facade[e] = "closing" THEN 1 ELSE 0

\* A thread that holds the GIL executes Python (and not a C++ call).
InInterpreter == interpreter \in Workers \/ (interpreter = MainThread /\ main = "python")

-----------------------------------------------------------------------------
(* Python code, on whichever thread holds the GIL.                         *)

\* A new subscription: the user's variable, the facade and the keep-alive
\* list own the callable, and so does each copy of the pinned std::function.
Create(e) ==
    /\ InInterpreter /\ ending = "open"
    /\ facade[e] = "none"
    /\ facade' = [facade EXCEPT ![e] = "open"]
    /\ dispatch' = [dispatch EXCEPT ![e] = 1]
    /\ wrapped' = [wrapped EXCEPT ![e] = 1]
    /\ cpp_callback' = [cpp_callback EXCEPT ![e] = 1]
    /\ owned' = [owned EXCEPT ![e] = 3]
    /\ refs' = [refs EXCEPT ![e] = 6]
    /\ UNCHANGED <<queues, workers, interpreter, main, ending>>

\* The user lets go of the callable: an ordinary Py_DECREF.
DropUserReference(e) ==
    /\ InInterpreter
    /\ owned[e] > FacadeReferences(e)
    /\ owned' = [owned EXCEPT ![e] = @ - 1]
    /\ refs' = [refs EXCEPT ![e] = @ - 1]
    /\ UNCHANGED <<facade, copies, queues, workers, interpreter, main, ending>>

\* managed.close() resets entity_ and callback_, then keep_alive.clear().
\* The facade's own field still owns the entity.
CloseManaged(e) ==
    /\ InInterpreter /\ ending = "open"
    /\ facade[e] = "open"
    /\ facade' = [facade EXCEPT ![e] = "closing"]
    /\ wrapped' = [wrapped EXCEPT ![e] = 0]
    /\ queued' = [queued EXCEPT ![e] = @ + 1]
    /\ owned' = [owned EXCEPT ![e] = @ - 1]
    /\ refs' = [refs EXCEPT ![e] = @ - 1]
    /\ UNCHANGED <<dispatch, cpp_callback, batch, workers, interpreter, main, ending>>

\* Faulty variant: closing destroys an entity that a wait set holds.
CloseFieldsUnshared(e) ==
    /\ InInterpreter /\ ending = "open"
    /\ facade[e] = "closing"
    /\ dispatch' = [dispatch EXCEPT ![e] = 0]
    /\ cpp_callback' = [cpp_callback EXCEPT ![e] = 0]
    /\ queued' = [queued EXCEPT ![e] = @ + 2]
    /\ facade' = [facade EXCEPT ![e] = "closed"]
    /\ owned' = [owned EXCEPT ![e] = @ - 1]
    /\ refs' = [refs EXCEPT ![e] = @ - 1]
    /\ UNCHANGED <<wrapped, batch, workers, interpreter, main, ending>>

\* The facade's fields are set to None: the entity dies here unless a worker
\* still holds it; cpp_callback dies here.
CloseFields(e) ==
    /\ InInterpreter /\ ending = "open"
    /\ facade[e] = "closing"
    /\ dispatch' = [dispatch EXCEPT ![e] = IF Shared(e) THEN @ ELSE 0]
    /\ cpp_callback' = [cpp_callback EXCEPT ![e] = 0]
    /\ queued' = [queued EXCEPT ![e] = @ + IF Shared(e) THEN 1 ELSE 2]
    /\ facade' = [facade EXCEPT ![e] = "closed"]
    /\ owned' = [owned EXCEPT ![e] = @ - 1]
    /\ refs' = [refs EXCEPT ![e] = @ - 1]
    /\ UNCHANGED <<wrapped, batch, workers, interpreter, main, ending>>

-----------------------------------------------------------------------------
(* The GIL.                                                                *)

\* Python drops it between two bytecodes; a C++ call keeps it.
MainYields ==
    /\ interpreter = MainThread /\ main = "python"
    /\ ending \in {"open", "closed"}
    /\ interpreter' = Nobody
    /\ UNCHANGED <<objects, queues, workers, main, ending>>

MainResumes ==
    /\ interpreter = Nobody
    /\ interpreter' = MainThread
    /\ UNCHANGED <<objects, queues, workers, main, ending>>

-----------------------------------------------------------------------------
(* The workers of the executor.                                            *)

\* Entities whose last owner is the wait set of one of the workers in W.
Dying(W) ==
    {e \in Entities :
        /\ \E w \in W : e \in held[w]
        /\ ~FacadeOwns(e)
        /\ \A w \in Workers \ W : e \notin held[w]}

\* Faulty variant: the destructor queues nothing.
DestroyLeaks(dead) ==
    /\ dispatch' = [e \in Entities |->
                      IF e \in dead THEN 0 ELSE dispatch[e]]
    /\ UNCHANGED queued

\* ~PinnedCallable for the dispatch copies: queue the reference, no GIL.
Destroy(dead) ==
    /\ dispatch' = [e \in Entities |->
                      IF e \in dead THEN 0 ELSE dispatch[e]]
    /\ queued' = [e \in Entities |->
                     IF e \in dead THEN queued[e] + 1 ELSE queued[e]]

\* A rebuild of the wait set drops the entities it held ...
RebuildDrops(w) ==
    /\ place[w] = "idle"
    /\ mutex = Nobody
    /\ mutex' = w
    /\ place' = [place EXCEPT ![w] = "rebuilding"]
    /\ Destroy(Dying({w}))
    /\ held' = [held EXCEPT ![w] = {}]
    /\ UNCHANGED <<facade, wrapped, cpp_callback, owned, refs, batch, current,
                   interpreter, main, ending>>

\* Faulty variant: the destructor takes the GIL.
RebuildTakesGil(w) ==
    /\ place[w] = "rebuilding"
    /\ interpreter = Nobody
    /\ mutex' = Nobody
    /\ place' = [place EXCEPT ![w] = "idle"]
    /\ held' = [held EXCEPT ![w] = {e \in Entities : FacadeOwns(e)}]
    /\ UNCHANGED <<objects, queues, current, interpreter, main, ending>>

\* ... and takes those that still have an owner.
RebuildTakes(w) ==
    /\ place[w] = "rebuilding"
    /\ mutex' = Nobody
    /\ place' = [place EXCEPT ![w] = "idle"]
    /\ held' = [held EXCEPT ![w] = {e \in Entities : FacadeOwns(e)}]
    /\ UNCHANGED <<objects, queues, current, interpreter, main, ending>>

\* A held entity is ready: its trampoline asks for the GIL.
Dispatch(w, e) ==
    /\ place[w] = "idle"
    /\ e \in held[w]
    /\ current' = [current EXCEPT ![w] = e]
    /\ place' = [place EXCEPT ![w] = "wants gil"]
    /\ UNCHANGED <<objects, queues, held, mutex, interpreter, main, ending>>

CallbackRuns(w) ==
    /\ place[w] = "wants gil"
    /\ interpreter = Nobody
    /\ interpreter' = w
    /\ place' = [place EXCEPT ![w] = "running"]
    /\ UNCHANGED <<objects, queues, held, current, mutex, main, ending>>

CallbackReturns(w) ==
    /\ place[w] = "running"
    /\ interpreter' = Nobody
    /\ place' = [place EXCEPT ![w] = "idle"]
    /\ UNCHANGED <<objects, queues, held, current, mutex, main, ending>>

\* A cancelled executor's thread ends; its wait set stays in the executor.
WorkerExits(w) ==
    /\ ending = "join"
    /\ place[w] = "idle"
    /\ place' = [place EXCEPT ![w] = "exited"]
    /\ UNCHANGED <<objects, queues, held, current, mutex, interpreter, main, ending>>

-----------------------------------------------------------------------------
(* The main thread.                                                        *)

MainRuns(p) == interpreter = MainThread /\ main = "python" /\ ending = p

\* executor.remove_node() waits for the executor's mutex with the GIL held.
RemoveNodeCalled ==
    /\ MainRuns("open")
    /\ main' = "remove_node"
    /\ UNCHANGED <<objects, queues, workers, interpreter, ending>>

RemoveNodeReturns ==
    /\ main = "remove_node"
    /\ mutex = Nobody
    /\ main' = "python"
    /\ UNCHANGED <<objects, queues, workers, interpreter, ending>>

\* drain(): swap the queue into a local batch under the reaper's mutex.
DrainSwaps ==
    /\ interpreter = MainThread /\ main = "python"
    /\ ending \in {"open", "drain", "drain again", "closed"}
    /\ main' = "drain"
    /\ batch' = queued
    /\ queued' = [e \in Entities |-> 0]
    /\ UNCHANGED <<objects, workers, interpreter, ending>>

\* Py_DECREF of one reference of the batch.
DrainReleases(e) ==
    /\ main = "drain"
    /\ batch[e] > 0
    /\ batch' = [batch EXCEPT ![e] = @ - 1]
    /\ refs' = [refs EXCEPT ![e] = @ - 1]
    /\ UNCHANGED <<facade, copies, owned, queued, workers, interpreter, main, ending>>

AfterDrain == CASE ending = "drain" -> "clear"
                [] ending = "drain again" -> "closed"
                [] OTHER -> ending

DrainEnds ==
    /\ main = "drain"
    /\ batch = [e \in Entities |-> 0]
    /\ main' = "python"
    /\ ending' = AfterDrain
    /\ UNCHANGED <<objects, queues, workers, interpreter>>

SessionCloses ==
    /\ MainRuns("open")
    /\ ending' = "join"
    /\ UNCHANGED <<objects, queues, workers, interpreter, main>>

SessionJoins ==
    /\ MainRuns("join")
    /\ \A w \in Workers : place[w] = "exited"
    /\ ending' = "drain"
    /\ UNCHANGED <<objects, queues, workers, interpreter, main>>

\* Faulty variant: there is no second drain.
SessionClearsLast ==
    /\ MainRuns("clear")
    /\ Destroy(Dying(Workers))
    /\ held' = [w \in Workers |-> {}]
    /\ ending' = "closed"
    /\ UNCHANGED <<facade, wrapped, cpp_callback, owned, refs, batch, place,
                   current, mutex, interpreter, main>>

\* _executors.clear() and _nodes.clear() destroy the wait sets.
SessionClears ==
    /\ MainRuns("clear")
    /\ Destroy(Dying(Workers))
    /\ held' = [w \in Workers |-> {}]
    /\ ending' = "drain again"
    /\ UNCHANGED <<facade, wrapped, cpp_callback, owned, refs, batch, place,
                   current, mutex, interpreter, main>>

-----------------------------------------------------------------------------
ReaperNext ==
    \/ \E e \in Entities :
         Create(e) \/ DropUserReference(e) \/ CloseManaged(e)
           \/ CloseFields(e) \/ DrainReleases(e)
    \/ MainYields \/ MainResumes
    \/ \E w \in Workers :
         RebuildDrops(w) \/ RebuildTakes(w) \/ CallbackRuns(w)
           \/ CallbackReturns(w) \/ WorkerExits(w)
    \/ \E w \in Workers, e \in Entities : Dispatch(w, e)
    \/ RemoveNodeCalled \/ RemoveNodeReturns
    \/ DrainSwaps \/ DrainEnds
    \/ SessionCloses \/ SessionJoins \/ SessionClears

ReaperSpec == ReaperInit /\ [][ReaperNext]_reaperVars

\* A rebuild in progress goes on, and the thread waiting for the executor's
\* mutex gets it although the workers take it again and again.
ReaperFairness ==
    /\ \A w \in Workers : WF_reaperVars(RebuildTakes(w))
    /\ SF_reaperVars(RemoveNodeReturns)

ReaperFairSpec == ReaperSpec /\ ReaperFairness

-----------------------------------------------------------------------------
(* Properties.                                                             *)

CopyCount(e) == dispatch[e] + wrapped[e] + cpp_callback[e]

\* The reference count of a callable is what Python code owns plus one for
\* every living copy of the std::function plus the releases not yet
\* performed: no copy is created or destroyed without its reference being
\* taken or queued once, whichever thread destroys it.
RefsBalance ==
    \A e \in Entities :
        refs[e] = owned[e] + CopyCount(e) + queued[e] + batch[e]

\* A worker that holds an entity, and so may dispatch it or is dispatching
\* it, never finds its callable destroyed, although the facade may have been
\* closed or collected and the queue drained meanwhile.
CallableOutlivesDispatch ==
    \A w \in Workers :
        /\ \A e \in held[w] : dispatch[e] = 1 /\ refs[e] > 0
        /\ place[w] \in {"wants gil", "running"} => current[w] \in held[w]

\* A reference count changes only in a step of the thread that holds the GIL:
\* a step in which a worker rebuilds its wait set leaves the counts alone.
CountsChangeUnderGIL ==
    [][refs' # refs =>
         /\ interpreter # Nobody
         /\ UNCHANGED <<held, place, mutex>>]_reaperVars

\* Once the session is closed, every subscription that was closed before it
\* has given back all the references the native side had: the two drains
\* together miss nothing, whatever the wait sets still held at the join.
ClosedReleasesAll ==
    \A e \in Entities :
        ending = "closed" /\ facade[e] = "closed" => refs[e] = owned[e]

\* remove_node returns: a worker that holds the executor's mutex never waits
\* for the GIL, which is why a destructor must not take it.
RemoveNodeCompletes == main = "remove_node" ~> main = "python"
=============================================================================
