---------------------------- MODULE NativeWaitSet ----------------------------
(***************************************************************************)
(* The calls of a session that block: NativeWaitSet.wait on guard          *)
(* conditions (rclcpp_kit.native_waitset) and NativeClockSleeper.sleep_for *)
(* and sleep_until (rclcpp_kit.native_clock_sleep), with the threads that  *)
(* trigger the guards, close the adapters and shut the context down.       *)
(*                                                                         *)
(* cppyy keeps the GIL for the whole of a C++ call, and no call of these   *)
(* adapters is marked to release it.                                       *)
(*                                                                         *)
(* rclcpp is external: a guard condition latches its trigger and belongs   *)
(* to one wait set at a time; a wait set refers to its guards weakly, owns *)
(* those alive while it waits, and consumes the trigger that wakes it; a   *)
(* sleep ends at its deadline, when the time source changes, or when its   *)
(* context is shut down.                                                   *)
(***************************************************************************)
EXTENDS Naturals

CONSTANTS
    PyThreads,  \* Python threads
    Guards,     \* guard conditions of the session
    WaitSets,   \* its wait sets
    NoPyThread, \* nobody holds the GIL
    MaxBlocks   \* bound: calls that block

Sleeper == "sleeper"
Adapters == Guards \union WaitSets \union {Sleeper}

ASSUME AdapterAssumption ==
    /\ Guards \intersect WaitSets = {}
    /\ Sleeper \notin Guards \union WaitSets
    /\ NoPyThread \notin PyThreads
    /\ MaxBlocks \in Nat

VARIABLES
    gil_owner, \* the thread that holds the GIL
    stands,    \* stands[t]: where the thread is
    waits_on,  \* waits_on[t]: guards its wait has made itself an owner of
    timed,     \* timed[t]: the wait has a timeout
    about,     \* about[t]: guards the thread's trigger() is about
    usable,    \* adapters that have not been closed
    members,   \* members[s]: the guards added to the wait set
    raw,       \* guards a native thread has from raw_guard_condition
    latched,   \* guards that were triggered and woke nobody yet
    context,   \* the session's context
    blocks     \* blocking calls still to come

waitVars == <<gil_owner, stands, waits_on, timed, about, usable, members, raw,
              latched, context, blocks>>

WaitTypeOK ==
    /\ gil_owner \in PyThreads \union {NoPyThread}
    /\ stands \in [PyThreads -> {"python", "triggering", "waiting", "sleeping"}]
    /\ waits_on \in [PyThreads -> SUBSET Guards]
    /\ timed \in [PyThreads -> BOOLEAN]
    /\ about \in [PyThreads -> SUBSET Guards]
    /\ usable \subseteq Adapters
    /\ members \in [WaitSets -> SUBSET Guards]
    /\ raw \subseteq Guards
    /\ latched \subseteq Guards
    /\ context \in {"valid", "signalled", "closed"}
    /\ blocks \in 0 .. MaxBlocks

WaitInit ==
    /\ gil_owner = NoPyThread
    /\ stands = [t \in PyThreads |-> "python"]
    /\ waits_on = [t \in PyThreads |-> {}]
    /\ timed = [t \in PyThreads |-> FALSE]
    /\ about = [t \in PyThreads |-> {}]
    /\ usable = Adapters
    /\ members = [s \in WaitSets |-> {}]
    /\ raw = {}
    /\ latched = {}
    /\ context = "valid"
    /\ blocks = MaxBlocks

-----------------------------------------------------------------------------
InPythonCode(t) == gil_owner = t /\ stands[t] = "python"
Stands(t, where) == stands' = [stands EXCEPT ![t] = where]
Blocked(t) == stands[t] \in {"waiting", "sleeping"}

\* A guard lives as long as its adapter, a native thread or a wait owns it.
Waited == UNION {waits_on[t] : t \in PyThreads}
GuardLives(g) == g \in usable \union raw \union Waited

\* The interpreter hands the GIL round between bytecodes, not inside a call.
ThreadRuns(t) ==
    /\ gil_owner = NoPyThread /\ ~Blocked(t)
    /\ gil_owner' = t
    /\ UNCHANGED <<stands, waits_on, timed, about, usable, members, raw, latched,
                   context, blocks>>

ThreadPauses(t) ==
    /\ gil_owner = t /\ ~Blocked(t)
    /\ gil_owner' = NoPyThread
    /\ UNCHANGED <<stands, waits_on, timed, about, usable, members, raw, latched,
                   context, blocks>>

-----------------------------------------------------------------------------
(* Guard conditions.                                                       *)

\* exchange_in_use_by_wait_set_state: refused if another wait set has it.
AddGuardCondition(t, s, g) ==
    /\ InPythonCode(t) /\ s \in usable /\ g \in usable
    /\ \A r \in WaitSets : g \notin members[r]
    /\ members' = [members EXCEPT ![s] = @ \union {g}]
    /\ UNCHANGED <<gil_owner, stands, waits_on, timed, about, usable, raw, latched,
                   context, blocks>>

TriggerCalled(t, g) ==
    /\ InPythonCode(t)
    /\ Stands(t, "triggering")
    /\ about' = [about EXCEPT ![t] = {g}]
    /\ UNCHANGED <<gil_owner, waits_on, timed, usable, members, raw, latched,
                   context, blocks>>

\* _require_open on both sides: a closed guard raises.
Trigger(t) ==
    /\ gil_owner = t /\ stands[t] = "triggering"
    /\ latched' = latched \union (about[t] \intersect usable)
    /\ about' = [about EXCEPT ![t] = {}]
    /\ Stands(t, "python")
    /\ UNCHANGED <<gil_owner, waits_on, timed, usable, members, raw, context, blocks>>

\* raw_guard_condition, given to C++ code.
TakeRawGuard(t, g) ==
    /\ InPythonCode(t) /\ g \in usable /\ g \notin raw
    /\ raw' = raw \union {g}
    /\ UNCHANGED <<gil_owner, stands, waits_on, timed, about, usable, members,
                   latched, context, blocks>>

NativeTriggers(g) ==
    /\ g \in raw /\ g \notin latched
    /\ latched' = latched \union {g}
    /\ UNCHANGED <<gil_owner, stands, waits_on, timed, about, usable, members, raw,
                   context, blocks>>

\* A guard that lost its last owner leaves the wait set with its trigger.
Expires(g) ==
    /\ latched' = IF GuardLives(g)' THEN latched ELSE latched \ {g}
    /\ members' = IF GuardLives(g)' THEN members
                  ELSE [s \in WaitSets |-> members[s] \ {g}]

NativeDrops(g) ==
    /\ g \in raw
    /\ raw' = raw \ {g}
    /\ UNCHANGED <<gil_owner, stands, waits_on, timed, about, usable, context, blocks>>
    /\ Expires(g)

CloseGuard(t, g) ==
    /\ InPythonCode(t) /\ g \in usable
    /\ usable' = usable \ {g}
    /\ UNCHANGED <<gil_owner, stands, waits_on, timed, about, raw, context, blocks>>
    /\ Expires(g)

-----------------------------------------------------------------------------
(* The wait set.                                                           *)

\* Faulty variant: the call releases the GIL.
WaitBlocksWithoutGil(t, s, limited) ==
    /\ InPythonCode(t) /\ s \in usable /\ blocks > 0
    /\ members[s] # {}
    /\ gil_owner' = NoPyThread
    /\ Stands(t, "waiting")
    /\ waits_on' = [waits_on EXCEPT ![t] = members[s]]
    /\ timed' = [timed EXCEPT ![t] = limited]
    /\ blocks' = blocks - 1
    /\ UNCHANGED <<about, usable, members, raw, latched, context>>

\* wait(timeout_ns), untimed by default: the adapter's mutex and the GIL are
\* kept.  Without guards the call returns "empty".
WaitBlocks(t, s, limited) ==
    /\ InPythonCode(t) /\ s \in usable /\ blocks > 0
    /\ members[s] # {}
    /\ Stands(t, "waiting")
    /\ waits_on' = [waits_on EXCEPT ![t] = members[s]]
    /\ timed' = [timed EXCEPT ![t] = limited]
    /\ blocks' = blocks - 1
    /\ UNCHANGED <<gil_owner, about, usable, members, raw, latched, context>>

\* The wait gives up what it owned: a guard nobody else has goes.
WaitReturns(t, woke) ==
    LET left == {g \in waits_on[t] : g \in usable \union raw}
    IN  /\ stands[t] = "waiting"
        /\ Stands(t, "python")
        /\ waits_on' = [waits_on EXCEPT ![t] = {}]
        /\ latched' = (latched \ woke) \ (waits_on[t] \ left)
        /\ members' = [s \in WaitSets |-> members[s] \ (waits_on[t] \ left)]
        /\ UNCHANGED <<gil_owner, timed, about, usable, raw, context, blocks>>

WaitReady(t) ==
    /\ waits_on[t] \intersect latched # {}
    /\ WaitReturns(t, waits_on[t] \intersect latched)

WaitTimesOut(t) ==
    /\ timed[t] /\ waits_on[t] \intersect latched = {}
    /\ WaitReturns(t, {})

\* close() takes the adapter's mutex, which a wait holds; the guards added to
\* the set can be added to another.
CloseWaitSet(t, s) ==
    /\ InPythonCode(t) /\ s \in usable
    /\ \A u \in PyThreads : waits_on[u] \intersect members[s] = {}
    /\ usable' = usable \ {s}
    /\ members' = [members EXCEPT ![s] = {}]
    /\ UNCHANGED <<gil_owner, stands, waits_on, timed, about, raw, latched,
                   context, blocks>>

-----------------------------------------------------------------------------
(* The sleeper, and the context.                                           *)

\* snapshot() copies clock and context under the mutex; the sleep itself
\* holds only the GIL.  An invalid context raises.
SleepBegins(t) ==
    /\ InPythonCode(t) /\ Sleeper \in usable /\ context = "valid" /\ blocks > 0
    /\ Stands(t, "sleeping")
    /\ blocks' = blocks - 1
    /\ UNCHANGED <<gil_owner, waits_on, timed, about, usable, members, raw, latched,
                   context>>

\* The deadline, or an executor thread changes the clock's time source.
SleepEnds(t) ==
    /\ stands[t] = "sleeping"
    /\ Stands(t, "python")
    /\ UNCHANGED <<gil_owner, waits_on, timed, about, usable, members, raw, latched,
                   context, blocks>>

CloseSleeper(t) ==
    /\ InPythonCode(t) /\ Sleeper \in usable
    /\ usable' = usable \ {Sleeper}
    /\ UNCHANGED <<gil_owner, stands, waits_on, timed, about, members, raw, latched,
                   context, blocks>>

\* rclcpp's signal handler shuts the context down on a native thread.
SignalArrives ==
    /\ context = "valid"
    /\ context' = "signalled"
    /\ UNCHANGED <<gil_owner, stands, waits_on, timed, about, usable, members, raw,
                   latched, blocks>>

\* NativeSession.close: the context goes after the registered adapters.
SessionShutsDown(t) ==
    /\ InPythonCode(t) /\ usable = {} /\ context # "closed"
    /\ context' = "closed"
    /\ UNCHANGED <<gil_owner, stands, waits_on, timed, about, usable, members, raw,
                   latched, blocks>>

-----------------------------------------------------------------------------
PythonStep(t) ==
    \/ Trigger(t)
    \/ \E g \in Guards : TriggerCalled(t, g) \/ TakeRawGuard(t, g) \/ CloseGuard(t, g)
    \/ \E s \in WaitSets :
        \/ \E g \in Guards : AddGuardCondition(t, s, g)
        \/ \E limited \in BOOLEAN : WaitBlocks(t, s, limited)
        \/ CloseWaitSet(t, s)
    \/ SleepBegins(t) \/ CloseSleeper(t) \/ SessionShutsDown(t)

WaitNext ==
    \/ \E t \in PyThreads :
        \/ ThreadRuns(t) \/ ThreadPauses(t)
        \/ PythonStep(t)
        \/ WaitReady(t) \/ WaitTimesOut(t) \/ SleepEnds(t)
    \/ \E g \in Guards : NativeTriggers(g) \/ NativeDrops(g)
    \/ SignalArrives

WaitSpec == WaitInit /\ [][WaitNext]_waitVars

\* Time passes, rclcpp wakes a wait whose guard is triggered, and a thread
\* that is offered the GIL again and again takes it and goes on.
WaitFairness ==
    \A t \in PyThreads :
        /\ SF_waitVars(ThreadRuns(t)) /\ WF_waitVars(ThreadPauses(t))
        /\ SF_waitVars(Trigger(t))
        /\ WF_waitVars(WaitReady(t)) /\ WF_waitVars(WaitTimesOut(t))
        /\ WF_waitVars(SleepEnds(t))

FairWaitSpec == WaitSpec /\ WaitFairness

-----------------------------------------------------------------------------
\* Nothing a blocked call uses goes away under it: while a thread waits in the
\* wait set or sleeps, no adapter is closed and the session does not shut its
\* context down, although the sleep holds no mutex and the guards of the wait
\* have mutexes of their own.
BlockedIsUndisturbed ==
    [][(\E t \in PyThreads : Blocked(t)) =>
        usable' = usable /\ (context' = "closed" => context = "closed")]_waitVars

\* trigger() wakes a wait on its guard from any thread, which is what its
\* docstring says: violated when both threads are Python's, because the wait
\* keeps the GIL the trigger needs.
TriggerWakes ==
    \A t, u \in PyThreads :
        [](stands[t] = "waiting" /\ about[u] \intersect waits_on[t] # {}
             => <>(stands[t] = "python"))
=============================================================================
