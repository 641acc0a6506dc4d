-------------------------- MODULE NativeParameters --------------------------
(***************************************************************************)
(* rclcpp_kit.native_parameters: Python callbacks a node runs before, on   *)
(* and after a change of its parameters, behind three C++ bridges, and the *)
(* Python calls that read and set the same parameters.                     *)
(*                                                                         *)
(* The node (rclcpp, external) keeps one recursive mutex over a whole      *)
(* change, callbacks included.  A bridge takes the GIL inside it.  A       *)
(* Python call that sets or reads comes with the GIL and waits for the     *)
(* mutex inside that; close() lets go of the GIL while it waits.  Two      *)
(* threads that close one bridge at a time are left out (the second would  *)
(* race on handle_), and so are failed allocations and undeclare.          *)
(***************************************************************************)
EXTENDS Naturals, FiniteSets

CONSTANTS
    ParameterThreads,  \* threads of the process
    MaxChanges,        \* bound: changes begun
    Unowned            \* nobody holds the mutex, nobody holds the GIL

ASSUME ParameterAssumption == MaxChanges \in Nat /\ Unowned \notin ParameterThreads

Bridges == {"pre", "on", "post"}

VARIABLES
    node_mutex,   \* external: the thread inside the node's parameters
    bridge_gil,   \* the thread that holds the GIL
    at,           \* where a thread is
    stage,        \* the bridge it is at, or "apply"
    from_python,  \* the change was called from Python
    batch,        \* a change has parameters left to set
    verdict,      \* the result its on-set callback gave
    erred,        \* history: a callback of this change failed
    bridge_open,  \* handle_ and state_ of a bridge are set
    owner,        \* who owns its references: "state", "reaper", "nobody"
    changes,      \* changes begun
    applied,      \* external: changes the node applied
    parameter_counts  \* ParameterCallbackCounters of a bridge, and its calls
                      \* that went well

changing == <<stage, from_python, batch, verdict, erred>>
parameterVars == <<node_mutex, bridge_gil, at, changing, bridge_open, owner, changes,
                   applied, parameter_counts>>

ParameterCounters == {"calls", "exceptions", "rejections", "bridge_errors", "clean"}

NativeParametersInit ==
    /\ node_mutex = Unowned /\ bridge_gil = Unowned
    /\ at = [t \in ParameterThreads |-> "idle"]
    /\ stage = [t \in ParameterThreads |-> "pre"]
    /\ from_python = [t \in ParameterThreads |-> FALSE]
    /\ batch = [t \in ParameterThreads |-> FALSE]
    /\ verdict = [t \in ParameterThreads |-> FALSE]
    /\ erred = [t \in ParameterThreads |-> FALSE]
    /\ bridge_open \in [Bridges -> BOOLEAN]
    /\ owner = [b \in Bridges |-> IF bridge_open[b] THEN "state" ELSE "nobody"]
    /\ changes = 0 /\ applied = 0
    /\ parameter_counts = [b \in Bridges |-> [c \in ParameterCounters |-> 0]]

StepsTo(t, place) == at' = [at EXCEPT ![t] = place]
Tallied(b, added) ==
    parameter_counts' = [parameter_counts EXCEPT ![b] =
        [c \in ParameterCounters |-> @[c] + IF c \in added THEN 1 ELSE 0]]

\* The invocation's copy of the lambda keeps the state too.
Invoked(b) == {t \in ParameterThreads :
                at[t] \in {"bind", "callback", "returned"} /\ stage[t] = b}

\* ~ParameterCallbackState enqueues what it owned.
Retire(released) ==
    owner' = [b \in Bridges |-> IF b \in released /\ owner[b] = "state"
                                THEN "reaper" ELSE owner[b]]

-----------------------------------------------------------------------------
(* Changes: set_parameters, set_parameters_atomically, declare_parameter.  *)

BeginChange(t, python) ==
    /\ at[t] = "idle" /\ changes < MaxChanges
    /\ changes' = changes + 1
    /\ StepsTo(t, "enter")
    /\ stage' = [stage EXCEPT ![t] = "pre"]
    /\ from_python' = [from_python EXCEPT ![t] = python]
    /\ batch' = [batch EXCEPT ![t] = TRUE]
    /\ verdict' = [verdict EXCEPT ![t] = FALSE]
    /\ erred' = [erred EXCEPT ![t] = FALSE]
    /\ UNCHANGED <<node_mutex, bridge_open, owner, applied, parameter_counts>>

\* A parameter service of the node, on an executor thread.
NativeChange(t) == BeginChange(t, FALSE) /\ UNCHANGED bridge_gil

\* From Python: the GIL is kept for the whole call.
PythonChange(t) == bridge_gil = Unowned /\ bridge_gil' = t /\ BeginChange(t, TRUE)

EnterNode(t) ==
    /\ at[t] = "enter" /\ node_mutex = Unowned
    /\ node_mutex' = t
    /\ StepsTo(t, "staged")
    /\ UNCHANGED <<bridge_gil, changing, bridge_open, owner, changes, applied,
                   parameter_counts>>

\* The node calls the bridge of this stage; without one it goes on.
NextStage(s) == CASE s = "pre" -> "on" [] s = "on" -> "apply"
                  [] s = "apply" -> "post" [] s = "post" -> "done"

CallBridge(t) ==
    LET b == stage[t]
    IN  /\ at[t] = "staged" /\ b \in Bridges
        /\ IF bridge_open[b]
           THEN /\ StepsTo(t, "bind")
                /\ Tallied(b, {"calls"})
                /\ UNCHANGED stage
           ELSE /\ stage' = [stage EXCEPT ![t] = NextStage(b)]
                /\ UNCHANGED <<at, parameter_counts>>
        /\ UNCHANGED <<node_mutex, bridge_gil, from_python, batch, verdict, erred,
                       bridge_open, owner, changes, applied>>

ReleaseGil(t) == bridge_gil' = IF from_python[t] THEN t ELSE Unowned

\* What is left of the change when the invocation starts: an empty
\* replacement, a result that fails.
FreshInvocation(t) ==
    /\ batch' = [batch EXCEPT ![t] = @ /\ stage[t] # "pre"]
    /\ verdict' = [verdict EXCEPT ![t] = @ /\ stage[t] # "on"]

\* dispatch takes the GIL, or has it, and binds the proxy.
BindProxy(t) ==
    /\ at[t] = "bind" /\ bridge_gil \in {t, Unowned}
    /\ FreshInvocation(t)
    /\ \/ /\ bridge_gil' = t
          /\ StepsTo(t, "callback")
          /\ UNCHANGED <<parameter_counts, erred>>
       \/ /\ ReleaseGil(t)
          /\ StepsTo(t, "returned")
          /\ Tallied(stage[t], {"bridge_errors", "exceptions"})
          /\ erred' = [erred EXCEPT ![t] = TRUE]
    /\ UNCHANGED <<node_mutex, stage, from_python, bridge_open, owner, changes,
                   applied>>

\* The interpreter switches threads inside the callback.
LetGo(t) ==
    /\ at[t] = "callback" /\ bridge_gil = t
    /\ bridge_gil' = Unowned
    /\ UNCHANGED <<node_mutex, at, changing, bridge_open, owner, changes,
                   applied, parameter_counts>>
GoOn(t) ==
    /\ at[t] = "callback" /\ bridge_gil = Unowned
    /\ bridge_gil' = t
    /\ UNCHANGED <<node_mutex, at, changing, bridge_open, owner, changes,
                   applied, parameter_counts>>

\* The Python dispatch sets a replacement or a result; it contains what the
\* callback raises; or its own handler fails, and C++ contains that.
CallbackSets(t) ==
    /\ \E kept \in BOOLEAN :
        /\ batch' = [batch EXCEPT ![t] = IF stage[t] = "pre" THEN kept ELSE @]
        /\ verdict' = [verdict EXCEPT ![t] = IF stage[t] = "on" THEN kept ELSE @]
    /\ Tallied(stage[t], {"clean"})
    /\ UNCHANGED erred
\* Faulty variant: a handler that fails is a bridge error only.
CallbackRaisesHalfCounted(t) ==
    /\ batch' = [batch EXCEPT ![t] = @ /\ stage[t] # "pre"]
    /\ verdict' = [verdict EXCEPT ![t] = @ /\ stage[t] # "on"]
    /\ erred' = [erred EXCEPT ![t] = TRUE]
    /\ Tallied(stage[t], {"exceptions"}) \/ Tallied(stage[t], {"bridge_errors"})

CallbackRaises(t) ==
    /\ batch' = [batch EXCEPT ![t] = @ /\ stage[t] # "pre"]
    /\ verdict' = [verdict EXCEPT ![t] = @ /\ stage[t] # "on"]
    /\ erred' = [erred EXCEPT ![t] = TRUE]
    /\ \/ Tallied(stage[t], {"exceptions"})
       \/ Tallied(stage[t], {"bridge_errors", "exceptions"})

ParameterCallbackReturns(t) ==
    /\ at[t] = "callback" /\ bridge_gil = t
    /\ CallbackSets(t) \/ CallbackRaises(t)
    /\ ReleaseGil(t)
    /\ StepsTo(t, "returned")
    /\ UNCHANGED <<node_mutex, stage, from_python, bridge_open, owner, changes,
                   applied>>

\* The lambda ends without the GIL: an on-set result that fails counts.  An
\* empty batch, or a result that fails, is the end of the change.
FinishInvocation(t) ==
    LET b == stage[t]
        goesOn == (b = "pre" => batch[t]) /\ (b = "on" => verdict[t])
    IN  /\ at[t] = "returned"
        /\ Tallied(b, IF b = "on" /\ ~verdict[t] THEN {"rejections"} ELSE {})
        /\ stage' = [stage EXCEPT ![t] = IF goesOn THEN NextStage(b) ELSE "done"]
        /\ StepsTo(t, "staged")
        /\ Retire(IF bridge_open[b] \/ Invoked(b) # {t} THEN {} ELSE {b})
        /\ UNCHANGED <<node_mutex, bridge_gil, from_python, batch, verdict, erred,
                       bridge_open, changes, applied>>

ApplyChange(t) ==
    /\ at[t] = "staged" /\ stage[t] = "apply"
    /\ applied' = applied + 1
    /\ stage' = [stage EXCEPT ![t] = "post"]
    /\ UNCHANGED <<node_mutex, bridge_gil, at, from_python, batch, verdict, erred,
                   bridge_open, owner, changes, parameter_counts>>

LeaveNode(t) ==
    /\ at[t] = "staged" /\ stage[t] = "done"
    /\ node_mutex' = Unowned
    /\ bridge_gil' = IF from_python[t] THEN Unowned ELSE bridge_gil
    /\ StepsTo(t, "idle")
    /\ UNCHANGED <<changing, bridge_open, owner, changes, applied,
                   parameter_counts>>

-----------------------------------------------------------------------------
(* Reads: has_parameter, get_parameter(s), describe_parameters, ...        *)

PythonRead(t) ==
    /\ at[t] = "idle" /\ bridge_gil = Unowned
    /\ bridge_gil' = t
    /\ StepsTo(t, "reading")
    /\ UNCHANGED <<node_mutex, changing, bridge_open, owner, changes, applied,
                   parameter_counts>>
ReadReturns(t) ==
    /\ at[t] = "reading" /\ node_mutex = Unowned
    /\ bridge_gil' = Unowned
    /\ StepsTo(t, "idle")
    /\ UNCHANGED <<node_mutex, changing, bridge_open, owner, changes, applied,
                   parameter_counts>>

-----------------------------------------------------------------------------
(* NativeParameterCallback.close(), and the reaper.                        *)

\* Faulty variant: close() keeps the GIL while it waits.
CloseBridgeWithGil(t, b) ==
    /\ at[t] = "idle" /\ bridge_gil = Unowned /\ bridge_open[b]
    /\ \A u \in ParameterThreads : at[u] = "closing" => stage[u] # b
    /\ bridge_gil' = t
    /\ StepsTo(t, "closing")
    /\ stage' = [stage EXCEPT ![t] = b]
    /\ UNCHANGED <<node_mutex, from_python, batch, verdict, erred,
                   bridge_open, owner, changes, applied, parameter_counts>>

\* close() is called with the GIL and waits for the mutex without it.
CloseBridgeBegins(t, b) ==
    /\ at[t] = "idle" /\ bridge_gil = Unowned /\ bridge_open[b]
    /\ \A u \in ParameterThreads : at[u] = "closing" => stage[u] # b
    /\ StepsTo(t, "closing")
    /\ stage' = [stage EXCEPT ![t] = b]
    /\ UNCHANGED <<node_mutex, bridge_gil, from_python, batch, verdict, erred,
                   bridge_open, owner, changes, applied, parameter_counts>>

\* The bridge is taken out of the node; its handle and its state go.
CloseRemoves(t) ==
    LET b == stage[t]
    IN  /\ at[t] = "closing" /\ node_mutex = Unowned
        /\ bridge_open' = [bridge_open EXCEPT ![b] = FALSE]
        /\ Retire(IF Invoked(b) = {} THEN {b} ELSE {})
        /\ StepsTo(t, "closed")
        /\ UNCHANGED <<node_mutex, bridge_gil, changing, changes, applied,
                       parameter_counts>>

DrainedOwners(before) == [b \in Bridges |-> IF before[b] = "reaper" THEN "nobody"
                                            ELSE before[b]]

\* With the GIL back, close() drains.
CloseBridgeDrains(t) ==
    /\ at[t] = "closed" /\ bridge_gil \in {t, Unowned}
    /\ owner' = DrainedOwners(owner)
    /\ StepsTo(t, "idle")
    /\ UNCHANGED <<node_mutex, bridge_gil, changing, bridge_open, changes, applied,
                   parameter_counts>>

\* From inside a callback the node refuses to remove the bridge; the error is
\* swallowed, and without its handle the node forgets it all the same.
CloseInsideCallback(t, b) ==
    /\ at[t] = "callback" /\ bridge_gil = t /\ bridge_open[b]
    /\ \A u \in ParameterThreads : at[u] = "closing" => stage[u] # b
    /\ bridge_open' = [bridge_open EXCEPT ![b] = FALSE]
    /\ owner' = DrainedOwners([owner EXCEPT
                    ![b] = IF Invoked(b) = {} THEN "reaper" ELSE @])
    /\ UNCHANGED <<node_mutex, bridge_gil, at, changing, changes, applied,
                   parameter_counts>>

\* The session drains too.
DrainParameters ==
    /\ bridge_gil = Unowned /\ \E b \in Bridges : owner[b] = "reaper"
    /\ owner' = DrainedOwners(owner)
    /\ UNCHANGED <<node_mutex, bridge_gil, at, changing, bridge_open, changes, applied,
                   parameter_counts>>

-----------------------------------------------------------------------------
\* A thread inside a call goes on.
ParameterStep(t) ==
    \/ EnterNode(t) \/ CallBridge(t) \/ BindProxy(t)
    \/ ParameterCallbackReturns(t) \/ FinishInvocation(t) \/ ApplyChange(t)
    \/ LeaveNode(t) \/ ReadReturns(t) \/ CloseRemoves(t) \/ CloseBridgeDrains(t)

NativeParametersNext ==
    \/ \E t \in ParameterThreads :
        \/ ParameterStep(t) \/ LetGo(t) \/ GoOn(t)
        \/ NativeChange(t) \/ PythonChange(t) \/ PythonRead(t)
        \/ \E b \in Bridges : CloseBridgeBegins(t, b) \/ CloseInsideCallback(t, b)
    \/ DrainParameters

NativeParametersSpec ==
    NativeParametersInit /\ [][NativeParametersNext]_parameterVars

\* Both locks are handed on in the end to every thread that waits for them,
\* and a callback ends.
NativeParametersFairness ==
    \A t \in ParameterThreads :
        SF_parameterVars(ParameterStep(t)) /\ SF_parameterVars(GoOn(t))

-----------------------------------------------------------------------------
\* A change gets to be applied only if none of its callbacks before that
\* failed and what they left was not empty: an error is contained as a refusal.
AppliedIsUntroubled ==
    \A t \in ParameterThreads : stage[t] = "apply" => ~erred[t] /\ batch[t]

\* An invocation is counted once in calls and, when it is over, as clean or
\* as an exception; a bridge error is one of the exceptions, and an on-set
\* exception is a rejection, on every path of errors.
InvocationsBalance ==
    \A b \in Bridges :
        LET n == parameter_counts[b]
            inside == {t \in Invoked(b) : at[t] # "returned"}
            refused == {t \in Invoked(b) : at[t] = "returned" /\ ~verdict[t]}
        IN  /\ n.calls = n.clean + n.exceptions + Cardinality(inside)
            /\ n.bridge_errors <= n.exceptions
            /\ b = "on" => n.rejections + Cardinality(refused) >= n.exceptions

\* The references of a bridge are its state's as long as a thread can still
\* call through it; after that the reaper has them until a drain.
ReferencesOwned ==
    \A b \in Bridges :
        bridge_open[b] \/ Invoked(b) # {} <=> owner[b] = "state"

\* Together: whatever fails in a callback is contained, and a bridge settles
\* its invocations and its references.
BridgesSettle == AppliedIsUntroubled /\ InvocationsBalance /\ ReferencesOwned

\* A thread that came with the GIL waits for the mutex, and its owner for the
\* GIL: nothing lets go of either.
CrossedAccess ==
    \E t \in ParameterThreads :
        at[t] \in {"enter", "reading"} /\ bridge_gil = t /\ node_mutex # Unowned

\* close() of a callback returns, though a callback may hold the node's mutex
\* and want the GIL; only a Python access that kept the GIL can be in its way.
CloseReturnsUnlessCrossed ==
    \A t \in ParameterThreads :
        [](at[t] = "closing" => <>(at[t] = "idle" \/ CrossedAccess))
=============================================================================
