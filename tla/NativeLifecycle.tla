-------------------------- MODULE NativeLifecycle --------------------------
(***************************************************************************)
(* rclcpp_kit.native_lifecycle: a lifecycle node with Python transition    *)
(* callbacks, and the executors it is attached to.                         *)
(*                                                                         *)
(* A transition is triggered from Python or by the change_state service on *)
(* an executor thread; the callback runs between two steps of the state    *)
(* machine, without a lock.  attach_executor, detach_executor and close    *)
(* hold the resource's mutex throughout: each is one action.  Executors    *)
(* are kept weakly and may go away.  The state machine is rclcpp's.        *)
(***************************************************************************)
EXTENDS Naturals, FiniteSets

CONSTANTS
    NodeExecutors,      \* executors of the user
    MaxTransitions,     \* bound: transitions triggered
    MaxRawMembership    \* bound: add_node and remove_node through raw_node

ASSUME LifecycleBounds == MaxTransitions \in Nat /\ MaxRawMembership \in Nat

VARIABLES
    node_set,        \* node_ of the resource is set
    executors_,      \* LifecycleNodeResource::executors_
    hosting,         \* external: executors that have the node
    adopted,         \* history: hosting by attach_executor, not by the user
    live_executors,  \* external: executors that exist
    lc_state,        \* external: the state machine
    transition,      \* the transition under way, "none" without one
    started_in,      \* the state it started in, handed to the callback
    trigger,         \* who waits for it: "none", "python" or "service"
    failures,        \* _TransitionCallbackFailures, contained and not taken
    outcomes,        \* history: callbacks that ended in each CallbackReturn,
                     \* and failures taken out
    lc_bounds        \* transitions and raw calls so far

lifecycleVars ==
    <<node_set, executors_, hosting, adopted, live_executors, lc_state,
      transition, started_in, trigger, failures, outcomes, lc_bounds>>

membership == <<executors_, hosting, adopted, live_executors>>
machine == <<lc_state, transition, started_in, trigger, failures, outcomes>>

Kinds == {"configure", "cleanup", "activate", "deactivate", "shutdown"}
TransitionOutcomes == {"success", "failure", "error"}
GoalOf(k) == CASE k = "configure" -> "inactive" [] k = "cleanup" -> "unconfigured"
               [] k = "activate" -> "active" [] k = "deactivate" -> "inactive"
               [] k = "shutdown" -> "finalized"
StartsOf(k) == CASE k = "configure" -> {"unconfigured"}
                 [] k \in {"cleanup", "activate"} -> {"inactive"}
                 [] k = "deactivate" -> {"active"}
                 [] k = "shutdown" -> {"unconfigured", "inactive", "active"}

LifecycleInit ==
    /\ node_set = TRUE
    /\ executors_ = {} /\ hosting = {} /\ adopted = {}
    /\ live_executors = NodeExecutors
    /\ lc_state = "unconfigured" /\ started_in = "unconfigured"
    /\ transition = "none" /\ trigger = "none"
    /\ failures = 0
    /\ outcomes = [o \in TransitionOutcomes \cup {"taken"} |-> 0]
    /\ lc_bounds = [transitions |-> 0, raw |-> 0]

-----------------------------------------------------------------------------
(* The resource and its executors.                                         *)

\* An executor takes a node that no executor has; otherwise add_node throws
\* and the list stays.
AttachExecutor(e) ==
    /\ node_set /\ e \in live_executors
    /\ e \notin executors_ /\ hosting \cap live_executors = {}
    /\ executors_' = (executors_ \cap live_executors) \cup {e}
    /\ hosting' = hosting \cup {e}
    /\ adopted' = adopted \cup {e}
    /\ UNCHANGED <<node_set, live_executors, machine, lc_bounds>>

\* Faulty variant: a refused attach takes the executor out of the list.
AttachRollsBack(e) ==
    /\ node_set /\ e \in live_executors
    /\ e \in executors_ \/ hosting \cap live_executors # {}
    /\ executors_' = (executors_ \cap live_executors) \ {e}
    /\ UNCHANGED <<node_set, hosting, adopted, live_executors, machine, lc_bounds>>

\* The refused calls still purge what has expired.
AttachRefused(e) ==
    /\ node_set /\ e \in live_executors
    /\ e \in executors_ \/ hosting \cap live_executors # {}
    /\ executors_' = executors_ \cap live_executors
    /\ UNCHANGED <<node_set, hosting, adopted, live_executors, machine, lc_bounds>>

\* remove_node throws for a node the executor no longer has: the entry stays.
DetachExecutor(e) ==
    /\ node_set /\ e \in live_executors
    /\ \/ /\ e \in executors_ /\ e \in hosting
          /\ executors_' = executors_ \ {e}
          /\ hosting' = hosting \ {e}
          /\ adopted' = adopted \ {e}
       \/ /\ e \notin executors_
          /\ executors_' = executors_ \cap live_executors
          /\ UNCHANGED <<hosting, adopted>>
    /\ UNCHANGED <<node_set, live_executors, machine, lc_bounds>>

\* close() removes the node wherever it was attached, then lets go of it.  A
\* Python trigger keeps the node it copied; a service call does not.
LifecycleClose ==
    /\ node_set
    /\ node_set' = FALSE
    /\ hosting' = hosting \ (executors_ \cap live_executors)
    /\ adopted' = adopted \ (executors_ \cap live_executors)
    /\ executors_' = {}
    /\ UNCHANGED <<live_executors, machine, lc_bounds>>

\* The user drops an executor, or moves the node through raw_node.
ExecutorGoes(e) ==
    /\ e \in live_executors
    /\ live_executors' = live_executors \ {e}
    /\ hosting' = hosting \ {e}
    /\ adopted' = adopted \ {e}
    /\ UNCHANGED <<node_set, executors_, machine, lc_bounds>>

RawMembership(e) ==
    /\ node_set /\ e \in live_executors /\ lc_bounds.raw < MaxRawMembership
    /\ \/ hosting \cap live_executors = {} /\ hosting' = hosting \cup {e}
       \/ e \in hosting /\ hosting' = hosting \ {e}
    /\ adopted' = adopted \cap hosting'
    /\ lc_bounds' = [lc_bounds EXCEPT !.raw = @ + 1]
    /\ UNCHANGED <<node_set, executors_, live_executors, machine>>

-----------------------------------------------------------------------------
(* Transitions.                                                            *)

\* The node stays until a Python trigger returns.
NodeAlive == node_set \/ trigger = "python"

\* trigger_transition_by_id, or the service: the first step of the machine.
\* Nothing happens for an id that is not valid in this state.
TriggerTransition(k, by) ==
    /\ node_set /\ transition = "none"
    /\ by = "service" => hosting # {}
    /\ lc_state \in StartsOf(k)
    /\ lc_bounds.transitions < MaxTransitions
    /\ lc_bounds' = [lc_bounds EXCEPT !.transitions = @ + 1]
    /\ transition' = k /\ started_in' = lc_state /\ trigger' = by
    /\ lc_state' = "transitioning"
    /\ UNCHANGED <<node_set, membership, failures, outcomes>>

\* dispatch of register_transition_callback: what the callback returns, if
\* that is a CallbackReturn; whatever else it does is contained as an error.
DispatchTransition(outcome) ==
    /\ outcomes' = [outcomes EXCEPT ![outcome] = @ + 1]
    /\ failures' = failures
DispatchContains ==
    /\ outcomes' = [outcomes EXCEPT !["error"] = @ + 1]
    /\ failures' = failures + 1

\* The second step of the machine, on what the callback gave: an error leads
\* to one more callback, on_error.
Concluded(outcome) ==
    IF transition = "on_error"
    THEN IF outcome = "success" THEN "unconfigured" ELSE "finalized"
    ELSE CASE outcome = "error" -> "errorprocessing"
           [] outcome = "success" -> GoalOf(transition)
           [] outcome = "failure" ->
                IF transition = "shutdown" THEN "finalized" ELSE started_in

TransitionCallback ==
    /\ transition # "none" /\ NodeAlive
    /\ \E outcome \in TransitionOutcomes :
        /\ \/ DispatchTransition(outcome)
           \/ outcome = "error" /\ DispatchContains
        /\ lc_state' = Concluded(outcome)
        /\ transition' = IF lc_state' = "errorprocessing" THEN "on_error" ELSE "none"
        /\ trigger' = IF transition' = "none" THEN "none" ELSE trigger
    /\ UNCHANGED <<node_set, membership, started_in, lc_bounds>>

\* NativeTransitionCallback.take_exception.
TakeFailure ==
    /\ failures > 0
    /\ failures' = failures - 1
    /\ outcomes' = [outcomes EXCEPT !["taken"] = @ + 1]
    /\ UNCHANGED <<node_set, membership, lc_state, transition, started_in,
                   trigger, lc_bounds>>

LifecycleNext ==
    \/ \E e \in NodeExecutors :
        \/ AttachExecutor(e) \/ AttachRefused(e) \/ DetachExecutor(e)
        \/ ExecutorGoes(e) \/ RawMembership(e)
    \/ \E k \in Kinds : TriggerTransition(k, "python") \/ TriggerTransition(k, "service")
    \/ TransitionCallback \/ TakeFailure \/ LifecycleClose

LifecycleSpec == LifecycleInit /\ [][LifecycleNext]_lifecycleVars

-----------------------------------------------------------------------------
\* Every live executor that attach_executor gave the node to is in the list,
\* whatever expired, was refused or failed to detach meanwhile: so none of
\* them has the node once it is closed.
AdoptedIsListed == adopted \subseteq executors_
=============================================================================
