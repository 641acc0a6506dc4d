------------------------------ MODULE Services ------------------------------
(***************************************************************************)
(* The compiled services: rclcpp_kit.native_service (a C++ body),          *)
(* python_service (a Python callback that gets owning copies) and          *)
(* borrowed_set_bool_service (a Python callback that gets views of         *)
(* rclcpp's own request and response, for as long as it runs).             *)
(*                                                                         *)
(* rclcpp calls a lambda on an executor thread; the lambda calls the       *)
(* member callback_, a std::function that takes the GIL inside.  close()   *)
(* comes from another thread with the GIL, or from the callback itself.    *)
(* The service object outlives its calls here: the session closes its      *)
(* resources after the join of its threads (NativeSession).                *)
(***************************************************************************)
EXTENDS Naturals, FiniteSets

CONSTANTS
    ServiceWorkers,   \* executor threads, in a reentrant group
    MaxServiceCalls,  \* bound: requests
    NoHolder          \* nobody holds the GIL

ASSUME ServiceBound == MaxServiceCalls \in Nat
ASSUME ServiceThreads == IsFiniteSet(ServiceWorkers) /\ NoHolder \notin ServiceWorkers

ServiceKinds == {"native", "python", "borrowed"}

VARIABLES
    service_kind,     \* which of the three, fixed
    service_set,      \* service_ is set
    callback_set,     \* callback_ is set
    service_closed,   \* the facade's _closed
    serving,          \* where a worker is in the lambda
    holder,           \* the worker that holds the GIL
    scope,            \* _BorrowedScope of a worker's last call
    retained,         \* workers whose last callback kept one of its views
    service_counts    \* the counters, and the calls begun

serviceVars == <<service_kind, service_set, callback_set, service_closed,
                 serving, holder, scope, retained, service_counts>>

ServiceCounters == {"begun", "crossings", "requests", "exceptions", "rejected",
                    "expired"}

ServicesInit ==
    /\ service_kind \in ServiceKinds
    /\ service_set = TRUE /\ service_closed = FALSE
    /\ callback_set = (service_kind # "native")
    /\ serving = [w \in ServiceWorkers |-> "idle"]
    /\ holder = NoHolder
    /\ scope = [w \in ServiceWorkers |-> "none"]
    /\ retained = {}
    /\ service_counts = [c \in ServiceCounters |-> 0]

Enters(w, place) == serving' = [serving EXCEPT ![w] = place]
Adds(counters) == service_counts' = [c \in ServiceCounters |->
                    service_counts[c] + IF c \in counters THEN 1 ELSE 0]

-----------------------------------------------------------------------------
\* rclcpp calls the lambda, which counts the crossing at once.
ServiceRequest(w) ==
    /\ serving[w] = "idle" /\ service_set
    /\ service_counts.begun < MaxServiceCalls
    /\ Adds(IF service_kind = "native" THEN {"begun"} ELSE {"begun", "crossings"})
    /\ Enters(w, "entered")
    /\ scope' = [scope EXCEPT ![w] = "none"]
    /\ retained' = retained \ {w}
    /\ UNCHANGED <<service_kind, service_set, callback_set, service_closed, holder>>

\* A native body: what it throws is contained.
NativeBody(w) ==
    /\ service_kind = "native" /\ serving[w] = "entered"
    /\ Adds({"requests"}) \/ Adds({"exceptions"})
    /\ Enters(w, "idle")
    /\ UNCHANGED <<service_kind, service_set, callback_set, service_closed,
                   holder, scope, retained>>

\* callback_(&invocation): an empty one throws, and the executor's thread
\* ends with the exception.
CallCallback(w) ==
    /\ service_kind # "native" /\ serving[w] = "entered"
    /\ \/ callback_set /\ Enters(w, "calling") /\ UNCHANGED service_counts
       \/ ~callback_set /\ Enters(w, "threw") /\ Adds({"exceptions"})
    /\ UNCHANGED <<service_kind, service_set, callback_set, service_closed,
                   holder, scope, retained>>

\* Inside the std::function, with the GIL: the dispatch begins.
BeginDispatch(w) ==
    /\ serving[w] = "calling" /\ holder = NoHolder
    /\ holder' = w
    /\ Enters(w, "dispatch")
    /\ scope' = [scope EXCEPT ![w] = IF service_kind = "borrowed" THEN "active"
                                     ELSE @]
    /\ UNCHANGED <<service_kind, service_set, callback_set, service_closed,
                   retained, service_counts>>

\* The interpreter switches threads inside the callback.
SwitchAway(w) ==
    /\ serving[w] = "dispatch" /\ holder = w
    /\ holder' = NoHolder
    /\ UNCHANGED <<service_kind, service_set, callback_set, service_closed,
                   serving, scope, retained, service_counts>>
SwitchBack(w) ==
    /\ serving[w] = "dispatch" /\ holder = NoHolder
    /\ holder' = w
    /\ UNCHANGED <<service_kind, service_set, callback_set, service_closed,
                   serving, scope, retained, service_counts>>

\* The callback puts one of its views where others find it.
RetainView(w) ==
    /\ service_kind = "borrowed" /\ serving[w] = "dispatch" /\ holder = w
    /\ retained' = retained \cup {w}
    /\ UNCHANGED <<service_kind, service_set, callback_set, service_closed,
                   serving, holder, scope, service_counts>>

\* dispatch_callback of a python service: a response of another type raises.
OwningOutcome(w) ==
    /\ service_kind = "python"
    /\ \/ Adds({"requests"}) /\ Enters(w, "idle")
       \/ Adds({"exceptions"}) /\ Enters(w, "threw")
    /\ UNCHANGED scope

\* Faulty variant: the scope expires only when the callback returns.
BorrowedOutcomeKeepsScope(w) ==
    /\ service_kind = "borrowed"
    /\ \/ /\ Adds({"requests"}) /\ Enters(w, "idle")
          /\ scope' = [scope EXCEPT ![w] = "expired"]
       \/ Adds({"exceptions"}) /\ Enters(w, "threw") /\ UNCHANGED scope

\* _make_dispatch of a borrowed one: whatever the callback returns or raises,
\* the scope expires; a return value is refused.
BorrowedOutcome(w) ==
    /\ service_kind = "borrowed"
    /\ \/ Adds({"requests"}) /\ Enters(w, "idle")
       \/ Adds({"exceptions"}) /\ Enters(w, "threw")
       \/ Adds({"exceptions", "rejected"}) /\ Enters(w, "threw")
    /\ scope' = [scope EXCEPT ![w] = "expired"]

ServiceCallbackReturns(w) ==
    /\ serving[w] = "dispatch" /\ holder = w
    /\ OwningOutcome(w) \/ BorrowedOutcome(w)
    /\ holder' = NoHolder
    /\ UNCHANGED <<service_kind, service_set, callback_set, service_closed,
                   retained>>

-----------------------------------------------------------------------------
\* Someone uses a retained view: _BorrowedScope.call hands out the call or
\* counts an expired access.  What follows on the call is left out: a thread
\* that got it in time may still use it too late.
UseView(w) ==
    /\ w \in retained /\ scope[w] = "expired"
    /\ service_counts.expired < MaxServiceCalls
    /\ Adds({"expired"})
    /\ UNCHANGED <<service_kind, service_set, callback_set, service_closed,
                   serving, holder, scope, retained>>

-----------------------------------------------------------------------------
\* close() of the three implementations.
CloseOwning ==
    /\ service_kind \in {"native", "python"}
    /\ service_set' = FALSE
    /\ UNCHANGED callback_set
CloseBorrowed ==
    /\ service_kind = "borrowed"
    /\ service_set' = FALSE /\ callback_set' = FALSE

\* close() of the facade: whoever holds the GIL is in Python.
CloseService ==
    /\ ~service_closed
    /\ service_closed' = TRUE
    /\ CloseOwning \/ CloseBorrowed
    /\ UNCHANGED <<service_kind, serving, holder, scope, retained,
                   service_counts>>

ServicesNext ==
    \/ \E w \in ServiceWorkers :
        \/ ServiceRequest(w) \/ NativeBody(w) \/ CallCallback(w)
        \/ BeginDispatch(w) \/ SwitchAway(w) \/ SwitchBack(w) \/ RetainView(w)
        \/ ServiceCallbackReturns(w) \/ UseView(w)
    \/ CloseService

ServicesSpec == ServicesInit /\ [][ServicesNext]_serviceVars

-----------------------------------------------------------------------------
\* Each call of the lambda ends as one request or one exception, a view is
\* good for as long as its own callback runs and no longer, on every path,
\* and a refused return is one of the exceptions.
ServiceCallsSettle ==
    LET n == service_counts
        under_way == {w \in ServiceWorkers : serving[w] \notin {"idle", "threw"}}
    IN  /\ n.begun = n.requests + n.exceptions + Cardinality(under_way)
        /\ n.crossings \in {0, n.begun} /\ n.rejected <= n.exceptions
        /\ \A w \in ServiceWorkers :
            scope[w] = "active" <=> service_kind = "borrowed" /\ serving[w] = "dispatch"
=============================================================================
