--------------------------- MODULE NativeClient ---------------------------
(***************************************************************************)
(* rclcpp_kit.native_client: the C++ adapter that keeps the futures of a   *)
(* service client's calls by token.                                        *)
(*                                                                         *)
(* Every call of the adapter is one critical section of mutex_, entered by *)
(* a Python thread that keeps the GIL.  The response is handled by rclcpp  *)
(* on a native thread that knows neither: it takes the request out of its  *)
(* pending map and fulfils the promise afterwards, so a cancel can come in *)
(* between.  Through raw_client the user reaches that map too.             *)
(* Allocation failures are left out.                                       *)
(***************************************************************************)
EXTENDS Naturals, FiniteSets

CONSTANTS
    MaxCalls,         \* bound: requests Python sends, one token for each
    MaxCallFailures   \* bound: async_send_request that throws

ASSUME ClientBounds == MaxCalls \in Nat /\ MaxCallFailures \in Nat

Calls == 1 .. MaxCalls
NoCall == 0

VARIABLES
    next_call,      \* next_token_
    future,         \* pending_: a call's future, "none" without a record
    client_open,    \* client_ is set
    rcl_pending,    \* external: the requests rclcpp waits for
    answering,      \* external: the response whose promise is to be fulfilled
    call_counts     \* the counters

clientVars ==
    <<next_call, future, client_open, rcl_pending, answering, call_counts>>

CallCounters == {"sent", "taken", "canceled", "failed", "broken"}

NativeClientInit ==
    /\ next_call = 1
    /\ future = [t \in Calls |-> "none"]
    /\ client_open = TRUE
    /\ rcl_pending = {} /\ answering = NoCall
    /\ call_counts = [c \in CallCounters |-> 0]

PendingCalls == {t \in Calls : future[t] # "none"}
Bump(c) == call_counts' = [call_counts EXCEPT ![c] = @ + 1]

\* send and send_cpp_value.  A request that cannot be sent has no record.
Send ==
    /\ client_open /\ next_call \in Calls
    /\ next_call' = next_call + 1
    /\ \/ /\ future' = [future EXCEPT ![next_call] = "waiting"]
          /\ rcl_pending' = rcl_pending \cup {next_call}
          /\ Bump("sent")
       \/ /\ call_counts.failed < MaxCallFailures
          /\ Bump("failed")
          /\ UNCHANGED <<future, rcl_pending>>
    /\ UNCHANGED <<client_open, answering>>

\* take: the record goes whether get() returns a response or throws.
Take(t) ==
    /\ future[t] \in {"answered", "broken"}
    /\ future' = [future EXCEPT ![t] = "none"]
    /\ Bump(IF future[t] = "answered" THEN "taken" ELSE "broken")
    /\ UNCHANGED <<next_call, client_open, rcl_pending, answering>>

\* Faulty variant: cancel leaves the request with rclcpp.
CancelHereOnly(t) ==
    /\ client_open /\ t \in PendingCalls
    /\ future' = [future EXCEPT ![t] = "none"]
    /\ Bump("canceled")
    /\ UNCHANGED <<next_call, client_open, rcl_pending, answering>>

\* cancel forgets the call here and in rclcpp, which may no longer know it.
Cancel(t) ==
    /\ client_open /\ t \in PendingCalls
    /\ future' = [future EXCEPT ![t] = "none"]
    /\ rcl_pending' = rcl_pending \ {t}
    /\ Bump("canceled")
    /\ UNCHANGED <<next_call, client_open, answering>>

\* close() of the facade and of the adapter cancels what is pending.
NativeClientClose ==
    /\ client_open
    /\ client_open' = FALSE
    /\ future' = [t \in Calls |-> "none"]
    /\ rcl_pending' = rcl_pending \ PendingCalls
    /\ call_counts' =
         [call_counts EXCEPT !.canceled = @ + Cardinality(PendingCalls)]
    /\ UNCHANGED <<next_call, answering>>

\* A response: rclcpp takes the request out of its map ...
ResponseArrives(t) ==
    /\ answering = NoCall /\ t \in rcl_pending
    /\ answering' = t
    /\ rcl_pending' = rcl_pending \ {t}
    /\ UNCHANGED <<next_call, future, client_open, call_counts>>

\* ... and fulfils its promise, whoever still has the future.
FulfilPromise ==
    /\ answering # NoCall
    /\ future' = IF future[answering] = "none" THEN future
                 ELSE [future EXCEPT ![answering] = "answered"]
    /\ answering' = NoCall
    /\ UNCHANGED <<next_call, client_open, rcl_pending, call_counts>>

\* The user prunes a request through raw_client: its promise is broken.
PruneThroughRawClient(t) ==
    /\ client_open /\ t \in rcl_pending
    /\ rcl_pending' = rcl_pending \ {t}
    /\ future' = [future EXCEPT ![t] = "broken"]
    /\ UNCHANGED <<next_call, client_open, answering, call_counts>>

NativeClientNext ==
    \/ Send \/ NativeClientClose \/ FulfilPromise
    \/ \E t \in Calls :
        Take(t) \/ Cancel(t) \/ ResponseArrives(t) \/ PruneThroughRawClient(t)

NativeClientSpec == NativeClientInit /\ [][NativeClientNext]_clientVars

-----------------------------------------------------------------------------
NativeClientTypeOK ==
    /\ next_call \in 1 .. MaxCalls + 1
    /\ future \in [Calls -> {"none", "waiting", "answered", "broken"}]
    /\ client_open \in BOOLEAN
    /\ rcl_pending \subseteq Calls
    /\ answering \in Calls \cup {NoCall}
    /\ call_counts \in [CallCounters -> Nat]

\* rclcpp keeps a request only for a call that still has a record, however
\* the cancel and the late response cross: nothing leaks in its pending map,
\* and a call that still waits is one a response can still complete.
NoLeakedCall ==
    /\ rcl_pending \subseteq {t \in Calls : future[t] = "waiting"}
    /\ \A t \in Calls :
        future[t] = "waiting" => t \in rcl_pending \/ t = answering

\* Every call that was sent is taken once, canceled once, or pending.
CallsAccountedFor ==
    call_counts.sent = call_counts.taken + call_counts.canceled
        + call_counts.broken + Cardinality(PendingCalls)

\* The two together: a call ends once, and nothing of it stays behind.
CallsSettle == NoLeakedCall /\ CallsAccountedFor

CallState ==
    [t \in Calls |-> IF t >= next_call THEN "unknown"
                     ELSE IF future[t] = "none" THEN "settled" ELSE "pending"]

CallLedger == INSTANCE Settlement WITH Items <- Calls, state <- CallState

\* The adapter implements the abstract ledger: a call that was taken, canceled
\* or closed away never comes back, whatever a late response or a prune
\* through raw_client does to its future.
CallsSettleOnce == CallLedger!Spec
=============================================================================
