------------------------ MODULE NativeActionClient ------------------------
(***************************************************************************)
(* rclcpp_kit.native_action: the C++ adapter around a client of            *)
(* rclcpp_action, its per-goal records, and the facade above it.           *)
(*                                                                         *)
(* "calling" is the Python call in the adapter: it keeps the GIL until it  *)
(* returns, so there is at most one.  "executing" is the callback of the   *)
(* client a native thread is in: the client's callback group is mutually   *)
(* exclusive.  A callback is C++ alone and needs no GIL.                   *)
(*                                                                         *)
(* Two mutexes are held across a step.  request_cancel keeps the adapter's *)
(* own while it calls async_cancel_goal; rclcpp_action keeps the one over  *)
(* its map of goal handles while it calls the feedback callback.  Every    *)
(* other critical section is one action, guarded by the mutex being free.  *)
(***************************************************************************)
EXTENDS Naturals, Sequences, FiniteSetsExt

CONSTANTS
    MaxGoals,          \* bound: goals Python sends, one token for each
    MaxFeedback,       \* bound: feedback messages of all goals
    FeedbackCapacity,  \* State::feedback_capacity
    MaxGoalFailures    \* bound: calls into rclcpp_action that throw

\* A capacity of zero is refused by create_native_action_client.
ASSUME CapacityAssumption == FeedbackCapacity \in Nat \ {0}
ASSUME ActionClientBounds ==
    MaxGoals \in Nat /\ MaxFeedback \in Nat /\ MaxGoalFailures \in Nat

Tokens == 1 .. MaxGoals

VARIABLES
    next_token,    \* next_token_
    response,      \* Record::response, "none" for a token without a record
    result,        \* the result future: "invalid", "waiting" or "ready"
    cancel,        \* the record's cancel: "none", "sent", "ready" or "taken"
    feedback,      \* Record::feedback, messages numbered as the goal sent them
    goals_closed,  \* State::closed; client_ is set as long as it is FALSE
    requested,     \* external: goals whose response rclcpp_action waits for
    goal_handles,  \* external: goals in rclcpp_action's map of handles
    published,     \* external: published[k] feedback messages of goal k came
    executing,     \* the callback a native thread is in, and its goal
    calling,       \* the Python call in progress, and its goals
    counts,        \* the counters of State
    discarded      \* history: feedback that went away with its record

records == <<response, cancel, feedback>>
external == <<requested, goal_handles, published>>
actionClientVars ==
    <<next_token, records, result, goals_closed, external, executing, calling,
      counts, discarded>>

Counters == {"sent", "accepted", "rejected", "results", "received", "taken",
             "dropped", "cancels", "answers", "forgotten", "exceptions"}

Idle == [op |-> "idle", goals |-> {}]
Busy(op, k) == [op |-> op, goals |-> {k}]
Known(k) == response[k] # "none"
Count(c) == counts' = [counts EXCEPT ![c] = @ + 1]

\* Who is inside which mutex, from where the two threads are.
StateMutexFree == calling.op # "cancel"
HandlesMutexFree == executing.op # "feedback"

ActionClientInit ==
    /\ next_token = 1
    /\ response = [k \in Tokens |-> "none"]
    /\ result = [k \in Tokens |-> "invalid"]
    /\ cancel = [k \in Tokens |-> "none"]
    /\ feedback = [k \in Tokens |-> <<>>]
    /\ goals_closed = FALSE
    /\ requested = {} /\ goal_handles = {}
    /\ published = [k \in Tokens |-> 0]
    /\ executing = Idle /\ calling = Idle
    /\ counts = [c \in Counters |-> 0]
    /\ discarded = 0

-----------------------------------------------------------------------------
(* The record of a goal goes away, and its feedback with it.               *)

\* The messages that lie in the queues of some goals.
Queued(goals) == UNION {{k} \X DOMAIN feedback[k] : k \in goals}

Erase(goals) ==
    /\ response' = [k \in Tokens |-> IF k \in goals THEN "none" ELSE response[k]]
    /\ cancel' = [k \in Tokens |-> IF k \in goals THEN "none" ELSE cancel[k]]
    /\ feedback' = [k \in Tokens |-> IF k \in goals THEN <<>> ELSE feedback[k]]
    /\ discarded' = discarded + Cardinality(Queued(goals))

-----------------------------------------------------------------------------
(* Python calls.  send_goal does not hold the mutex between its steps.     *)

\* Register the record: a callback may run before async_send_goal returns.
SendGoal ==
    /\ calling = Idle /\ ~goals_closed /\ next_token \in Tokens
    /\ calling' = Busy("send", next_token)
    /\ next_token' = next_token + 1
    /\ response' = [response EXCEPT ![next_token] = "pending"]
    /\ UNCHANGED <<result, cancel, feedback, goals_closed, external, executing,
                   counts, discarded>>

\* async_send_goal: the request is out, or the call throws.
AsyncSendGoal ==
    \E k \in Tokens :
        /\ calling = Busy("send", k)
        /\ \/ /\ requested' = requested \cup {k}
              /\ calling' = Busy("count", k)
              /\ UNCHANGED counts
           \/ /\ counts.exceptions < MaxGoalFailures
              /\ calling' = Busy("unsend", k)
              /\ Count("exceptions")
              /\ UNCHANGED requested
        /\ UNCHANGED <<next_token, records, result, goals_closed, goal_handles,
                       published, executing, discarded>>

\* goals_sent counts once the call returned; a failure takes the record out.
SendReturns ==
    \E k \in Tokens :
        /\ \/ /\ calling = Busy("count", k)
              /\ Count("sent")
              /\ UNCHANGED <<records, discarded>>
           \/ /\ calling = Busy("unsend", k)
              /\ Erase({k})
              /\ UNCHANGED counts
        /\ calling' = Idle
        /\ UNCHANGED <<next_token, result, goals_closed, external, executing>>

\* take_feedback, and take_feedback_message when its copy succeeds.
TakeFeedback(k) ==
    /\ calling = Idle /\ feedback[k] # <<>>
    /\ feedback' = [feedback EXCEPT ![k] = Tail(@)]
    /\ Count("taken")
    /\ UNCHANGED <<next_token, response, result, cancel, goals_closed, external,
                   executing, calling, discarded>>

ResultReady(k) == response[k] = "accepted" /\ result[k] = "ready"

\* take_result and take_result_response retire the record, then stop the
\* callbacks of its handle without the mutex.
TakeResult(k) ==
    /\ calling = Idle /\ ResultReady(k)
    /\ Erase({k})
    /\ calling' = Busy("stop", k)
    /\ Count("results")
    /\ UNCHANGED <<next_token, result, goals_closed, external, executing>>

\* request_cancel, up to the call it makes with the mutex held.  The bound
\* keeps it from failing for one goal over and over.
RequestCancel(k) ==
    /\ calling = Idle /\ ~goals_closed
    /\ response[k] = "accepted" /\ cancel[k] = "none"
    /\ k \in goal_handles \/ counts.exceptions < MaxGoalFailures
    /\ calling' = Busy("cancel", k)
    /\ UNCHANGED <<next_token, records, result, goals_closed, external,
                   executing, counts, discarded>>

\* Faulty variant: a goal that is no longer in the map is waited for.
AsyncCancelGoalWaits ==
    \E k \in Tokens :
        /\ calling = Busy("cancel", k) /\ HandlesMutexFree
        /\ k \in goal_handles
        /\ cancel' = [cancel EXCEPT ![k] = "sent"]
        /\ Count("cancels")
        /\ calling' = Idle
        /\ UNCHANGED <<next_token, response, result, feedback, goals_closed,
                       external, executing, discarded>>

\* async_cancel_goal needs the mutex over the goal handles.  It throws for a
\* goal that is no longer in the map.
AsyncCancelGoal ==
    \E k \in Tokens :
        /\ calling = Busy("cancel", k) /\ HandlesMutexFree
        /\ \/ /\ k \in goal_handles
              /\ cancel' = [cancel EXCEPT ![k] = "sent"]
              /\ Count("cancels")
           \/ /\ k \notin goal_handles
              /\ Count("exceptions")
              /\ UNCHANGED cancel
        /\ calling' = Idle
        /\ UNCHANGED <<next_token, response, result, feedback, goals_closed,
                       external, executing, discarded>>

TakeCancelResponse(k) ==
    /\ calling = Idle /\ cancel[k] = "ready"
    /\ cancel' = [cancel EXCEPT ![k] = "taken"]
    /\ Count("answers")
    /\ UNCHANGED <<next_token, response, result, feedback, goals_closed,
                   external, executing, calling, discarded>>

\* forget lets go of a goal in any state; only an accepted one has a handle.
Forget(k) ==
    /\ calling = Idle /\ ~goals_closed /\ Known(k)
    /\ Erase({k})
    /\ calling' = IF response[k] = "accepted" THEN Busy("stop", k) ELSE Idle
    /\ Count("forgotten")
    /\ UNCHANGED <<next_token, result, goals_closed, external, executing>>

\* close() of the facade and of the adapter.
ActionClientClose ==
    /\ calling = Idle /\ ~goals_closed
    /\ goals_closed' = TRUE
    /\ Erase({k \in Tokens : Known(k)})
    /\ calling' = LET accepted == {k \in Tokens : response[k] = "accepted"}
                  IN  IF accepted = {} THEN Idle
                      ELSE [op |-> "stop", goals |-> accepted]
    /\ UNCHANGED <<next_token, result, external, executing, counts>>

\* stop_callbacks of one handle after another.
StopCallbacks ==
    \E k \in calling.goals :
        /\ calling.op = "stop" /\ HandlesMutexFree
        /\ goal_handles' = goal_handles \ {k}
        /\ calling' = IF calling.goals = {k} THEN Idle
                      ELSE [calling EXCEPT !.goals = @ \ {k}]
        /\ UNCHANGED <<next_token, records, result, goals_closed, requested,
                       published, executing, counts, discarded>>

-----------------------------------------------------------------------------
(* Callbacks of the client, on the thread that executes it.                *)

\* The answer to the goal request.  An accepted goal enters the map before
\* the goal response callback runs.  A client nobody holds any more is gone,
\* and its responses with it.
GoalResponseArrives(k) ==
    /\ executing = Idle /\ k \in requested
    /\ requested' = requested \ {k}
    /\ \/ executing' = Busy("rejected", k) /\ UNCHANGED goal_handles
       \/ executing' = Busy("accepted", k) /\ goal_handles' = goal_handles \cup {k}
    /\ UNCHANGED <<next_token, records, result, goals_closed, published, calling,
                   counts, discarded>>

\* The callback's first half, without the mutex: ask for the result.  A call
\* that throws leaves the future invalid.
AsyncGetResult ==
    \E k \in Tokens :
        /\ executing = Busy("accepted", k)
        /\ executing' = Busy("retain", k)
        /\ \/ /\ k \in goal_handles
              /\ result' = [result EXCEPT ![k] = "waiting"]
              /\ UNCHANGED counts
           \/ /\ counts.exceptions < MaxGoalFailures
              /\ Count("exceptions")
              /\ UNCHANGED result
        /\ UNCHANGED <<next_token, records, goals_closed, external, calling,
                       discarded>>

\* Faulty variant: a handle that comes too late keeps its callbacks.
RetainGoalKeepsLate ==
    \E k \in Tokens :
        /\ executing \in {Busy("retain", k), Busy("rejected", k)}
        /\ StateMutexFree
        /\ LET answer == IF executing.op = "retain" THEN "accepted" ELSE "rejected"
           IN  IF ~goals_closed /\ Known(k)
               THEN response' = [response EXCEPT ![k] = answer] /\ Count(answer)
               ELSE UNCHANGED <<response, counts>>
        /\ executing' = Idle
        /\ UNCHANGED <<next_token, result, cancel, feedback, goals_closed,
                       external, calling, discarded>>

\* Its second half: fill in the record, unless forget or close was faster.
RetainGoal ==
    \E k \in Tokens :
        /\ executing \in {Busy("retain", k), Busy("rejected", k)}
        /\ StateMutexFree
        /\ LET answer == IF executing.op = "retain" THEN "accepted" ELSE "rejected"
               retain == ~goals_closed /\ Known(k)
           IN  /\ IF retain THEN /\ response' = [response EXCEPT ![k] = answer]
                                 /\ Count(answer)
                  ELSE UNCHANGED <<response, counts>>
               /\ executing' = IF answer = "accepted" /\ ~retain
                               THEN Busy("stop", k) ELSE Idle
        /\ UNCHANGED <<next_token, result, cancel, feedback, goals_closed,
                       external, calling, discarded>>

\* The handle nobody retained.
StopLateGoal ==
    /\ executing.op = "stop"
    /\ goal_handles' = goal_handles \ executing.goals
    /\ executing' = Idle
    /\ UNCHANGED <<next_token, records, result, goals_closed, requested,
                   published, calling, counts, discarded>>

\* rclcpp_action looks a feedback message's goal up and calls the callback.
FeedbackArrives(k) ==
    /\ executing = Idle
    /\ k \in goal_handles
    /\ MapThenSumSet(LAMBDA j : published[j], Tokens) < MaxFeedback
    /\ published' = [published EXCEPT ![k] = @ + 1]
    /\ executing' = Busy("feedback", k)
    /\ UNCHANGED <<next_token, records, result, goals_closed, requested,
                   goal_handles, calling, counts, discarded>>

\* Faulty variant: a full queue turns the newest message away.
PushKeepsOld(queue, message) ==
    IF Len(queue) = FeedbackCapacity THEN queue ELSE Append(queue, message)

\* The bounded queue of the record: the oldest message makes room.
Push(queue, message) ==
    Append(IF Len(queue) = FeedbackCapacity THEN Tail(queue) ELSE queue, message)

FeedbackCallback ==
    \E k \in Tokens :
        /\ executing = Busy("feedback", k) /\ StateMutexFree
        /\ IF goals_closed \/ ~Known(k) THEN UNCHANGED <<feedback, counts>>
           ELSE /\ feedback' = [feedback EXCEPT ![k] = Push(@, published[k])]
                /\ counts' = [counts EXCEPT !.received = @ + 1,
                      !.dropped = @ + IF Len(feedback[k]) = FeedbackCapacity
                                      THEN 1 ELSE 0]
        /\ executing' = Idle
        /\ UNCHANGED <<next_token, response, result, cancel, goals_closed,
                       external, calling, discarded>>

\* The result arrives: its future is ready and its goal leaves the map.
ResultArrives(k) ==
    /\ executing = Idle /\ result[k] = "waiting"
    /\ result' = [result EXCEPT ![k] = "ready"]
    /\ goal_handles' = goal_handles \ {k}
    /\ UNCHANGED <<next_token, records, goals_closed, requested, published,
                   executing, calling, counts, discarded>>

CancelResponseArrives(k) ==
    /\ executing = Idle /\ cancel[k] = "sent"
    /\ cancel' = [cancel EXCEPT ![k] = "ready"]
    /\ UNCHANGED <<next_token, response, result, feedback, goals_closed,
                   external, executing, calling, counts, discarded>>

-----------------------------------------------------------------------------
\* A Python call that began goes on, a callback that began goes on.
CallingStep == AsyncSendGoal \/ SendReturns \/ AsyncCancelGoal \/ StopCallbacks
ExecutingStep == AsyncGetResult \/ RetainGoal \/ StopLateGoal \/ FeedbackCallback

ActionClientNext ==
    \/ SendGoal \/ ActionClientClose
    \/ CallingStep \/ ExecutingStep
    \/ \E k \in Tokens :
        \/ TakeFeedback(k) \/ TakeResult(k) \/ RequestCancel(k)
        \/ TakeCancelResponse(k) \/ Forget(k)
        \/ GoalResponseArrives(k) \/ FeedbackArrives(k)
        \/ ResultArrives(k) \/ CancelResponseArrives(k)

ActionClientSpec == ActionClientInit /\ [][ActionClientNext]_actionClientVars

\* Code that runs goes on running; nothing makes Python call, or a server
\* answer.
ActionClientFairness ==
    /\ WF_actionClientVars(CallingStep)
    /\ WF_actionClientVars(ExecutingStep)

ActionClientFairSpec == ActionClientSpec /\ ActionClientFairness

-----------------------------------------------------------------------------
ActionClientTypeOK ==
    /\ next_token \in 1 .. MaxGoals + 1
    /\ response \in [Tokens -> {"none", "pending", "accepted", "rejected"}]
    /\ result \in [Tokens -> {"invalid", "waiting", "ready"}]
    /\ cancel \in [Tokens -> {"none", "sent", "ready", "taken"}]
    /\ feedback \in [Tokens -> Seq(Nat)]
    /\ goals_closed \in BOOLEAN
    /\ requested \subseteq Tokens /\ goal_handles \subseteq Tokens
    /\ published \in [Tokens -> Nat]
    /\ executing \in [op : {"idle", "accepted", "rejected", "retain", "stop",
                            "feedback"}, goals : SUBSET Tokens]
    /\ calling \in [op : {"idle", "send", "count", "unsend", "cancel", "stop"},
                    goals : SUBSET Tokens]
    /\ counts \in [Counters -> Nat]
    /\ discarded \in Nat

\* A record's queue is the newest feedback of its goal without a hole, in the
\* order it came ...
NewestKept ==
    LET came(k) == published[k] - IF executing = Busy("feedback", k) THEN 1 ELSE 0
    IN  \A k \in Tokens :
            /\ Len(feedback[k]) <= FeedbackCapacity
            /\ \A i \in DOMAIN feedback[k] :
                feedback[k][i] = came(k) - Len(feedback[k]) + i

\* ... and every message the callback counted was taken, dropped, lies in a
\* queue or went with a record: Python takes from the queue the executor
\* evicts from.
FeedbackIsNewest ==
    /\ NewestKept
    /\ counts.received =
          counts.taken + counts.dropped + Cardinality(Queued(Tokens)) + discarded

\* Whatever the order of answers, calls and failures, the counters tell where
\* each goal went: an answer per goal sent at most, and a record for every
\* goal that was not taken, forgotten, thrown out or closed away.  And a goal
\* keeps its place in rclcpp_action's map, and so its callbacks, only while a
\* record has its handle or a thread is on its way to store it or to stop it:
\* a response that comes after forget or close leaves nothing.
GoalsAccountedFor ==
    LET live == Cardinality({k \in Tokens : Known(k)})
    IN  /\ calling.op \notin {"send", "count"} =>
            counts.accepted + counts.rejected + Cardinality(requested) <= counts.sent
        /\ calling.op \notin {"send", "count", "unsend"} /\ ~goals_closed =>
            live + counts.results + counts.forgotten = counts.sent
        /\ counts.answers <= counts.cancels /\ counts.results <= counts.accepted
        /\ \A k \in goal_handles :
            \/ response[k] = "accepted"
            \/ k \in executing.goals
            \/ calling.op = "stop" /\ k \in calling.goals

GoalState ==
    [k \in Tokens |-> IF k >= next_token THEN "unknown"
                      ELSE IF Known(k) THEN "pending" ELSE "settled"]

GoalLedger == INSTANCE Settlement WITH Items <- Tokens, state <- GoalState

\* The records implement the abstract ledger: a goal has a record from
\* send_goal on, it loses it once, and no late response, result or cancel
\* gives it another.
GoalsSettleOnce == GoalLedger!Spec

\* A cancel request returns, whatever the executor does meanwhile: violated,
\* see Crossed.
CancelReturns == [](calling.op = "cancel" => <>(calling.op # "cancel"))

\* The adapter's mutex and rclcpp_action's are taken in both orders: the
\* thread that cancels and the one that delivers feedback wait for each other.
Crossed == calling.op = "cancel" /\ executing.op = "feedback"

\* The only thing that keeps a cancel request from returning is a feedback
\* message on its way in at that moment.
CancelReturnsUnlessCrossed ==
    [](calling.op = "cancel" => <>(calling.op # "cancel" \/ Crossed))
=============================================================================
