------------------------- MODULE NativeActionServer -------------------------
(***************************************************************************)
(* rclcpp_kit.native_action_server: the C++ adapter around an              *)
(* rclcpp_action::Server, its two decision callbacks, the per-goal records *)
(* and the deferred close of the Python facade.                            *)
(*                                                                         *)
(* "spin" is the thread that executes the server's services (one request   *)
(* at a time: its callback group is mutually exclusive).  It is the thread *)
(* that created the server, spinning with or without the GIL, or a native  *)
(* executor thread.  "call" is a Python call into the adapter, which keeps *)
(* the GIL until it returns: there is at most one.  The C++ parts of the   *)
(* spinning thread interleave with it unless the spin keeps the GIL.       *)
(*                                                                         *)
(* rclcpp_action is external: the state machine of a goal, a handle that   *)
(* cancels its goal when the last owner lets go of it, and the order in    *)
(* which the server calls the three handlers.  A token stands for its      *)
(* goal: handle_accepted draws a new one for every goal.                   *)
(***************************************************************************)
EXTENDS Naturals, Sequences, FiniteSets, SequencesExt

CONSTANTS
    MaxGoals,      \* bound: goals clients send
    Spinners,      \* the ways of spinning explored, a subset of AllSpinners
    MaxCancels,    \* bound: cancel requests
    MaxExceptions  \* bound: calls that fail

\* The creator spins and keeps the GIL (the default of a cppyy call), the
\* creator spins without it (__release_gil__), or a native thread spins.
AllSpinners == {"holding", "released", "native"}

ASSUME SpinnerAssumption == Spinners \subseteq AllSpinners
ASSUME BoundAssumption ==
    MaxGoals \in Nat /\ MaxCancels \in Nat /\ MaxExceptions \in Nat

\* Goals are numbered in the order their requests are handled.
Goals == 1 .. MaxGoals
NoGoal == 0

VARIABLES
    spinner,       \* who spins, fixed
    default,       \* default[k]: no Python callback decides on k
    rcl,           \* rcl[g]: rclcpp_action's state of the goal
    records,       \* goals with a record (and a token by uuid)
    status,        \* status[g]: the record's status ("none" without a record)
    accepted,      \* the deque of goals to take
    closed,        \* State::closed
    serving,       \* the rclcpp_action server exists
    callbacks,     \* the decision callbacks are set
    swapped,       \* records the C++ close() took out and has not cleared
    spin,          \* the request being handled, and where
    call,          \* the Python call in progress, and where
    depth,         \* _DispatchState.depth
    close_requested, \* _DispatchState.close_requested
    closing,       \* the facade's close: "open", "decided" or "closed"
    stats,         \* the atomic counters
    taken,         \* history: goals in the order they were taken
    overtaken      \* history: goals with a call and a cancel at the same time

facade == <<depth, close_requested, closing>>
native == <<rcl, records, status, accepted, closed, serving, callbacks,
            swapped>>
history == <<taken, overtaken>>
vars == <<spinner, default, native, spin, call, facade, stats, history>>

Counters == {"goals_requested", "goals_accepted", "goals_rejected",
             "cancel_requests", "cancels_accepted", "cancels_rejected",
             "forgotten", "exceptions", "succeeded", "aborted", "canceled"}

Active == {"accepted", "executing", "canceling"}
Terminal == {"succeeded", "aborted", "canceled"}
RclStates == {"none", "rejected"} \union Active \union Terminal

\* The calls that go through mutate(), and the status each one records.
Recorded == [execute |-> "executing", succeed |-> "succeeded",
             abort |-> "aborted", canceled |-> "canceled"]
Operations == DOMAIN Recorded

GoalStages == {"goal_call", "goal_body", "accept", "accepted"}
CancelStages == {"cancel_call", "cancel_body", "cancel_write", "cancel"}
Bodies == {"goal_body", "cancel_body"}

Idle == [at |-> "idle", goal |-> NoGoal]
NoCall == [op |-> "none", at |-> "none", goal |-> NoGoal]
Closing == [op |-> "close", at |-> "clear", goal |-> NoGoal]

TypeOK ==
    /\ spinner \in Spinners
    /\ default \in [{"goal", "cancel"} -> BOOLEAN]
    /\ rcl \in [Goals -> RclStates]
    /\ records \subseteq Goals /\ swapped \subseteq Goals
    /\ status \in [Goals -> {"none"} \union Active \union Terminal]
    /\ accepted \in Seq(Goals)
    /\ closed \in BOOLEAN /\ serving \in BOOLEAN /\ callbacks \in BOOLEAN
    /\ spin = Idle \/ (spin.at \in GoalStages \union CancelStages
                       /\ spin.goal \in Goals)
    /\ call \in {NoCall, Closing}
         \/ (call.op \in Operations /\ call.goal \in records)
    /\ depth = IF spin.at \in Bodies THEN 1 ELSE 0
    /\ close_requested \in BOOLEAN
    /\ closing \in {"open", "decided", "closed"}
    /\ stats \in [Counters -> Nat]
    /\ taken \in Seq(Goals)
    /\ overtaken \subseteq Goals

Init ==
    /\ spinner \in Spinners
    /\ default \in [{"goal", "cancel"} -> BOOLEAN]
    /\ rcl = [g \in Goals |-> "none"]
    /\ records = {}
    /\ status = [g \in Goals |-> "none"]
    /\ accepted = <<>>
    /\ closed = FALSE
    /\ serving = TRUE
    /\ callbacks = TRUE
    /\ swapped = {}
    /\ spin = Idle
    /\ call = NoCall
    /\ depth = 0
    /\ close_requested = FALSE
    /\ closing = "open"
    /\ stats = [c \in Counters |-> 0]
    /\ taken = <<>>
    /\ overtaken = {}

\* The counters C go up by one.
Count(C) ==
    stats' = [c \in Counters |-> IF c \in C THEN stats[c] + 1 ELSE stats[c]]

\* The goal's handle loses an owner: the last one cancels a goal that is
\* still active (the destructor of rclcpp_action's goal handle).
Abandon(S, states) ==
    [g \in Goals |-> IF g \in S /\ states[g] \in Active
                     THEN "canceled" ELSE states[g]]

\* forget() erases the token from the queue: handle_accepted queued it once.
Without(queue, g) ==
    IF \E i \in DOMAIN queue : queue[i] = g
    THEN RemoveAt(queue, CHOOSE i \in DOMAIN queue : queue[i] = g) ELSE queue

CallHolds(g) == call.goal = g \/ g \in swapped
SpinHolds(g) == spin.goal = g /\ spin.at \in {"accepted"} \union CancelStages

\* A spin that keeps the GIL leaves it to Python only in a callback body.
SpinnerRuns == spinner = "holding" => call = NoCall
PythonRuns ==
    /\ call = NoCall
    /\ spinner = "holding" => spin.at \in {"idle"} \union Bodies

-----------------------------------------------------------------------------
(* handle_goal and handle_accepted, on the spinning thread.                *)

\* A goal request arrives; a default policy accepts without a callback.
RequestGoal(g) ==
    /\ serving /\ SpinnerRuns
    /\ spin = Idle
    /\ rcl[g] = "none" /\ \A h \in 1 .. g - 1 : rcl[h] # "none"
    /\ Count({"goals_requested"})
    /\ spin' = [at |-> IF default["goal"] THEN "accept" ELSE "goal_call",
                goal |-> g]
    /\ UNCHANGED <<spinner, default, native, call, facade, history>>

RejectGoal(C) ==
    /\ rcl' = [rcl EXCEPT ![spin.goal] = "rejected"]
    /\ Count(C \union {"goals_rejected"})
    /\ spin' = Idle

\* state->goal_callback was cleared by close(): the call throws.
GoalCallbackGone ==
    /\ spin.at = "goal_call" /\ SpinnerRuns
    /\ ~callbacks
    /\ RejectGoal({"exceptions"})
    /\ UNCHANGED <<spinner, default, records, status, accepted, closed,
                   serving, callbacks, swapped, call, facade, history>>

\* dispatch_goal enters, with the GIL.
EnterGoalCallback ==
    /\ spin.at = "goal_call" /\ call = NoCall
    /\ callbacks
    /\ depth' = depth + 1
    /\ spin' = [spin EXCEPT !.at = "goal_body"]
    /\ UNCHANGED <<spinner, default, native, call, close_requested, closing,
                   stats, history>>

\* A decision is refused as an error on any thread but the creator's.
Decisions == IF spinner = "native" THEN {"error"}
                                   ELSE {"accept", "reject", "error"}

\* Faulty variant: a callback that raises does not leave.
LeaveGoalStaysInside(decision) ==
    /\ spin.at = "goal_body" /\ call = NoCall
    /\ depth' = IF decision = "error" THEN depth ELSE depth - 1
    /\ IF decision = "accept"
       THEN /\ spin' = [spin EXCEPT !.at = "accept"]
            /\ UNCHANGED <<rcl, stats>>
       ELSE RejectGoal(IF decision = "error" THEN {"exceptions"} ELSE {})
    /\ UNCHANGED <<spinner, default, records, status, accepted, closed,
                   serving, callbacks, swapped, call, close_requested, closing,
                   history>>

\* dispatch_goal leaves and handle_goal reads its answer.
LeaveGoalCallback(decision) ==
    /\ spin.at = "goal_body" /\ call = NoCall
    /\ depth' = depth - 1
    /\ IF decision = "accept"
       THEN /\ spin' = [spin EXCEPT !.at = "accept"]
            /\ UNCHANGED <<rcl, stats>>
       ELSE RejectGoal(IF decision = "error" THEN {"exceptions"} ELSE {})
    /\ UNCHANGED <<spinner, default, records, status, accepted, closed,
                   serving, callbacks, swapped, call, close_requested, closing,
                   history>>

\* rclcpp_action answers the client, creates the goal and its handle.
AcceptGoal ==
    /\ spin.at = "accept" /\ SpinnerRuns
    /\ rcl' = [rcl EXCEPT ![spin.goal] = "accepted"]
    /\ spin' = [spin EXCEPT !.at = "accepted"]
    /\ UNCHANGED <<spinner, default, records, status, accepted, closed,
                   serving, callbacks, swapped, call, facade, stats, history>>

\* Faulty variant: a goal accepted during close() is recorded.
HandleAcceptedUnchecked ==
    /\ spin.at = "accepted" /\ SpinnerRuns
    /\ IF FALSE
       THEN /\ rcl' = Abandon({spin.goal}, rcl)
            /\ UNCHANGED <<records, status, accepted, stats>>
       ELSE /\ records' = records \union {spin.goal}
            /\ status' = [status EXCEPT ![spin.goal] = "accepted"]
            /\ accepted' = Append(accepted, spin.goal)
            /\ Count({"goals_accepted"})
            /\ UNCHANGED rcl
    /\ spin' = Idle
    /\ UNCHANGED <<spinner, default, closed, serving, callbacks, swapped, call,
                   facade, history>>

\* handle_accepted stores the record; after close() it lets go of the handle.
HandleAccepted ==
    /\ spin.at = "accepted" /\ SpinnerRuns
    /\ IF closed
       THEN /\ rcl' = Abandon({spin.goal}, rcl)
            /\ UNCHANGED <<records, status, accepted, stats>>
       ELSE /\ records' = records \union {spin.goal}
            /\ status' = [status EXCEPT ![spin.goal] = "accepted"]
            /\ accepted' = Append(accepted, spin.goal)
            /\ Count({"goals_accepted"})
            /\ UNCHANGED rcl
    /\ spin' = Idle
    /\ UNCHANGED <<spinner, default, closed, serving, callbacks, swapped, call,
                   facade, history>>

-----------------------------------------------------------------------------
(* handle_cancel, on the spinning thread.                                  *)

\* The handler lets go of the handle it was called with.
EndCancel(states) ==
    /\ rcl' = IF spin.goal \in records \/ CallHolds(spin.goal)
              THEN states ELSE Abandon({spin.goal}, states)
    /\ spin' = Idle

\* A cancel request for a goal that can be canceled: the token is looked up
\* under the lock, and the default policy or an unknown token rejects.
RequestCancel(g) ==
    /\ serving /\ SpinnerRuns
    /\ spin = Idle
    /\ rcl[g] \in {"accepted", "executing"}
    /\ stats["cancel_requests"] < MaxCancels
    /\ IF g \in records /\ ~default["cancel"]
       THEN /\ Count({"cancel_requests"})
            /\ spin' = [at |-> "cancel_call", goal |-> g]
            /\ overtaken' = IF CallHolds(g) THEN overtaken \union {g}
                                            ELSE overtaken
       ELSE /\ Count({"cancel_requests", "cancels_rejected"})
            /\ UNCHANGED <<spin, overtaken>>
    /\ UNCHANGED <<spinner, default, native, call, facade, taken>>

CancelCallbackGone ==
    /\ spin.at = "cancel_call" /\ SpinnerRuns
    /\ ~callbacks
    /\ EndCancel(rcl)
    /\ Count({"exceptions", "cancels_rejected"})
    /\ UNCHANGED <<spinner, default, records, status, accepted, closed,
                   serving, callbacks, swapped, call, facade, history>>

\* dispatch_cancel enters, with the GIL and without the lock.
EnterCancelCallback ==
    /\ spin.at = "cancel_call" /\ call = NoCall
    /\ callbacks
    /\ depth' = depth + 1
    /\ spin' = [spin EXCEPT !.at = "cancel_body"]
    /\ UNCHANGED <<spinner, default, native, call, close_requested, closing,
                   stats, history>>

LeaveCancelCallback(decision) ==
    /\ spin.at = "cancel_body" /\ call = NoCall
    /\ depth' = depth - 1
    /\ IF decision = "accept"
       THEN /\ spin' = [spin EXCEPT !.at = "cancel_write"]
            /\ UNCHANGED <<rcl, stats>>
       ELSE /\ EndCancel(rcl)
            /\ Count({"cancels_rejected"} \union
                     (IF decision = "error" THEN {"exceptions"} ELSE {}))
    /\ UNCHANGED <<spinner, default, records, status, accepted, closed,
                   serving, callbacks, swapped, call, close_requested, closing,
                   history>>

\* The accepted cancel is written to the record, whatever it says by now.
WriteCanceling ==
    /\ spin.at = "cancel_write" /\ SpinnerRuns
    /\ status' = IF spin.goal \in records
                 THEN [status EXCEPT ![spin.goal] = "canceling"] ELSE status
    /\ Count({"cancels_accepted"})
    /\ spin' = [spin EXCEPT !.at = "cancel"]
    /\ UNCHANGED <<spinner, default, rcl, records, accepted, closed, serving,
                   callbacks, swapped, call, facade, history>>

\* rclcpp_action moves the goal to canceling, or refuses if it cannot.
CancelGoal ==
    /\ spin.at = "cancel" /\ SpinnerRuns
    /\ EndCancel(IF rcl[spin.goal] \in {"accepted", "executing"}
                 THEN [rcl EXCEPT ![spin.goal] = "canceling"] ELSE rcl)
    /\ UNCHANGED <<spinner, default, records, status, accepted, closed,
                   serving, callbacks, swapped, call, facade, stats, history>>

-----------------------------------------------------------------------------
(* Python calls: execute, succeed, abort, canceled, forget, take_accepted. *)

\* mutate() copies the record out under the lock.
BeginCall(op, g) ==
    /\ PythonRuns /\ closing # "closed"
    /\ g \in records
    /\ stats["exceptions"] < MaxExceptions
    /\ call' = [op |-> op, at |-> "operate", goal |-> g]
    /\ overtaken' = IF SpinHolds(g) THEN overtaken \union {g} ELSE overtaken
    /\ UNCHANGED <<spinner, default, native, spin, facade, stats, taken>>

\* rclcpp_action's goal state machine.
Allowed(op, state) ==
    CASE op = "execute" -> state = "accepted"
      [] op = "canceled" -> state = "canceling"
      [] OTHER -> state \in {"executing", "canceling"}

\* Faulty variant: a refused transition is recorded all the same.
OperateIgnoringErrors ==
    /\ call.at = "operate"
    /\ IF Allowed(call.op, rcl[call.goal])
       THEN /\ rcl' = [rcl EXCEPT ![call.goal] = Recorded[call.op]]
            /\ call' = [call EXCEPT !.at = "record"]
            /\ UNCHANGED stats
       ELSE /\ Count({"exceptions"})
            /\ call' = [call EXCEPT !.at = "record"]
            /\ UNCHANGED rcl
    /\ UNCHANGED <<spinner, default, records, status, accepted, closed,
                   serving, callbacks, swapped, spin, facade, history>>

\* The handle's method, without the lock; an invalid transition throws.
Operate ==
    /\ call.at = "operate"
    /\ IF Allowed(call.op, rcl[call.goal])
       THEN /\ rcl' = [rcl EXCEPT ![call.goal] = Recorded[call.op]]
            /\ call' = [call EXCEPT !.at = "record"]
            /\ UNCHANGED stats
       ELSE /\ Count({"exceptions"})
            /\ call' = NoCall
            /\ UNCHANGED rcl
    /\ UNCHANGED <<spinner, default, records, status, accepted, closed,
                   serving, callbacks, swapped, spin, facade, history>>

\* record->status = ..., and the counter of the terminal state.
RecordStatus ==
    /\ call.at = "record"
    /\ status' = [status EXCEPT ![call.goal] = Recorded[call.op]]
    /\ Count({Recorded[call.op]} \intersect Terminal)
    /\ call' = NoCall
    /\ UNCHANGED <<spinner, default, rcl, records, accepted, closed, serving,
                   callbacks, swapped, spin, facade, history>>

\* Faulty variant: the queue keeps the forgotten token.
ForgetKeepsQueue(g) ==
    /\ PythonRuns /\ closing # "closed"
    /\ g \in records
    /\ records' = records \ {g}
    /\ rcl' = IF SpinHolds(g) THEN rcl ELSE Abandon({g}, rcl)
    /\ status' = [status EXCEPT ![g] = "none"]
    /\ Count({"forgotten"})
    /\ UNCHANGED <<spinner, default, accepted, closed, serving, callbacks, swapped, spin,
                   call, facade, history>>

\* forget() drops the record, its queue entry and its hold on the handle.
Forget(g) ==
    /\ PythonRuns /\ closing # "closed"
    /\ g \in records
    /\ records' = records \ {g}
    /\ accepted' = Without(accepted, g)
    /\ rcl' = IF SpinHolds(g) THEN rcl ELSE Abandon({g}, rcl)
    /\ status' = [status EXCEPT ![g] = "none"]
    /\ Count({"forgotten"})
    /\ UNCHANGED <<spinner, default, closed, serving, callbacks, swapped, spin,
                   call, facade, history>>

\* take_accepted() pops the queue even if the goal has no record any more.
TakeAccepted ==
    /\ PythonRuns /\ closing # "closed"
    /\ accepted # <<>>
    /\ accepted' = Tail(accepted)
    /\ taken' = IF Head(accepted) \in records
                THEN Append(taken, Head(accepted)) ELSE taken
    /\ UNCHANGED <<spinner, default, rcl, records, status, closed, serving,
                   callbacks, swapped, spin, call, facade, stats, overtaken>>

-----------------------------------------------------------------------------
(* close() and service_deferred_close() of the Python facade.              *)

\* close() looks at depth under the dispatch lock and lets go of the lock.
Close ==
    /\ PythonRuns /\ closing = "open"
    /\ IF depth > 0
       THEN close_requested' = TRUE /\ UNCHANGED closing
       ELSE closing' = "decided" /\ UNCHANGED close_requested
    /\ UNCHANGED <<spinner, default, native, spin, call, depth, stats,
                   history>>

\* The pump finishes a deferred close once no callback is running.
ServiceDeferredClose ==
    /\ PythonRuns /\ closing = "open"
    /\ close_requested /\ depth = 0
    /\ close_requested' = FALSE
    /\ closing' = "decided"
    /\ UNCHANGED <<spinner, default, native, spin, call, depth, stats,
                   history>>

\* The C++ close(): everything the lock guards is taken out under the lock.
CloseSwaps ==
    /\ PythonRuns /\ closing = "decided" /\ ~closed
    /\ closed' = TRUE
    /\ swapped' = records
    /\ records' = {}
    /\ status' = [g \in Goals |-> "none"]
    /\ accepted' = <<>>
    /\ call' = Closing
    /\ UNCHANGED <<spinner, default, rcl, serving, callbacks, spin, facade,
                   stats, history>>

\* ... then the server and the records go, and the callbacks are cleared.
CloseClears ==
    /\ call = Closing
    /\ serving' = FALSE
    /\ rcl' = Abandon({g \in swapped : ~SpinHolds(g)}, rcl)
    /\ swapped' = {}
    /\ callbacks' = FALSE
    /\ closing' = "closed"
    /\ call' = NoCall
    /\ UNCHANGED <<spinner, default, records, status, accepted, closed, spin,
                   depth, close_requested, stats, history>>

-----------------------------------------------------------------------------
SpinnerStep ==
    \/ GoalCallbackGone \/ EnterGoalCallback \/ AcceptGoal \/ HandleAccepted
    \/ CancelCallbackGone \/ EnterCancelCallback
    \/ WriteCanceling \/ CancelGoal
    \/ \E d \in Decisions : LeaveGoalCallback(d) \/ LeaveCancelCallback(d)

CallStep == Operate \/ RecordStatus \/ CloseSwaps \/ CloseClears

Next ==
    \/ \E g \in Goals : RequestGoal(g) \/ RequestCancel(g) \/ Forget(g)
    \/ \E op \in Operations, g \in Goals : BeginCall(op, g)
    \/ SpinnerStep \/ CallStep
    \/ TakeAccepted \/ Close \/ ServiceDeferredClose

Spec == Init /\ [][Next]_vars

\* A request being handled and a call in progress go on (Python callbacks
\* return), and the pump polls service_deferred_close.  Nobody has to send a
\* request or to make a call.
FairSpec ==
    /\ Spec
    /\ WF_vars(SpinnerStep)
    /\ WF_vars(CallStep)
    /\ WF_vars(ServiceDeferredClose)

-----------------------------------------------------------------------------
(* Properties.                                                             *)

\* Outside the window of a cancel or a call in progress, status() and
\* active_goals() tell rclcpp_action's state of a goal, unless a call and a
\* cancel of that goal overlapped: handle_cancel writes without looking.
StatusIsCurrent ==
    \A g \in records \ overtaken :
        call.goal # g /\ ~(spin.at = "cancel" /\ spin.goal = g)
            => status[g] = rcl[g]

\* Goals are taken once, in the order they were accepted; forget(), which
\* runs between the push and the pop, leaves the queue without stale entries.
TakenInOrder ==
    /\ LET all == taken \o accepted
       IN  \A i, j \in 1 .. Len(all) : i < j => all[i] < all[j]
    /\ \A i \in 1 .. Len(accepted) : accepted[i] \in records

\* Every request is accounted for: decided, or in the handlers.
GoalsAccounted ==
    ~closed =>
        /\ stats["goals_accepted"] = stats["forgotten"] + Cardinality(records)
        /\ stats["goals_requested"] =
              stats["goals_rejected"] + stats["goals_accepted"]
                + (IF spin.at \in GoalStages THEN 1 ELSE 0)
        /\ stats["cancel_requests"] =
              stats["cancels_rejected"] + stats["cancels_accepted"]
                + (IF spin.at \in CancelStages \ {"cancel"} THEN 1 ELSE 0)

\* Between calls each result counter is the number of goals that ended that
\* way by a call; a goal that was let go of ends canceled without a count.
ResultsCounted ==
    call = NoCall =>
        /\ \A r \in {"succeeded", "aborted"} :
              stats[r] = Cardinality({g \in Goals : rcl[g] = r})
        /\ stats["canceled"] <=
              Cardinality({g \in Goals : rcl[g] = "canceled"})
        /\ stats["canceled"] >=
              Cardinality({g \in records : rcl[g] = "canceled"})

\* The three together: every request and every result is in the books once,
\* and every goal leaves the queue once, in its place.
BooksBalance == GoalsAccounted /\ ResultsCounted /\ TakenInOrder

\* After close() no goal stays active at its client: those with a record,
\* those a call or a cancel was working on, and the one that rclcpp_action
\* accepted while close() was running.
ClosedEndsGoals ==
    closing = "closed" /\ spin = Idle =>
        \A g \in Goals : rcl[g] \notin Active

\* A close() that was deferred because a callback ran is carried out.
DeferredCloseHappens == close_requested ~> closing = "closed"

\* "NativeActionServer.close() defers to close_pending instead of tearing the
\* callback down while _dispatch_state.depth is nonzero".
CloseWaitsForCallback == [][callbacks /\ ~callbacks' => depth = 0]_vars
=============================================================================
