--------------------------- MODULE FusedPipeline ---------------------------
(***************************************************************************)
(* The C++ object create_fused_pipeline compiles: a subscription callback, *)
(* an optional queue with its worker thread, process_one and close().      *)
(*                                                                         *)
(* Three threads meet here.  "callback" is the executor thread that runs   *)
(* the subscription's callback (one at a time: the subscription is in the  *)
(* node's default, mutually exclusive, callback group); "worker" is        *)
(* worker_, started by the constructor for the latest and batch policies;  *)
(* the third thread calls close().  Messages are numbered in the order the *)
(* middleware hands them to the callback.                                  *)
(***************************************************************************)
EXTENDS Naturals, Sequences

CONSTANTS
    Policies,       \* the delivery policies explored, a subset of AllPolicies
    BatchSize,      \* batch_size
    QueueCapacity,  \* queue_capacity
    MaxMessages     \* bound: how many messages the middleware hands over

AllPolicies == {"every", "latest", "batch"}

ASSUME PolicyAssumption == Policies \subseteq AllPolicies
ASSUME SizeAssumption ==
    /\ BatchSize \in Nat \ {0}
    /\ QueueCapacity \in Nat \ {0}
    /\ MaxMessages \in Nat

Messages == 1 .. MaxMessages
Threads == {"callback", "worker"}

VARIABLES
    policy,     \* delivery of this pipeline, fixed at construction
    executor,   \* "running", or "joined" once the session joined its threads
    arrived,    \* messages handed to the callback so far
    pc,         \* pc[t]: where each thread stands
    work,       \* work[t]: the messages the thread still has to process_one
    queue,      \* queue_, or latest_ as a queue of at most one message
    stopping,   \* stopping_
    subscribed, \* subscription_ is not null
    publishes,  \* publisher_ is not null
    closer,     \* where the thread inside close() stands
    quiet,      \* the executor had been joined when close() was entered
    stats,      \* the atomic counters
    outcome     \* history: how each message was disposed of

vars == <<policy, executor, arrived, pc, work, queue, stopping, subscribed,
          publishes, closer, quiet, stats, outcome>>

Counters == {"received", "processed", "published", "dropped", "coalesced",
             "exceptions"}
Outcomes == {"none", "published", "dropped", "coalesced", "failed"}
CallbackPC == {"idle", "gate", "admitted", "notify", "transform", "publish"}
WorkerPC == {"absent", "check", "blocking", "waiting", "transform", "publish",
             "exited"}
CloserPC == {"open", "unsubscribe", "notify", "join", "release", "closed"}

TypeOK ==
    /\ policy \in Policies
    /\ executor \in {"running", "joined"}
    /\ arrived \in 0 .. MaxMessages
    /\ pc \in [Threads -> CallbackPC \union WorkerPC]
    /\ pc["callback"] \in CallbackPC
    /\ pc["worker"] \in WorkerPC
    /\ work \in [Threads -> Seq(Messages)]
    /\ queue \in Seq(Messages)
    /\ Len(queue) <= IF policy = "batch" THEN QueueCapacity ELSE 1
    /\ stopping \in BOOLEAN
    /\ subscribed \in BOOLEAN
    /\ publishes \in BOOLEAN
    /\ closer \in CloserPC
    /\ quiet \in BOOLEAN
    /\ stats \in [Counters -> Nat]
    /\ outcome \in [Messages -> Outcomes]

Init ==
    /\ policy \in Policies
    /\ executor = "running"
    /\ arrived = 0
    /\ pc = [t \in Threads |->
               CASE t = "callback" -> "idle"
                 [] t = "worker" -> IF policy = "every" THEN "absent"
                                                        ELSE "check"]
    /\ work = [t \in Threads |-> <<>>]
    /\ queue = <<>>
    /\ stopping = FALSE
    /\ subscribed = TRUE
    /\ publishes = TRUE
    /\ closer = "open"
    /\ quiet = FALSE
    /\ stats = [c \in Counters |-> 0]
    /\ outcome = [m \in Messages |-> "none"]

Count(c) == [stats EXCEPT ![c] = @ + 1]

-----------------------------------------------------------------------------
(* The subscription callback, on the executor thread.                      *)

\* The executor takes a message of the live subscription and calls the lambda.
Deliver ==
    /\ executor = "running"
    /\ subscribed
    /\ pc["callback"] = "idle"
    /\ arrived < MaxMessages
    /\ arrived' = arrived + 1
    /\ pc' = [pc EXCEPT !["callback"] = "gate"]
    /\ UNCHANGED <<policy, executor, work, queue, stopping, subscribed,
                   publishes, closer, quiet, stats, outcome>>

\* "if (stopping_) return; received_++".
Gate ==
    /\ pc["callback"] = "gate"
    /\ IF stopping
       THEN /\ pc' = [pc EXCEPT !["callback"] = "idle"]
            /\ UNCHANGED <<work, stats>>
       ELSE /\ stats' = Count("received")
            /\ pc' = [pc EXCEPT !["callback"] =
                        IF policy = "every" THEN "transform" ELSE "admitted"]
            /\ work' = [work EXCEPT !["callback"] = <<arrived>>]
    /\ UNCHANGED <<policy, executor, arrived, queue, stopping, subscribed,
                   publishes, closer, quiet, outcome>>

\* The worker holds queue_mutex_ from its check until wait() has blocked it.
QueueMutexFree == pc["worker"] # "blocking"

\* Faulty variant: the replaced message is not counted.
StoreLatestUncounted ==
    /\ policy = "latest"
    /\ pc["callback"] = "admitted"
    /\ QueueMutexFree
    /\ queue' = work["callback"]
    /\ work' = [work EXCEPT !["callback"] = <<>>]
    /\ outcome' = IF queue = <<>> THEN outcome
                  ELSE [outcome EXCEPT ![Head(queue)] = "coalesced"]
    /\ pc' = [pc EXCEPT !["callback"] = "notify"]
    /\ UNCHANGED <<policy, executor, arrived, stopping, subscribed, publishes,
                   closer, quiet, stats>>

\* latest: replace the pending message, which counts as coalesced.
StoreLatest ==
    /\ policy = "latest"
    /\ pc["callback"] = "admitted"
    /\ QueueMutexFree
    /\ queue' = work["callback"]
    /\ work' = [work EXCEPT !["callback"] = <<>>]
    /\ IF queue = <<>>
       THEN UNCHANGED <<stats, outcome>>
       ELSE /\ stats' = Count("coalesced")
            /\ outcome' = [outcome EXCEPT ![Head(queue)] = "coalesced"]
    /\ pc' = [pc EXCEPT !["callback"] = "notify"]
    /\ UNCHANGED <<policy, executor, arrived, stopping, subscribed, publishes,
                   closer, quiet>>

\* batch: drop the newest message when the queue is full, else enqueue it.
StoreBatch ==
    /\ policy = "batch"
    /\ pc["callback"] = "admitted"
    /\ QueueMutexFree
    /\ work' = [work EXCEPT !["callback"] = <<>>]
    /\ IF Len(queue) >= QueueCapacity
       THEN /\ stats' = Count("dropped")
            /\ outcome' = [outcome EXCEPT ![Head(work["callback"])] = "dropped"]
            /\ pc' = [pc EXCEPT !["callback"] = "idle"]
            /\ UNCHANGED queue
       ELSE /\ queue' = queue \o work["callback"]
            /\ pc' = [pc EXCEPT !["callback"] = "notify"]
            /\ UNCHANGED <<stats, outcome>>
    /\ UNCHANGED <<policy, executor, arrived, stopping, subscribed, publishes,
                   closer, quiet>>

\* A thread that is waiting is woken and goes back to testing the predicate.
Woken == IF pc["worker"] = "waiting" THEN "check" ELSE pc["worker"]

\* Faulty variant: the callback stores without notifying.
NotifyNobody ==
    /\ pc["callback"] = "notify"
    /\ pc' = [pc EXCEPT !["callback"] = "idle"]
    /\ UNCHANGED <<policy, executor, arrived, work, queue, stopping,
                   subscribed, publishes, closer, quiet, stats, outcome>>

\* queue_cv_.notify_one(), after the lock is released.
NotifyOne ==
    /\ pc["callback"] = "notify"
    /\ pc' = [pc EXCEPT !["callback"] = "idle", !["worker"] = Woken]
    /\ UNCHANGED <<policy, executor, arrived, work, queue, stopping,
                   subscribed, publishes, closer, quiet, stats, outcome>>

-----------------------------------------------------------------------------
(* process_one, on the callback thread (every) or on the worker.           *)

\* The thread is done with the first message of its work.
NextItem(t) ==
    /\ work' = [work EXCEPT ![t] = Tail(@)]
    /\ pc' = [pc EXCEPT ![t] =
                IF Len(work[t]) > 1 THEN "transform"
                ELSE IF t = "callback" THEN "idle" ELSE "check"]

\* transform() throws: caught, counted, nothing else happens to the message.
TransformThrows(t) ==
    /\ pc[t] = "transform"
    /\ stats' = Count("exceptions")
    /\ outcome' = [outcome EXCEPT ![Head(work[t])] = "failed"]
    /\ NextItem(t)
    /\ UNCHANGED <<policy, executor, arrived, queue, stopping, subscribed,
                   publishes, closer, quiet>>

\* transform() returns with publish set: processed_++, then publish().
TransformPublishes(t) ==
    /\ pc[t] = "transform"
    /\ stats' = Count("processed")
    /\ pc' = [pc EXCEPT ![t] = "publish"]
    /\ UNCHANGED <<policy, executor, arrived, work, queue, stopping,
                   subscribed, publishes, closer, quiet, outcome>>

\* transform() returns with publish cleared: processed_++, dropped_++.
TransformSuppresses(t) ==
    /\ pc[t] = "transform"
    /\ stats' = [stats EXCEPT !["processed"] = @ + 1, !["dropped"] = @ + 1]
    /\ outcome' = [outcome EXCEPT ![Head(work[t])] = "dropped"]
    /\ NextItem(t)
    /\ UNCHANGED <<policy, executor, arrived, queue, stopping, subscribed,
                   publishes, closer, quiet>>

\* publisher_->publish() returns or throws.  A null publisher_ has no outcome
\* to model: the property ClosedIsDrained says when that cannot happen.
Publish(t) ==
    /\ pc[t] = "publish"
    /\ publishes
    /\ \/ /\ stats' = Count("published")
          /\ outcome' = [outcome EXCEPT ![Head(work[t])] = "published"]
       \/ /\ stats' = Count("exceptions")
          /\ outcome' = [outcome EXCEPT ![Head(work[t])] = "failed"]
    /\ NextItem(t)
    /\ UNCHANGED <<policy, executor, arrived, queue, stopping, subscribed,
                   publishes, closer, quiet>>

-----------------------------------------------------------------------------
(* latest_worker and batch_worker.                                         *)

\* queue_cv_.wait's predicate.
Ready == stopping \/ queue # <<>>

\* The predicate is false: the worker is about to block, with the mutex held.
CheckBlocks ==
    /\ pc["worker"] = "check"
    /\ ~Ready
    /\ pc' = [pc EXCEPT !["worker"] = "blocking"]
    /\ UNCHANGED <<policy, executor, arrived, work, queue, stopping,
                   subscribed, publishes, closer, quiet, stats, outcome>>

\* wait() releases the mutex and blocks, in one step for the notifiers.
Block ==
    /\ pc["worker"] = "blocking"
    /\ pc' = [pc EXCEPT !["worker"] = "waiting"]
    /\ UNCHANGED <<policy, executor, arrived, work, queue, stopping,
                   subscribed, publishes, closer, quiet, stats, outcome>>

\* A condition variable may wake its waiter without a notification.
SpuriousWake ==
    /\ pc["worker"] = "waiting"
    /\ pc' = [pc EXCEPT !["worker"] = "check"]
    /\ UNCHANGED <<policy, executor, arrived, work, queue, stopping,
                   subscribed, publishes, closer, quiet, stats, outcome>>

TakeSize == IF Len(queue) < BatchSize THEN Len(queue) ELSE BatchSize

\* Faulty variant: the messages are copied out of the queue, not moved.
TakeCopies ==
    /\ pc["worker"] = "check"
    /\ queue # <<>>
    /\ work' = [work EXCEPT !["worker"] = SubSeq(queue, 1, TakeSize)]
    /\ pc' = [pc EXCEPT !["worker"] = "transform"]
    /\ UNCHANGED <<policy, executor, arrived, stopping, subscribed, publishes,
                   closer, quiet, stats, outcome, queue>>

\* Faulty variant: the queue is cleared after a batch was taken.
TakeClears ==
    /\ pc["worker"] = "check"
    /\ queue # <<>>
    /\ work' = [work EXCEPT !["worker"] = SubSeq(queue, 1, TakeSize)]
    /\ queue' = <<>>
    /\ pc' = [pc EXCEPT !["worker"] = "transform"]
    /\ UNCHANGED <<policy, executor, arrived, stopping, subscribed, publishes,
                   closer, quiet, stats, outcome>>

\* Move latest_, or up to batch_size_ messages of queue_, out of the queue.
Take ==
    /\ pc["worker"] = "check"
    /\ queue # <<>>
    /\ work' = [work EXCEPT !["worker"] = SubSeq(queue, 1, TakeSize)]
    /\ queue' = SubSeq(queue, TakeSize + 1, Len(queue))
    /\ pc' = [pc EXCEPT !["worker"] = "transform"]
    /\ UNCHANGED <<policy, executor, arrived, stopping, subscribed, publishes,
                   closer, quiet, stats, outcome>>

\* Faulty variant: the worker leaves without draining the queue.
WorkerExitsEarly ==
    /\ pc["worker"] = "check"
    /\ stopping
    /\ pc' = [pc EXCEPT !["worker"] = "exited"]
    /\ UNCHANGED <<policy, executor, arrived, work, queue, stopping,
                   subscribed, publishes, closer, quiet, stats, outcome>>

\* Stopping and nothing left: the thread function returns.
WorkerExit ==
    /\ pc["worker"] = "check"
    /\ stopping
    /\ queue = <<>>
    /\ pc' = [pc EXCEPT !["worker"] = "exited"]
    /\ UNCHANGED <<policy, executor, arrived, work, queue, stopping,
                   subscribed, publishes, closer, quiet, stats, outcome>>

-----------------------------------------------------------------------------
(* close(), called by the user or by the closing session.                  *)

\* NativeSession.close has joined the executor threads: no callback any more.
JoinExecutor ==
    /\ executor = "running"
    /\ pc["callback"] = "idle"
    /\ executor' = "joined"
    /\ UNCHANGED <<policy, arrived, pc, work, queue, stopping, subscribed,
                   publishes, closer, quiet, stats, outcome>>

\* stopping_.exchange(true); a second close returns at once and is no step.
CloseBegin ==
    /\ closer = "open"
    /\ stopping' = TRUE
    /\ quiet' = (executor = "joined")
    /\ closer' = "unsubscribe"
    /\ UNCHANGED <<policy, executor, arrived, pc, work, queue, subscribed,
                   publishes, stats, outcome>>

\* subscription_.reset(): a callback that already started still finishes.
CloseUnsubscribe ==
    /\ closer = "unsubscribe"
    /\ subscribed' = FALSE
    /\ closer' = "notify"
    /\ UNCHANGED <<policy, executor, arrived, pc, work, queue, stopping,
                   publishes, quiet, stats, outcome>>

\* Faulty variant: close() does not notify.
CloseNotifiesNobody ==
    /\ closer = "notify"
    /\ closer' = "join"
    /\ UNCHANGED <<pc, policy, executor, arrived, work, queue, stopping,
                   subscribed, publishes, quiet, stats, outcome>>

\* queue_cv_.notify_all(), without queue_mutex_.
CloseNotify ==
    /\ closer = "notify"
    /\ pc' = [pc EXCEPT !["worker"] = Woken]
    /\ closer' = "join"
    /\ UNCHANGED <<policy, executor, arrived, work, queue, stopping,
                   subscribed, publishes, quiet, stats, outcome>>

\* worker_.join() when there is a worker.
CloseJoin ==
    /\ closer = "join"
    /\ pc["worker"] \in {"absent", "exited"}
    /\ closer' = "release"
    /\ UNCHANGED <<policy, executor, arrived, pc, work, queue, stopping,
                   subscribed, publishes, quiet, stats, outcome>>

\* publisher_.reset(); close returns.
CloseRelease ==
    /\ closer = "release"
    /\ publishes' = FALSE
    /\ closer' = "closed"
    /\ UNCHANGED <<policy, executor, arrived, pc, work, queue, stopping,
                   subscribed, quiet, stats, outcome>>

-----------------------------------------------------------------------------
ProcessOne(t) ==
    TransformThrows(t) \/ TransformPublishes(t) \/ TransformSuppresses(t)
      \/ Publish(t)

Callback == Gate \/ StoreLatest \/ StoreBatch \/ NotifyOne
WorkerLoop == CheckBlocks \/ Block \/ Take \/ WorkerExit
CloseStep == CloseUnsubscribe \/ CloseNotify \/ CloseJoin \/ CloseRelease

Next ==
    \/ Deliver
    \/ Callback
    \/ \E t \in Threads : ProcessOne(t)
    \/ WorkerLoop
    \/ SpuriousWake
    \/ JoinExecutor
    \/ CloseBegin
    \/ CloseStep

Spec == Init /\ [][Next]_vars

\* Every started thread keeps running (the operating system schedules it);
\* a callback blocked on queue_mutex_ gets it in the end although spurious
\* wake-ups may take it again and again, hence strong fairness.  Nothing makes
\* a message arrive, the session close, or a spurious wake-up happen.
Fairness ==
    /\ WF_vars(Gate) /\ WF_vars(NotifyOne)
    /\ SF_vars(StoreLatest \/ StoreBatch)
    /\ \A t \in Threads : WF_vars(ProcessOne(t))
    /\ WF_vars(WorkerLoop)
    /\ WF_vars(CloseStep)

FairSpec == Spec /\ Fairness

-----------------------------------------------------------------------------
(* Properties.                                                             *)

Held == Len(queue) + Len(work["callback"]) + Len(work["worker"])

\* Every message the pipeline counted as received is counted once more as
\* published, dropped, coalesced or failed, or is still inside it: the queue,
\* the callback or the worker.  A message is never counted twice or lost
\* between the callback's lock, the worker's and process_one's counters.
Accounted ==
    stats["received"] = stats["published"] + stats["dropped"]
                        + stats["coalesced"] + stats["exceptions"] + Held

Increasing(s) == \A i, j \in 1 .. Len(s) : i < j => s[i] < s[j]

\* The messages inside are in arrival order from the worker through the queue
\* to the callback, so process_one sees them in the order they arrived, a
\* coalesced message is always older than the one that replaced it, and
\* nothing is taken twice.
ArrivalOrder ==
    /\ Increasing(work["worker"] \o queue \o work["callback"])
    /\ \A m \in Messages :
         m > arrived => outcome[m] = "none"

\* When close() runs after the executor threads were joined, the order
\* NativeSession.close follows, then once it returns every received message
\* has been disposed of (the worker drained the queue before it exited) and
\* no thread can reach publish() with publisher_ already null.
ClosedIsDrained ==
    closer \in {"release", "closed"} /\ quiet =>
        Held = 0 /\ pc["callback"] = "idle"

\* After such a close the object is inert: no counter and no message moves.
InertAfterClose ==
    [][closer = "closed" /\ quiet => UNCHANGED <<stats, queue, work, pc>>]_vars

\* The messages inside the pipeline, wherever they are.
Inside ==
    {queue[i] : i \in 1 .. Len(queue)}
      \union UNION {{work[t][i] : i \in 1 .. Len(work[t])} : t \in Threads}

Status == [m \in Messages |->
             CASE outcome[m] # "none" -> "settled"
               [] outcome[m] = "none" /\ m \in Inside -> "pending"
               [] OTHER -> "unknown"]

Ledger == INSTANCE Settlement WITH Items <- Messages, state <- Status

\* The pipeline implements the abstract ledger: a message is admitted once,
\* stays inside until it is disposed of, and is disposed of exactly once.
SettlesOnce == Ledger!Spec

\* A message inside is eventually disposed of, unless the pipeline was closed
\* under a running executor and its worker had already gone: the callback's
\* notify after its unlock never loses a wake-up.
PendingIsSettled ==
    \A m \in Messages :
        m \in Inside ~>
            \/ outcome[m] # "none"
            \/ closer # "open" /\ ~quiet

\* close() returns if the worker was not between its predicate and its wait
\* when stopping_ was set.  (CloseReturns, without that condition, is what
\* the code does not provide.)
CloseReturnsUnlessMissed ==
    closer = "unsubscribe" /\ pc["worker"] # "blocking" ~> closer = "closed"

\* close() returns: "Stop native threads, release tracked objects, and shut
\* down context" (rclcpp_kit/native.py, NativeSession.close).
CloseReturns == closer = "unsubscribe" ~> closer = "closed"
=============================================================================
