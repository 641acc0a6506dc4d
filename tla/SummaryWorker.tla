--------------------------- MODULE SummaryWorker ---------------------------
(***************************************************************************)
(* next_steps/workers: a native thread that summarizes timestamped samples *)
(* taken from a bounded queue, and the Python supervisor that submits,     *)
(* changes the scale, drains, takes results and stops.                     *)
(*                                                                         *)
(* Every operation is one section under Impl::mutex.  The condition        *)
(* variable is awaited by the thread and by drain(); all its notifications *)
(* are made with the mutex held.  A submission is known by its sequence    *)
(* number, a setting by its parameter version.                             *)
(***************************************************************************)
EXTENDS Naturals, Sequences

CONSTANTS
    QueueCapacity,    \* inputs the queue holds
    ResultCapacity,   \* results retained
    MaxSubmissions,   \* bound: valid calls of submit
    MaxUpdates        \* bound: calls of update_scale

ASSUME CapacityAssumption ==
    QueueCapacity \in Nat \ {0} /\ ResultCapacity \in Nat \ {0}
ASSUME WorkBoundAssumption == MaxSubmissions \in Nat /\ MaxUpdates \in Nat

VARIABLES
    running, closed, gated,  \* Snapshot's flags
    inputs,      \* the queue of [sequence, version]
    computing,   \* the input taken and not yet settled, <<>> or <<input>>
    results,     \* the retained results
    version,     \* parameter_version
    attempted, accepted, rejected, completed, failed, cancelled, evicted,
    native,      \* where the worker's thread stands
    stopping,    \* the call of stop that has the lifecycle mutex
    draining,    \* the call of drain
    issued,      \* history: the version in force at each valid submission
    taken        \* history: the results handed to Python, in order

flagVars == <<running, closed, gated>>
countVars == <<attempted, accepted, rejected, completed, failed, cancelled, evicted>>
workerVars == <<running, closed, gated, inputs, computing, results, version,
                attempted, accepted, rejected, completed, failed, cancelled,
                evicted, native, stopping, draining, issued, taken>>

Active == computing # <<>>  \* Snapshot::active

WorkerInit ==
    /\ running = FALSE /\ closed = FALSE /\ gated = FALSE
    /\ inputs = <<>> /\ computing = <<>> /\ results = <<>>
    /\ version = 0
    /\ attempted = 0 /\ accepted = 0 /\ rejected = 0 /\ completed = 0
    /\ failed = 0 /\ cancelled = 0 /\ evicted = 0
    /\ native = "none" /\ stopping = "no" /\ draining = "no"
    /\ issued = <<>> /\ taken = <<>>

\* changed.notify_all() wakes the thread blocked in wait().
NotifyAll == native' = IF native = "blocked" THEN "checking" ELSE native

-----------------------------------------------------------------------------
(* The worker's thread.                                                    *)

WaitIsOver == closed \/ (~gated /\ inputs # <<>>)

\* wait(): the predicate is false and the mutex is given up.
WorkerBlocks ==
    /\ native = "checking" /\ ~WaitIsOver
    /\ native' = "blocked"
    /\ UNCHANGED <<flagVars, inputs, computing, results, version, countVars,
                   stopping, draining, issued, taken>>

WorkerTakes ==
    /\ native = "checking" /\ WaitIsOver /\ inputs # <<>>
    /\ computing' = <<Head(inputs)>>
    /\ inputs' = Tail(inputs)
    /\ native' = "computing"
    /\ UNCHANGED <<flagVars, results, version, countVars, stopping, draining,
                   issued, taken>>

\* Faulty variant: a result that is evicted is not counted.
WorkerStoresUncounted ==
    /\ native = "computing"
    /\ LET stored == results \o computing
       IN  results' = IF Len(stored) > ResultCapacity THEN Tail(stored) ELSE stored
    /\ completed' = completed + 1
    /\ computing' = <<>>
    /\ native' = "checking"
    /\ UNCHANGED <<flagVars, inputs, version, attempted, accepted, rejected,
                   failed, cancelled, evicted, stopping, draining, issued, taken>>

\* The result is stored, and the oldest one evicted from a full ring.
WorkerStores ==
    /\ native = "computing"
    /\ LET stored == results \o computing
           full == Len(stored) > ResultCapacity
       IN  /\ results' = IF full THEN Tail(stored) ELSE stored
           /\ evicted' = IF full THEN evicted + 1 ELSE evicted
    /\ completed' = completed + 1
    /\ computing' = <<>>
    /\ native' = "checking"
    /\ UNCHANGED <<flagVars, inputs, version, attempted, accepted, rejected,
                   failed, cancelled, stopping, draining, issued, taken>>

\* The summary overflows, or the result cannot be stored: what is queued is
\* cancelled and the worker closes.
WorkerFails ==
    /\ native = "computing"
    /\ failed' = failed + 1
    /\ cancelled' = cancelled + Len(inputs)
    /\ inputs' = <<>> /\ computing' = <<>>
    /\ running' = FALSE /\ closed' = TRUE /\ gated' = FALSE
    /\ native' = "exited"
    /\ UNCHANGED <<results, version, attempted, accepted, rejected, completed,
                   evicted, stopping, draining, issued, taken>>

WorkerEnds ==
    /\ native = "checking" /\ closed /\ inputs = <<>>
    /\ running' = FALSE
    /\ native' = "exited"
    /\ UNCHANGED <<closed, gated, inputs, computing, results, version, countVars,
                   stopping, draining, issued, taken>>

-----------------------------------------------------------------------------
(* The supervisor.                                                         *)

\* start(): raises once closed, returns if the thread runs.
StartWorker ==
    /\ stopping # "joining" /\ ~closed /\ ~running
    /\ running' = TRUE
    /\ native' = "checking"
    /\ UNCHANGED <<closed, gated, inputs, computing, results, version, countVars,
                   stopping, draining, issued, taken>>

\* A valid submission consumes a sequence number whether or not it fits.
Submit ==
    /\ running /\ ~closed
    /\ attempted < MaxSubmissions
    /\ attempted' = attempted + 1
    /\ issued' = Append(issued, version)
    /\ IF Len(inputs) >= QueueCapacity
       THEN /\ rejected' = rejected + 1
            /\ UNCHANGED <<accepted, inputs, native>>
       ELSE /\ inputs' = Append(inputs, [sequence |-> attempted, version |-> version])
            /\ accepted' = accepted + 1
            /\ NotifyAll
            /\ UNCHANGED rejected
    /\ UNCHANGED <<flagVars, computing, results, version, completed, failed,
                   cancelled, evicted, stopping, draining, taken>>

UpdateScale ==
    /\ ~closed
    /\ version < MaxUpdates
    /\ version' = version + 1
    /\ UNCHANGED <<flagVars, inputs, computing, results, countVars, native,
                   stopping, draining, issued, taken>>

SetGate ==
    /\ ~closed
    /\ gated' = ~gated
    /\ NotifyAll
    /\ UNCHANGED <<running, closed, inputs, computing, results, version,
                   countVars, stopping, draining, issued, taken>>

TakeResults ==
    /\ results # <<>>
    /\ taken' = taken \o results
    /\ results' = <<>>
    /\ UNCHANGED <<flagVars, inputs, computing, version, countVars, native,
                   stopping, draining, issued>>

\* drain(): the GIL is released while it waits; it ends idle or by timeout.
DrainBegins ==
    /\ draining = "no" /\ (running \/ closed)
    /\ draining' = "waiting"
    /\ NotifyAll
    /\ UNCHANGED <<flagVars, inputs, computing, results, version, countVars,
                   stopping, issued, taken>>

DrainIsIdle ==
    /\ draining = "waiting"
    /\ inputs = <<>> /\ ~Active
    /\ draining' = IF failed > 0 THEN "no" ELSE "idle"
    /\ UNCHANGED <<flagVars, inputs, computing, results, version, countVars,
                   native, stopping, issued, taken>>

DrainTimesOut ==
    /\ draining = "waiting"
    /\ inputs # <<>> \/ Active
    /\ draining' = "no"
    /\ UNCHANGED <<flagVars, inputs, computing, results, version, countVars,
                   native, stopping, issued, taken>>

\* ... and then takes the results, in a section of its own.
DrainTakes ==
    /\ draining = "idle"
    /\ draining' = "no"
    /\ taken' = taken \o results
    /\ results' = <<>>
    /\ UNCHANGED <<flagVars, inputs, computing, version, countVars, native,
                   stopping, issued>>

\* Faulty variant: the thread blocked in wait() is not notified.
StopBeginsQuietly ==
    /\ stopping # "joining"
    /\ closed' = TRUE /\ gated' = FALSE
    /\ stopping' = "joining"
    /\ UNCHANGED <<running, inputs, computing, results, version, countVars,
                   native, draining, issued, taken>>

StopBegins ==
    /\ stopping # "joining"
    /\ closed' = TRUE /\ gated' = FALSE
    /\ NotifyAll
    /\ stopping' = "joining"
    /\ UNCHANGED <<running, inputs, computing, results, version, countVars,
                   draining, issued, taken>>

StopReturns ==
    /\ stopping = "joining"
    /\ native \in {"none", "exited"}
    /\ stopping' = "returned"
    /\ UNCHANGED <<flagVars, inputs, computing, results, version, countVars,
                   native, draining, issued, taken>>

-----------------------------------------------------------------------------
NativeStep == WorkerTakes \/ WorkerStores \/ WorkerFails \/ WorkerEnds

SupervisorStep ==
    \/ StartWorker \/ Submit \/ UpdateScale \/ SetGate \/ TakeResults
    \/ DrainBegins \/ DrainIsIdle \/ DrainTimesOut \/ DrainTakes
    \/ StopBegins

WorkerNext == WorkerBlocks \/ NativeStep \/ SupervisorStep \/ StopReturns

WorkerSpec == WorkerInit /\ [][WorkerNext]_workerVars

-----------------------------------------------------------------------------
(* Properties.                                                             *)

\* The counters of a snapshot agree with one another and with the queues,
\* whatever the drops, evictions, failures and drains in between: the
\* equations of check_accounting, with the delivered results counted.
WorkerBooksBalance ==
    /\ attempted = accepted + rejected
    /\ accepted = completed + failed + cancelled + Len(inputs) + Len(computing)
    /\ completed = Len(taken) + Len(results) + evicted

\* Summaries come out in the order of submission, none twice, and each was
\* computed with the settings in force when it was submitted: "Settings apply
\* to submissions accepted after update_scale returns."
SummariesMatchSubmissions ==
    LET line == taken \o results \o computing \o inputs
    IN  \A i \in DOMAIN line :
          /\ line[i].version = issued[line[i].sequence + 1]
          /\ \A j \in DOMAIN line : i < j => line[i].sequence < line[j].sequence

\* The counters and the order of the worker's summaries, together.
WorkerKeepsItsBooks == WorkerBooksBalance /\ SummariesMatchSubmissions

\* stop() finishes the accepted work, gate or no gate, before it returns:
\* every accepted input is completed, or failed and took the rest with it.
StopDrainsThenJoins ==
    stopping = "joining" ~>
        /\ stopping = "returned"
        /\ (accepted = completed + failed + cancelled)
=============================================================================
