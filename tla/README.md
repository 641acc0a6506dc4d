# Verification of cppyy_kit

TLA+ models, TLC runs and TLAPS proofs kept beside the source of cppyy_kit and
rclcpp_kit. The library lets Python drive C++ (and ROS 2) code that Cling
compiles at run time. Most of its files convert, generate or forward; the part
that is hard to get right is a layer of small concurrent objects where Python
threads, native executor threads, the interpreter lock (GIL), C++ mutexes and
several processes sharing a cache directory meet. That layer is what the
modules here model.

Paths below are relative to the repository (`src/...`); `rclcpp_kit/` stands
for `src/rclcpp_kit/rclcpp_kit/`.

## 1. Inventory

| Component | Source | State it keeps | Operations | Hard behaviour |
|---|---|---|---|---|
| Fused pipeline | `rclcpp_kit/native_pipeline.py` | a subscription, a publisher, a `latest_` slot or bounded batch queue, a worker thread, `stopping_`, atomic counters | subscription callback, worker loop, `process_one`, `close` | two threads and a closer on one queue; condition variable; throwing user code in mid-batch |
| Native session, executor threads | `rclcpp_kit/native.py` | lists of executors, native threads, nodes, resources; the context | `open`, `start_executor`, `register_resource`, `ExecutorThread.close`, `close` | `cancel` against `spin`, join under the GIL, close from a callback, registration during close |
| Callable lifetime (reaper) | `rclcpp_kit/direct_entities.py` | copies of a pinned `std::function`, the reference count of the callable, the reaper's queue, the facade's fields | create, close, wait-set rebuild, dispatch, `drain` | last owner on a thread without the GIL, destructor under the executor's mutex |
| Compile cache | `src/cppyy_kit/cache.py`, `_filelock.py` | library, header and metadata of an entry; `_LOADED`, `_APPLIED`, `_SESSION_LOCK`; the entry's file lock | `cppdef_cached`, `prebuild`, `clear_cache`, `_build` | several processes and threads, crashes, failing compiler and loader, unlocked readers and clearers |
| Native action server | `rclcpp_kit/native_action_server.py` | a record and token per goal, the accepted queue, decision callbacks, `depth` and `close_requested` of the facade, counters | goal, accepted and cancel handlers, `execute`, terminal calls, `forget`, `take_accepted`, `close`, `service_deferred_close` | handlers release the lock around Python, close during a callback |
| Native action client | `rclcpp_kit/native_action.py` | a record per goal: response, result and cancel futures, bounded feedback; counters | `send_goal`, `take_*`, `request_cancel`, `forget`, `close`; response and feedback callbacks | late responses, drop-oldest queue, a call into rclcpp_action with the mutex held |
| Native service client | `rclcpp_kit/native_client.py` | futures by token, counters | send, take, cancel, close | late response against cancel, a prune through `raw_client` |
| Python callback entities | `rclcpp_kit/python_callback_entities.py` | a `DispatchState` shared with the lambda, `closing`, a reaper | five factories, dispatch, close, drain | close against a dispatch that has begun; last owner without the GIL |
| Native parameters | `rclcpp_kit/native_parameters.py` | three bridges with handle, state and references; counters | changes, reads, callbacks, close, drain | node mutex against GIL, contained errors |
| Lifecycle node | `rclcpp_kit/native_lifecycle.py` | the list of executors, contained failures, rclcpp's state machine | attach, detach, transitions, close | executors that expire or refuse, transitions from a service and from Python |
| Services | `native_service.py`, `python_service.py`, `borrowed_set_bool_service.py` | the service, its callback, the scope of borrowed views, counters | dispatch, close | a view kept after its callback, close during a dispatch |
| Borrowed publishing | `rclcpp_kit/borrowed_publish.py` | a pool of buffers per thread | publish, which nests | eviction while a publish is under way |
| cppyy_kit core | `src/cppyy_kit/__init__.py`, `_cpp.py` | teardown registry, exit hooks; `_REGISTERED`, locks of first calls | `register_teardown`, `shutdown`, `_ensure_runtime`; `_CppFunc._ensure` | order at exit; equal kernels compiled at once |
| PCH building | `src/cppyy_kit/autopch*.py` | manifest, PCH, sidecar and lock files | activate, register, build at exit, prune | detached builder, lock left by a crash |
| Header fetching | `src/cppyy_kit/require.py` | the entry of a request, `.fetch.lock`, stages | `require` | several processes, replacement of a bad entry |
| Summary worker | `src/roscon_uk_2026/next_steps/workers/` | bounded queues, counters, a gate | submit, drain, take, stop | one condition variable for two waiters |
| ros2_control kit | `src/control_kit/control_kit/` | goals and targets of the servo; the Python controller; `g_switch`, `_active` | goals, lifecycle calls, update; switches, teardown | `try_lock` in update; a detached worker and a deadline |
| Wait sets, sleeps | `rclcpp_kit/native_waitset.py`, `native_clock_sleep.py` | guard conditions, wait sets, a clock and a context behind mutexes | trigger, add, wait, sleep, close | a blocking call that keeps the GIL and a mutex |
| Node clocks, jump callbacks, component manager | `rclcpp_kit/native_clock.py`, ... | handles behind one mutex | forwarded to rclcpp | |
| Conversion, tracing, stubs, other domain kits, examples | see PROJECT.json | none that is concurrent | | |

PROJECT.json lists every component with its status, and the hazards at their
lines.

### How the components interact

* `NativeSession` owns the rest. Pipelines, clients and servers are
  *resources*: `register_resource` appends them and `close()` closes them in
  reverse, after it has cancelled and joined the executor threads.
* The executor threads run the subscription callbacks of pipelines, the
  handlers of action servers and the Python callbacks of direct entities. A
  Python callback needs the GIL; a C++ call made through cppyy keeps it.
* `NativeSession.close()` drains the callable reaper twice, around the clearing
  of the executor and node lists.
* Pipelines, clients and servers are themselves compiled by the compile cache,
  and functions decorated with `@cpp` reach it through `_CppFunc._ensure`.
* The exit hooks of `cppyy_kit/__init__.py` run the cleanups before the hook
  that takes Cling down.

### What makes each component correct

* **Pipeline**: every received message is published, dropped, coalesced or
  failed, exactly once and in order; no stored message is forgotten by the
  worker; after a close that follows the executor's join nothing moves.
* **Session**: no native thread runs when the drains and the shutdown happen;
  every resource is closed once, in reverse; `close()` returns.
* **Reaper**: references balance; the callable outlives every possible
  dispatch; counts change under the GIL only; nothing is left after close.
* **Cache**: names are defined once per process; a hit is a loaded, validated
  library; a usable entry is not rebuilt; every call returns.
* **Action server**: the adapter's status is rclcpp_action's; goals are handed
  out once and in order; counters add up; no goal outlives the close; a close
  does not cut off a running callback.
* **Action client, service client**: every goal and call ends in one way and is
  counted once; an answer that comes late leaves nothing behind; the feedback
  that is kept is the newest; a cancel returns.
* **Callbacks, parameters, services**: a callable is released once, and not
  while it can be called; every crossing into Python is a return or an error; an
  error is contained as a refusal; a borrowed view dies with its callback.
* **Lifecycle node**: the node is in no executor once it is closed.
* **Publishing**: publishes under way never share a buffer.
* **Wait sets, sleeps**: what a blocked call uses stays until it returns; a
  trigger wakes the wait.
* **Core**: cleanups run before Cling goes down, and all of them run; Cling is
  given a kernel once.
* **PCH, headers**: a lock file means a builder; a directory that was returned
  stays valid.
* **Worker, controllers, rig**: counters balance and results are in order; no
  joint moves to a target of an earlier activation; what the rig has booked is
  what is active.

## 2. Modules

| Module | Models | Uses |
|---|---|---|
| `Settlement` | abstract ledger: an item is admitted, pending, then settled once | |
| `FusedPipeline`, `MCFusedPipeline` | the pipeline object | implements `Settlement` |
| `NativeSession`, `MCNativeSession` | session, executor threads, GIL | |
| `SessionPipeline` | a pipeline as a resource of a session | `NativeSession`, implements `FusedPipeline` |
| `CallableReaper` | callable lifetime | |
| `NativeWaitSet` | guard conditions, wait sets, sleeps, the GIL | |
| `CompileCache`, `MCCompileCache` | one entry of the cache | |
| `NativeActionServer`, `MCNativeActionServer` | the action server | |
| `NativeActionClient` | the action client | implements `Settlement` |
| `NativeClient` | the service client | implements `Settlement` |
| `AutoPch` | PCH files, processes and builders | |
| `PythonCallbacks` | the five kinds of Python callback entities | |
| `NativeParameters` | parameter callbacks, the node's mutex, the GIL | |
| `NativeLifecycle` | a lifecycle node and its executors | |
| `Services` | the three compiled services | |
| `BorrowedPublish` | the buffers of a publishing thread | |
| `Teardown` | cleanups and exit hooks | |
| `SummaryWorker` | the summary worker and its supervisor | |
| `Controllers` | the servo and the Python controller | |
| `ControlRig` | switches, booking and teardown of the rig | |
| `HeaderFetch` | the cached entry of a header request | |
| `KernelOnce` | first calls of equal kernels | |
| `MCPipelineReaper` | runs the pipeline and the reaper | `MCFusedPipeline`, `CallableReaper` |
| `MCComponents` | runs three components | `NativeActionClient`, `NativeParameters`, `SessionPipeline` |
| `MCThreads` | runs the session and thirteen more | `NativeSession`, `NativeWaitSet`, the other modules from `NativeClient` to `KernelOnce` |
| `FusedPipeline_proofs` | proofs | `FusedPipeline` |
| `NativeSession_proofs` | proofs | `SessionPipeline`, `NativeWaitSet`; instantiates `FusedPipeline_proofs` |
| `CallableReaper_proofs` | proofs | `CallableReaper` |
| `CppyyKit_proofs` | proofs | `CompileCache`, `KernelOnce`, `HeaderFetch`, `Teardown`, `AutoPch` |
| `NativeActionServer_proofs` | proofs | `NativeActionServer` |
| `Entities_proofs` | proofs | `NativeClient`, `Services`, `PythonCallbacks`, `NativeLifecycle`, `NativeParameters`, `BorrowedPublish`, `NativeActionClient` |
| `SummaryWorker_proofs` | proofs | `SummaryWorker` |
| `Controllers_proofs` | proofs | `Controllers`, `ControlRig` |

`MCPipelineReaper`, `MCComponents` and `MCThreads` conjoin the initial states of their components; a
variable `component`, chosen at the start, says which of them moves. The
components share no variable, so a behaviour of the whole is a behaviour of one
component, and the states to explore are the sum of theirs and not the product.

In every module an action is one critical section, or one stretch of code in
which no other thread can observe a difference; `pc`-like variables hold where
a thread stands between them. Operators whose comment starts with "Faulty
variant" are plausible bugs of the definition that follows them. Nothing refers
to them in the specifications: substituted for the original they break the
property that is meant to catch the bug, which is recorded under "mutants".

### FusedPipeline

`pc["callback"]` and `pc["worker"]` are the executor thread in the subscription
lambda and `worker_`; `closer` is the thread in `close()`. `queue` stands for
`latest_` (length at most one) or the batch deque; `work[t]` for the messages a
thread took and has yet to give to `process_one`. `Gate` is the test of
`stopping_` and the `received_` counter; `StoreLatest` and `StoreBatch` the
locked sections of the two policies; `NotifyOne` the notification after the
unlock; `CheckBlocks` and `Block` the two halves of `wait(lock, predicate)`, with
the lock held in between, which is where a notification without the lock gets
lost; `Take` and `WorkerExit` the rest of the loop; `TransformThrows`,
`TransformPublishes`, `TransformSuppresses` and `Publish` the steps of
`process_one`; `CloseBegin` to `CloseRelease` the lines of `close()`.

Assumed: the subscription is in the node's default mutually exclusive callback
group (one callback at a time). `executor = "joined"` is the moment
`NativeSession.close` has joined its threads, `quiet` remembers whether the
pipeline's close came after it. The loan bookkeeping counters are left out.

### NativeSession

`thread[x]` follows the C++ thread of executor `x` from its start through
`spin()` to its end; `spinning` and `interrupt` are rclcpp's flag and guard
condition; `gil` is the interpreter lock. `CloseCancels` and `CloseJoins` are the
first loops of `close()`; a join sets `joining` and keeps the GIL (`Yield` is
refused to a thread inside it). `RegisterResource` may happen on any thread that
has the GIL until the list is cleared.

Assumed: one caller of `close()`. When a callback calls it, `caller` is that
callback's thread, which detaches itself instead of joining. While `close()`
runs, the main thread does nothing else with the session. rclcpp's executor is
external.

### SessionPipeline

The pipeline of `FusedPipeline` in a session: `PipelineExecutor` is the executor
that spins its node, resource 1 is the pipeline. `FusedPipeline` is instantiated
with the session's phase in the place of its `executor`: joined once the loop of
joins is over. Its callback runs while the executor's thread is in a native
callback (`PipelineCalled`), its `close()` is called by the user or by the
session's loop over the resources (`UserClosesPipeline`,
`SessionClosesPipeline`), and the session's thread stays in the loop, with the
GIL, until that `close()` has returned (`SessionStep`).

### NativeWaitSet

`stands[t]` is the call a Python thread is in. `WaitBlocks` and `SleepBegins` enter
a blocking call and keep `gil_owner`; a wait also keeps the adapter's mutex, which
`CloseWaitSet` needs. `TriggerCalled` and `Trigger` are a trigger before and in
C++: in between the interpreter may switch. `raw` are guards that C++ code holds
(`TakeRawGuard`), which `NativeTriggers` without the GIL. A guard belongs to one
wait set (`AddGuardCondition`) and leaves it when its last owner goes (`Expires`).
`SessionShutsDown` follows the close of the session's resources.

Assumed of rclcpp: a trigger stays latched until a wait takes it; a wait set owns
its guards only while it waits; a sleep ends at its deadline, or when the time
source changes or the context is shut down.

### CallableReaper

A direct subscription has three copies of its `std::function`: inside rclcpp's
entity (`dispatch`), in the managed wrapper (`wrapped`) and in the facade
(`cpp_callback`). `refs` is the reference count, `owned` what Python code holds,
`queued` and `batch` the releases queued and being performed. `RebuildDrops` and
`RebuildTakes` are a worker renewing its wait set under the executor's mutex
without the GIL; `Dispatch`, `CallbackRuns` and `CallbackReturns` a dispatch, with
the GIL from `CallbackRuns` on; `CloseManaged` and `CloseFields` the two halves of
`DirectSubscription.close`; `DrainSwaps`, `DrainReleases` and `DrainEnds` a drain.

Assumed: there are exactly those three copies, the executor's workers behave as
rclcpp's do, and a subscription counted by `ClosedReleasesAll` was closed before
the session.

### CompileCache

One key. `file[n]` is the library, header or metadata (absent, good, or bad:
truncated or stale); `staged` the temporary libraries. `Enter` takes
`_SESSION_LOCK` and looks in `_APPLIED`; `ProbeFinds`, `ProbeMisses` and `ProbeHits`
are `_complete`, one `exists` at a time; `LockFile` takes the file lock and looks
again; `UnlinkOld` to `Publish` are `_build`; `Discard` and `LoadFails` the corrupt
hit; `Unlink` removes one file at a time without a lock; `Crash`
kills a process between any two steps and releases its locks, as the kernel
does.

Assumed: the definitions and declarations are valid C++ (only the compiler, the
loader and the file system fail); the bypass switches and read-only prefixes
are not modelled. The file system may lose a temporary file to `clear_cache` in
more places than the code has, which only adds behaviours.

### NativeActionServer

`spin` is the thread that runs the server's services, one request at a time;
`call` the Python call in progress, which has the GIL. `rcl[g]` is
rclcpp_action's state of a goal, `status[g]` the record's. `RequestGoal`,
`EnterGoalCallback`, `LeaveGoalCallback` and `HandleAccepted` are `handle_goal`,
`dispatch_goal` and `handle_accepted`; `RequestCancel`, `EnterCancelCallback`,
`LeaveCancelCallback` and `WriteCanceling` are `handle_cancel` and
`dispatch_cancel`. `BeginCall`, `Operate` and `RecordStatus` are the three
sections of `mutate()`: copy the record out under the lock, act on the handle,
write the status without the lock. `Close` and `ServiceDeferredClose` end where
the dispatch lock is released; `CloseSwaps` and `CloseClears` are the C++ `close()`.

Assumed of rclcpp_action: the goal state machine, a goal handle that cancels
its goal when the last owner lets go (`Abandon`), a server that stays alive while
one of its requests is executed. The C++ call of a decision callback and the
Python entry of `dispatch_*` are one step: in between the only other outcome, a
callback found cleared, is that of a call that found it cleared. Feedback only
counts and is left out.

### NativeActionClient

`calling` is the Python call inside the adapter (it keeps the GIL, so there is
one); `executing` the client callback a native thread is in. The adapter's mutex
is held over a step in one place only, `request_cancel` over
`async_cancel_goal`; rclcpp_action's mutex over its map of handles is held over
the feedback callback. `requested`, `goal_handles` and `published` are what
rclcpp_action knows. `GoalResponseArrives` and `ResultArrives` meet records that
`Forget` or `ActionClientClose` removed; their callbacks find none and stop the
goal's callbacks. `Queued` are the messages in the queues of some goals;
`discarded` counts those that went with a record, whose deque is destroyed.

Assumed: the callbacks of the client are in one mutually exclusive group, as the
node's default group is.

### NativeClient

`future[t]` is the adapter's entry of call `t`, `rcl_pending` rclcpp's. Between
`ResponseArrives` (rclcpp takes the request out of its map) and `FulfilPromise`
the response belongs to neither. `PruneThroughRawClient` is the user's
`prune_pending_requests`. Allocation failures are left out.

### AutoPch

A PCH is named by the digest of its set of headers, so the set is its key.
`run`, `merged`, `exit_key` and `builder` follow the processes through
activation, `register_pch_headers`, the hook at exit, and the detached builder
through its build and its prune; only files connect them. `KillProcess` and
`KillBuilder` may strand a lock, `LockAges` lets it become stale. One
environment; include paths and opt-outs are left out.

### PythonCallbacks

An entity's `DispatchState` is shared by the facade and by the lambda in rclcpp,
which a worker may own last. `DispatchEvent` to `DispatchTimer` are the five
lambdas; each takes the GIL, tests the closing flag, and counts. `CloseEntity`
and `CloseInCallback` are the close of a facade, `DetachEvent` the extra step of
an event handler; `LeaveEntity` lets go of the entity, and the last owner leaves
the references to the reaper, which `DrainReaped` empties.

### NativeParameters

`at` and `stage` say in which bridge, or in rclcpp's own application, a thread
is; `node_mutex` is rclcpp's recursive mutex, kept over a whole change. A change
from a service (`NativeChange`) takes the GIL inside the mutex, one from Python
(`PythonChange`, `PythonRead`) comes with it. `CloseBridgeBegins` lets go of the
GIL before it waits for the mutex. `CrossedAccess` marks the one obstacle: a Python
access that kept the GIL. Two closes of one bridge at a time are left out (both
would reset `handle_`), and so is `undeclare`.

### NativeLifecycle

`executors_` is the resource's list, `hosting` what the executors really hold,
`adopted` the part of it that `attach_executor` brought about. An executor may
expire or refuse, and the user may add and remove the node by itself
(`RawMembership`). `TransitionCallback` is the Python callback between two steps
of rclcpp's state machine; an exception or a wrong return is contained and kept
for the caller to raise (`TakeFailure`).

### Services

One lambda, three bodies: `NativeBody`; `CallCallback` to `ServiceCallbackReturns`
for the two with Python. `scope` is the borrowed views' scope, which the call
opens and its end expires, `RetainView` a callback that keeps a view and `UseView`
its use later. `CloseService` comes from another thread or from the callback
itself. A borrowed service's close also empties `callback_`
(`borrowed_set_bool_service.py:415`): a lambda that comes later throws. What a
`std::function` does that is emptied while it is called is undefined in C++; the
model lets such a call go on, and a session closes its services after the join.

### BorrowedPublish

The pool is thread-local. `frames` are the publishes under way, one inside the
other; `AcquireScratch` takes the slot of its depth, `ReleaseScratch` (the
`finally`) returns it and evicts a buffer that grew too large.

### Teardown

`exit_hooks` is atexit's stack. `ImportCppyy` pushes the hook that takes Cling
down, `EnsureRuntime` moves the hook of `shutdown` above it. `RunCleanup` is one
turn of the loop of `shutdown`; the callback may register others.

### SummaryWorker

Every operation of `worker.cpp` is a section of one mutex. `WorkerBlocks` is the
thread's `wait`; drain waits on the same condition variable, which
`notify_all` serves for both. `computing` is the input taken out of the queue,
`StopBegins` and `StopReturns` the two ends of `stop`.

### Controllers

The servo: `SetTargetLocks` and `SetTargetCopies` are the two halves of
`set_target` (the mutex is held in between), and `ServoUpdates` copies `pending_`
only when nobody holds it. The Python controller forwards each call to an object
that answers, refuses or raises. The manager is external and calls in the order
its contract gives.

### ControlRig

`request`, `switch_done` and `switch_ok` are the global `g_switch`; `runner` and
`argument` the detached workers, each with the request it copied.
`SwitchReturns` and `SwitchOverruns` are the two exits of the loop that pumps
`update()`. A switch that overruns its deadline leaves a worker behind that
writes the shared `g_switch` later: "One request in flight at a time" is then
not so, and `RigBooksSwitches` makes no claim about such a run.

### HeaderFetch

The entry is the set of its pieces. `RequireLooks` verifies it without a lock,
`FetchLocks` again under `.fetch.lock`, `RemovesPiece` is the removal of an
invalid entry one piece at a time, `PutsInPlace` the rename. `Tamper` is
interference from outside. A verification is one step. An entry that is invalid
only because of a stray file looks valid once a replacement has removed that
file, so a process that verifies it then, without the lock, returns a directory
that is about to go. `RequireLooks` lets that happen; `ReturnedEntryStays` makes
no claim about that process (it is not added to `relying`).

### KernelOnce

Threads call wrappers whose kernels are equal. A wrapper's own lock is held
around the process's `_COMPILE_LOCK`; `LooksUp`, `Defines` and `Records` are the
lookup in `_REGISTERED`, `cppdef_cached` and the entry, `BuildsOnly` the branch
that only builds the library for a wrapper whose predecessor had the cache off.
`EnsureRaises` are a refused source and the file system errors that `prebuild`
does not contain.

## 3. Runs

| Run | Question | Result |
|---|---|---|
| `pipeline_reaper` | Is every message accounted for once, in order, under the three policies, and is the queue drained by a close after the executor's join? Do a callable's references balance, does it outlive dispatches, can its destructor deadlock? | holds |
| `pipeline_close` | Does `close()` always return? | violated: lost wake-up |
| `session` | Does the session's order cancel, join, drain, release, clear, drain, shut down keep its promises? Do blocked calls keep what they use? Do the service client, PCH builds, callback entities, lifecycle nodes, services, publish buffers, teardown, the worker, the controllers, the rig, the header cache and first calls keep their books under every interleaving, failure and close? | holds |
| `session_close` | Does `close()` return although Python callbacks may run? | violated: join under the GIL |
| `cache` | Hits, misses, builds, clears and crashes of two processes and three threads on one entry | holds |
| `cache_mixed` | Does `compiled_only` load a library? | violated after a plain call |
| `action_server` | Goals, cancels, calls and a close in every order: do the books agree with rclcpp_action? | holds |
| `action_server_close` | Does a close wait for a running callback? | violated: the test is stale when used |
| `components` | Do the action client and the parameters keep their books under every interleaving, failure and close? Is a session's pipeline a `FusedPipeline`? | holds |
| `client_cancel` | Does `request_cancel` return? | violated: two mutexes in opposite order |
| `teardown_reinit` | Does every registered cleanup run? | violated after an explicit `shutdown()` |
| `waitset_trigger` | Does a trigger wake a wait? | violated between two Python threads |

What the properties of `session` and `components` say, beyond those of section 1:

* `JoinedBeforeDrain`, `ReleasedInReverse`, `CloseReturnsIfJoinable`: the
  session's close (`NativeSession`).
* `BlockedIsUndisturbed`: while a thread waits or sleeps no adapter is closed and
  the session does not shut the context down. Only the GIL makes it so: the sleep
  holds no mutex, and the guards have mutexes of their own (`NativeWaitSet`).
* `WorkerKeepsItsBooks`, `StopDrainsThenJoins`: each submission is counted once
  and its summary has the parameters in force when it was submitted, in order;
  `stop()` finishes accepted work although the gate was closed (`SummaryWorker`).
* `ControllersKeepProtocol`: a joint is never moved towards a target of an
  earlier activation, and no controller object is updated that is not activated.
* `RigBooksSwitches`: what is booked is what is active, unless a switch overran.
* `ReturnedEntryStays`: a directory that was returned stays complete.
* `KernelRegisteredOnce`: Cling has equal kernels once, and who wanted the
  library has it or was told why not.
* `FeedbackIsNewest`, `GoalsAccountedFor`, `CancelReturnsUnlessCrossed`: the
  action client; the last shows that the deadlock of finding 5 is the only one.
* `GoalsSettleOnce`, `CallsSettleOnce`: the action client's records and the service
  client's futures implement `Settlement`. A goal or a call that ended, whichever
  way, is not given a record again by a response that comes late. These two are
  proved (section 4) and no run checks them.
* `CallsSettle`: a service call ends once and leaves nothing in either map.
* `LockedIsBuilding`: a lock file belongs to a living builder, or to one that was
  killed; no orderly path leaves one.
* `CallbacksAccountedFor`: references and crossings of callback entities.
* `BridgesSettle`, `CloseReturnsUnlessCrossed`: a bridge's invocations and
  references balance, a change with a failing callback is not applied, and only a Python access that kept the GIL can block a close.
* `AdoptedIsListed`: an executor that has the node through `attach_executor` is
  in the list that `close()` goes through.
* `ServiceCallsSettle`: calls are requests or exceptions; views expire.
* `PoolBalances`: nested publishes have buffers of their own, evictions lose
  neither a buffer nor a count.
* `CleanupsPrecedeCling`: no cleanup finds Cling gone.
* `PipelineKeptBySession`: the composition `SessionPipeline` is a behaviour of
  `FusedPipeline`. What that module takes for granted, that no callback is inside
  the pipeline once the executor counts as joined, is what the session's joins
  provide; so `ClosedIsDrained`, which speaks of such a close, applies to the one
  the session performs.

### Bounds, and why they are enough

* `pipeline_reaper`: four messages, queue of three, batches of two. The queue fills
  and drops, a batch leaves a rest behind, a message is coalesced while another
  is processed, and a message arrives after `close()` began. More messages repeat
  these situations. Reaper: two entities and two workers, so either worker can be
  the last owner of an entity the other let go of. About 296,000 states; the
  proofs remove the bounds.
* `session`: two executors (one with Python callbacks, one without), two
  resources: the order of joins and releases can be observed, the two threads
  compete with `close()` for the GIL. Worker: queue of two, one result kept, four
  submissions, one update of the parameters, so that the queue refuses, a result
  is evicted and an update falls between two submissions. Controllers: two
  joints, two goals, two instances. Rig: two controllers, two switches besides
  the one of its teardown. Headers: two processes, one interference, one death.
  Kernels: two threads, a wrapper with the cache and one without. Wait sets: two
  threads, a guard, two wait sets that compete for it, two blocking calls.
  Service client: three calls with one failure. PCH: two headers, two processes
  that run twice, one file kept, one fault. Callback entities: two workers, two
  entities and two dispatches. Lifecycle: two executors, two transitions and one
  raw membership. Three compiled service calls; four publishes, nested up to that
  depth; two cleanups registered three times. In each, every step can meet every
  other step of a second actor of its kind, and every failure occurs once. About
  207,000 states.
* `components`: two goals that share two feedback messages, a feedback queue of
  one and one failure; two threads with one change of the parameters. The pipeline
  in a session: one native executor, one resource, one message with a queue of
  one, and the policies with and without a worker thread; what a queue of messages
  does is explored by `pipeline_reaper`, here the question is when joins and
  closes meet the message. About 134,000 states.
* `waitset_trigger`: two threads, one guard, one wait set and one blocking call.
* `cache`: two processes, one with two threads; one call each, one crash. One
  thread calls with `compiled_only`, the other of its process plainly or clears,
  the other process builds plainly or ahead, so a build meets every other
  operation in its own process or across processes.
  `Init` starts from every combination of files, so leftovers of earlier
  versions and crashes need no further calls.
* `action_server`: two goals, two cancel requests, one failing call. `MaxGoals`,
  `MaxCancels` and `MaxExceptions` cap counters in the guards. A spin that
  releases the GIL has every interleaving of one that keeps it, so the passing
  run explores "released" and "native"; the two violations are looked for with
  "holding", where fewer interleavings exist, so that they do not depend on a
  user releasing the GIL.

Deadlock is not checked: every system here may stop (no more messages, session
closed, calls used up). What must not get stuck is stated as liveness.

### Fairness, and why the code justifies it

* `FusedPipeline`: weak fairness of each thread's steps (the operating system
  runs started threads); strong fairness of the callback's locked section, since
  spurious wake-ups may take the mutex over and over. None for arrivals,
  spurious wake-ups or the start of a close.
* `NativeSession`: weak fairness of the threads and strong fairness of taking the
  GIL (CPython hands it on when asked). None for events, starts, or closes.
* `CallableReaper`: weak fairness of a rebuild that has begun and strong fairness
  of the waiter for the executor's mutex.
* `CompileCache`: weak fairness of a call that can go on, strong fairness of the
  two locks.
* `NativeActionClient`: weak fairness of the Python call in progress and of the
  callback in progress. Nothing has to arrive.
* `NativeParameters`: strong fairness of each thread's steps and of taking the
  GIL back: mutex and GIL are handed on by the operating system and by CPython.
* `NativeWaitSet` (only for `TriggerWakes`): a wait that is ready or out of time
  and a sleep end, and a thread that is offered the GIL over and over takes it.
* `SummaryWorker`: weak fairness of the thread and of the return of `stop`.
* `MCPipelineReaper`, `MCComponents` and `MCThreads` restate the fairness of their components,
  restricted to behaviours in which the component moves.
* `NativeActionServer`: weak fairness of a request being handled (callbacks
  return), of a call in progress, and of the poll of `service_deferred_close`,
  which the helper's documentation assigns to "whatever pumps the executor".
  Nobody has to send requests or make calls.

### Findings

1. **Lost wake-up in the pipeline's close** (`native_pipeline.py:585`).
   `stopping_` is set and `notify_all` called without `queue_mutex_`. A worker that
   has evaluated its predicate and not yet blocked misses both and the join
   never returns. `CloseReturnsUnlessMissed`, in the passing run, shows this
   window is the only one.
2. **Join under the GIL** (`native.py:153`). The session's close joins executor
   threads inside a C++ call that keeps the GIL; a thread about to run a Python
   callback waits for the GIL. `CloseReturnsIfJoinable` shows the close ends when
   no thread is in that position and every cancel came after `spin()` began.
3. **`compiled_only` after a plain call** (`cache.py:262`) returns the recorded
   Cling result and loads nothing, which the docstring excludes.
4. **Deferred close of the action server** (`native_action_server.py:361`).
   `depth` is tested under the dispatch lock and used after it: a callback that
   starts in between is severed while it runs.
5. **Cancel against feedback** (`native_action.py:873`). `request_cancel` keeps
   the adapter's mutex over `async_cancel_goal`, which takes rclcpp_action's mutex
   over its goal handles; rclcpp_action holds that one over the feedback
   callback, which takes the adapter's. `CancelReturnsUnlessCrossed` shows that
   nothing else stops a cancel.
6. **Cleanups registered after `shutdown()`** (`cppyy_kit/__init__.py:479`).
   `_SHUTDOWN_DONE` is never reset, so they run neither at another `shutdown()`
   nor at exit.
7. **Trigger against a wait** (`native_waitset.py:117`). `wait()` blocks in C++
   with the GIL, so `trigger()` of another Python thread, which its docstring
   calls thread-safe, is not executed before the wait ends by itself; an untimed
   wait never does. The repository's test triggers from a C++ thread. For the same
   reason the sleeper, "interruptible on session shutdown", is not interrupted by
   a close from another Python thread: the close does not get to run.

`StatusIsCurrent` of the action server speaks of goals whose calls and cancels
did not overlap: a cancel callback that ends its goal and then accepts, or a call
made meanwhile, is overwritten by the record's "canceling"
(`native_action_server.py:789`); rclcpp_action refuses that cancel.

## 4. Proofs

Every theorem below is proved for any value of the constants; the runs show the
same properties on small instances. Every safety invariant and every action
property that a passing run checks is stated by a theorem. In every module the
argument is the same: an inductive invariant that strengthens the property, one
lemma or step per action, and a last step that combines them. A type
invariant that no run checks is defined in the proof module.

| Module | Theorem | Property |
|---|---|---|
| `CallableReaper_proofs` | `TypeCorrect` | `ReaperTypeOK` |
| | `ReferencesBalance` | `RefsBalance` |
| | `DispatchedCallableLives` | `CallableOutlivesDispatch` |
| | `CloseLeavesNothing` | `ClosedReleasesAll` |
| | `OnlyUnderGIL` | `CountsChangeUnderGIL` (an action property) |
| `FusedPipeline_proofs` | `TypeCorrect` | `TypeOK` |
| | `CloseDrains` | `ClosedIsDrained` |
| | `ClosedIsInert` | `InertAfterClose` (an action property, only proved) |
| | `BooksBalance` | `Accounted` |
| | `KeepsArrivalOrder` | `ArrivalOrder` |
| | `ImplementsSettlement` | `SettlesOnce`, the refinement of `Settlement` |
| `NativeSession_proofs` | `SessionTypeCorrect` | `TypeOK` |
| | `DrainsAfterJoin` | `JoinedBeforeDrain` |
| | `ReleasesInReverse` | `ReleasedInReverse` |
| | `PipelineImplemented` | `PipelineKeptBySession`, the refinement of `FusedPipeline` |
| | `SessionDrainsPipeline` | `ClosedIsDrained` and `Accounted` of the pipeline in a session |
| | `WaitTypeCorrect`, `BlockedIsUndisturbedHolds` | `WaitTypeOK`, `BlockedIsUndisturbed` (an action property) |
| `NativeActionServer_proofs` | `ServerTypeCorrect` | `TypeOK` |
| | `ServerBooksBalance` | `BooksBalance` |
| | `StatusIsCurrentHolds` | `StatusIsCurrent` |
| | `ClosedEndsGoalsHolds` | `ClosedEndsGoals` |
| `CppyyKit_proofs` | `CacheTypeCorrect` | `TypeOK` |
| | `DefinedOnceHolds` | `DefinedOnce` |
| | `UsableEntryStaysHolds` | `UsableEntryStays` (an action property) |
| | `KernelTypeCorrect`, `RegisteredOnce` | `KernelTypeOK`, `KernelRegisteredOnce` |
| | `ReturnedEntryStaysHolds` | `ReturnedEntryStays` |
| | `TeardownTypeCorrect`, `CleanupsPrecedeClingHolds` | `TeardownTypeOK`, `CleanupsPrecedeCling` |
| | `LockedIsBuildingHolds` | `LockedIsBuilding` |
| `Entities_proofs` | `ClientTypeCorrect`, `CallsSettleAlways` | `NativeClientTypeOK`, `CallsSettle` |
| | `ServicesTypeCorrect`, `ServiceCallsSettleAlways` | `ServicesTypeOK`, `ServiceCallsSettle` |
| | `CallbacksTypeCorrect`, `CallbacksAccounted` | `CallbacksTypeOK`, `CallbacksAccountedFor` |
| | `LifecycleTypeCorrect`, `AdoptedIsListedHolds` | `LifecycleTypeOK`, `AdoptedIsListed` |
| | `ClosedLeavesExecutors` | `ClosedIsAdoptedByNone` (only proved) |
| | `ParameterTypeCorrect`, `BridgesSettleHolds` | `ParameterTypeOK`, `BridgesSettle` |
| | `PoolTypeCorrect`, `PoolBalancesHolds` | `PoolTypeOK`, `PoolBalances` |
| | `ActionClientTypeCorrect` | `ActionClientTypeOK` |
| | `FeedbackIsNewestHolds` | `FeedbackIsNewest` |
| | `GoalsAccountedForHolds` | `GoalsAccountedFor` |
| | `CallsImplementSettlement` | `CallsSettleOnce`, the refinement of `Settlement` (only proved) |
| | `GoalsImplementSettlement` | `GoalsSettleOnce`, the refinement of `Settlement` (only proved) |
| `SummaryWorker_proofs` | `WorkerTypeCorrect`, `WorkerKeepsBooks` | `WorkerTypeOK`, `WorkerKeepsItsBooks` |
| `Controllers_proofs` | `ProtocolKept` | `ControllersKeepProtocol` |
| | `RigTypeCorrect`, `RigBooksSwitchesHolds` | `RigTypeOK`, `RigBooksSwitches` |

The assumptions are the named ones of the modules. Bounds are naturals; the
capacity of a queue, the size of a batch, a servo's number of joints and
`prune`'s `keep` are positive, as the code's own checks have it. "Nobody" (the
value of a lock nobody holds, of a worker without an entity) is not a thread or
an entity. A session's Python executors are executors, and the pipeline in a
session is on one of the others. The threads of `Services` and of
`PythonCallbacks` are finitely many, because their proofs count the calls under
way; the reaper's, the cache's, the kernels' and the parameters' need no
finiteness.

**Reaper.** `IInv` adds to the balance: `CopiesFollowOwners` (which copies exist
follows from who owns the entity, so "the last owner destroys the copy" becomes a
fact about `facade` and `held`); `PythonReferences` (the facade owns its
references until closed, so no release takes a count below zero);
`DispatchesHeld` (a worker dispatches what its wait set holds, so the callable
lives); `RunsUnderGIL` and `BatchIsLocal` (who may change counts);
`CloseProgress` (no worker after the join, no wait set after the lists are
cleared, nothing queued after the last drain). `DestroyKeepsBalance` is the central
lemma: a destroyed copy moves its reference to the queue.

**Pipeline.** `IInv` says what each thread has in hand where it stands
(`WorkShape`), what the policy allows in the queue (`PolicyShape`), and what is
over at each stage of a close (`CloseProgress`). The balance needs the counters
related to the outcomes one message at a time. The ledger adds `OrderInv`: the
messages in the worker's hand, then those in the queue, then the one being
admitted are in order of arrival, and none of them is settled (`Unsettled`). From
it follow the order, and that every step is a step or a stutter of `Settlement`.

**Session.** `JoinedBeforeDrain` needs `StartedKnown` (a thread that was started is
in the list until the list is cleared), `StoppedEnds` (whoever was stopped has
ended, is being joined, or is the caller itself) and `JoinProgress` (the loop has
stopped all above its cursor). `ReleasedInReverse` needs that a resource is never
registered once the drain has begun: a thread that could do it would be alive
with the GIL (`GilIsPythons`), which `JoinedBeforeDrain` excludes; then
`ReleaseProgress` gives the released list element by element.

**Pipeline in a session.** Two facts join the session's invariant: `PythonOnly`
(only executors with Python callbacks run one or close the session, so the
pipeline's executor is never the caller that detaches itself) and
`CalledFromNode` (a callback inside the pipeline keeps its executor in a native
callback). With `JoinedBeforeDrain`, the step that ends the joins finds no
callback in the pipeline and is the step of `FusedPipeline` that marks its
executor as joined; every other step of the session is a stutter. The theorems
about `FusedPipeline` then hold of the pipeline in the session by instantiation.

**Wait sets.** `GilIsKept`: a blocked call has the GIL, so no other Python thread
is in the middle of a close, and none can begin one.

**Action server.** `ServerIInv` has `ActorsOK` (where the spinning thread and the
Python call can be), `ClosingInPhases` (what `close()` took out under the lock
stays out), `GoalsInTurn` (a goal is in the hands of `handle_goal` or has a
record, never both), `ActiveIsHeld` (a record, the set swapped out by `close()` or
the spinning thread answers for an active goal, so the goals that are left end
when the close clears that set), `ResultsOwed` (a call that moved its goal and has
yet to say so in the record owes its counter one), `InLine` (what was taken
precedes what is queued) and `RecordsTell` (the status of a goal on which no call
and cancel have met is rclcpp_action's).

**Caching.** For the compile cache: `SessionLocked` (inside the session lock
nothing is recorded, and Cling has the names only if this call gave them),
`RecordedOnce` (outside it, Cling has them once exactly when that is recorded),
`ReportsAreLoaded`, and `EntryLocked` (a build has the file lock and found the
entry incomplete, or the library bad, so it never touches a usable entry). For the
kernels: `HoldsCompileLock` (at most one thread is between the lookup and the
entry), `DefinitionsRecorded` (what Cling has and `_REGISTERED` does not is being
recorded by the holder), `ArtifactSettled`. For the headers: `ReplacesAlone` (who
removes or replaces the entry has the lock, and nobody relies on the entry).

**Teardown.** `ShutdownAbove`: with the runtime up, the hook of `shutdown` lies
above the one of Cling until it has run. `OwedWaits`: what is owed is in the
registry, so a `shutdown` that is over owes only what came late.

**PCH.** `LockHasOneOwner`: one process or builder is at work under a key, and its
lock file is there exactly while that is so or a killed one left it; only a lock
of the latter kind ages, so a stale lock that is taken over has no owner. The
key of a lock is never the empty set of headers (`KeysNamed`).

**Service client.** `TokensAreFresh`: what rclcpp holds or answers has a token
that was handed out, so a new call meets no old one. In the ledger (`CallState`)
a token not handed out is unknown, and one handed out is pending while it has a
record; with `NoLeakedCall`, a prune changes the future of a pending call only,
and every step is a step or a stutter of `Settlement`. For the action client
(`GoalState`) that is the condition of `RetainGoal`: the callback fills in a
record that is there and makes none.

**Services, callbacks, lifecycle.** `RequestsBalance` and `CrossingsCounted` count
the calls under way next to those that ended; `ViewsExpire` is inductive as it
stands. The references of a callback entity are all there as long as the facade
or a worker has it (`ReferencesHeld`), which needs `WorkersKeep` (a worker has
its entity until it is idle). An executor that adopted the node lives, has the
node and is listed (`AdoptedLives`), and once the node is closed there is none.

**Parameters.** A change has the node's mutex from its first stage to its last
(`ChangeHasMutex`), so at most one invocation is under way and counters can be
related to it. `TroubleEnds` follows a failure: a change that failed in one
bridge has an empty batch or a refusal in hand, so it never reaches "apply".

**Publish buffers.** The publishes under way stand on the first slots, one frame
each (`FramesOnSlots`), and slots hold different buffers (`SlotsDiffer`); so the
buffer of the innermost publish is nobody else's. `MadeInOrder` gives a new
buffer a number without a history. The sum over the pool is the cardinality of
a set of pairs: lemmas about such sums (`ColumnsSplit`, `ColumnApart`) stand in
for an induction.

**Action client.** `TokensAreUnused`: nothing is known of a goal not sent yet, and
only its record of one that is being sent. `HandlesAreHeld` sharpens the last
part of `GoalsAccountedFor`: in rclcpp_action's map is whoever has a record with
the handle, or a thread that will store or stop it. Each counter runs with what
it counts: `AnswersCounted` includes the answer being handled and the call that
has not counted yet, `RecordsCounted` the record of a goal being sent,
`ResultsCounted` the accepted records, `CancelsCounted` the cancels awaited.
`FeedbackIsNewest` needs that only records have queues (`QueuesHaveRecords`), and
sums the queues as the pool sums its buffers (`Queued`).

**Summary worker.** `LineInOrder`: what Python took, what is retained, what is being
computed and what waits follow one another; `Issued`: each has the number and the
settings its submission gave it; `ThreadShape` excludes a second thread.

**Controllers.** `GoalsInLine`: while the servo is active, its pending, target and
commanded values are measured positions or goals of this activation, and no
vector holds a goal older than the next one does; so what `update` writes is
current.

**Rig.** `OneInFlight`: unless a switch overran, only the worker of the switch in
progress is on its way, with the request Python made. `BooksFollow`: the books
are right between switches, and during one they lack what it has applied.

Only model-checked: liveness (`RemoveNodeCompletes`, `EveryCallReturns`,
`DeferredCloseHappens`, `PendingIsSettled`, the `...Returns...` properties,
`StopDrainsThenJoins`), which the prover cannot treat under fairness. What the
order of `newest` in `AutoPch` does to pruning is outside the theorem about it:
the order is the result of a filter over a sequence, which takes an induction.

## 5. Plan

Next, in this order:

1. Proofs: action properties that say what a step may never do where a run
   checks an invariant only (a released resource not released again).
2. The composition of the session with an action server, whose handlers run on
   the same executor threads, along the lines of `SessionPipeline`.
3. Subscription leases and borrowed subscriptions
   (`direct_subscription_lease.py`), managed publishers of lifecycle nodes, the
   shared partial download of `src/retarget_pipeline/fetch_models.py`.

## 6. Not modelled, and why

* Conversion, serialization, array views, message facades, stub generation,
  tracing, diagnostics: data transformation without concurrent state.
* Node clocks and clock jump callbacks: a mutex around one call into rclcpp.
* The component manager forwards to rclcpp_components.
* Domain kits other than the ros2_control kit (behaviour trees, Nav2, OpenCV,
  DBoW2, Crocoddyl, OMPL, PCL, MoveIt): thin wrappers over external C++
  libraries. Examples, benchmarks, tests and packaging, which are more than half
  of the repository's lines.
* rclcpp, rclcpp_action, the controller manager, CPython's GIL, the C++ standard
  library and the file system are external: modelled only by what the code
  relies on, and marked so in the map of PROJECT.json.
* Undefined behaviour that only a misuse reaches: two threads that close one
  parameter bridge, a borrowed service's callback emptied while it is called, a
  host that updates a Python controller with the GIL held.
* Failed allocations in the C++ adapters.
* Data: messages, values, source texts and paths are members of small sets.
