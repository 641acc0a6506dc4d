----------------------------- MODULE MCThreads -----------------------------
(***************************************************************************)
(* The native session, the calls that block, and the components whose      *)
(* threads, workers and processes share no state with them or with one     *)
(* another: a behaviour picks one of them at the start and only that one   *)
(* moves.                                                                  *)
(***************************************************************************)
EXTENDS MCNativeSession, NativeWaitSet, SummaryWorker, Controllers,
        ControlRig, HeaderFetch, KernelOnce, NativeClient, AutoPch,
        PythonCallbacks, NativeLifecycle, Services, BorrowedPublish, Teardown

VARIABLE component  \* the component that moves

smallVars == <<workerVars, controllerVars, rigVars, fetchVars, kernelVars,
               clientVars, pchVars, callbackVars, lifecycleVars,
               serviceVars, poolVars, teardownVars>>
threadVars == <<component, vars, waitVars, smallVars>>

\* Which kinds of callback entities meet: every kind, and an event, the one
\* that outlives its close, with another.
KindsTogether ==
    {[e \in Entities |-> IF e = first THEN k ELSE j] :
        first \in {CHOOSE e \in Entities : TRUE},
        k \in CallbackKinds, j \in {"event"}}
FirstKinds == CHOOSE ks \in KindsTogether : TRUE

\* One starting point for a component that does not move.
StartingPoint ==
    /\ kind \in KindsTogether
    /\ component # "callbacks" => kind = FirstKinds
    /\ component # "kernel" => ~artifact
    /\ component # "pch" => manifest = {}
    /\ component # "services" => service_kind = "python"

ThreadsInit ==
    /\ component \in {"session", "wait", "worker", "controllers", "rig", "fetch",
                      "kernel", "client", "pch", "callbacks", "lifecycle",
                      "services", "publish", "teardown"}
    /\ Init /\ WaitInit /\ WorkerInit
    /\ ControllersInit /\ RigInit /\ FetchInit /\ KernelInit
    /\ NativeClientInit /\ AutoPchInit /\ PythonCallbacksInit
    /\ LifecycleInit /\ ServicesInit /\ BorrowedPublishInit /\ TeardownInit
    /\ StartingPoint

Chosen(c) == component = c

OnlySession ==
    /\ Chosen("session")
    /\ UNCHANGED <<component, waitVars, smallVars>>
OnlyWait ==
    /\ Chosen("wait")
    /\ UNCHANGED <<component, vars, smallVars>>
OnlySmall ==
    UNCHANGED <<component, vars, waitVars>>
OnlyWorker ==
    /\ Chosen("worker") /\ OnlySmall
    /\ UNCHANGED <<controllerVars, rigVars, fetchVars, kernelVars,
                   clientVars, pchVars, callbackVars, lifecycleVars,
                   serviceVars, poolVars, teardownVars>>
OnlyControllers ==
    /\ Chosen("controllers") /\ OnlySmall
    /\ UNCHANGED <<workerVars, rigVars, fetchVars, kernelVars, clientVars,
                   pchVars, callbackVars, lifecycleVars, serviceVars,
                   poolVars, teardownVars>>
OnlyRig ==
    /\ Chosen("rig") /\ OnlySmall
    /\ UNCHANGED <<workerVars, controllerVars, fetchVars, kernelVars,
                   clientVars, pchVars, callbackVars, lifecycleVars,
                   serviceVars, poolVars, teardownVars>>
OnlyFetch ==
    /\ Chosen("fetch") /\ OnlySmall
    /\ UNCHANGED <<workerVars, controllerVars, rigVars, kernelVars,
                   clientVars, pchVars, callbackVars, lifecycleVars,
                   serviceVars, poolVars, teardownVars>>
OnlyKernel ==
    /\ Chosen("kernel") /\ OnlySmall
    /\ UNCHANGED <<workerVars, controllerVars, rigVars, fetchVars,
                   clientVars, pchVars, callbackVars, lifecycleVars,
                   serviceVars, poolVars, teardownVars>>
OnlyClient ==
    /\ Chosen("client") /\ OnlySmall
    /\ UNCHANGED <<workerVars, controllerVars, rigVars, fetchVars,
                   kernelVars, pchVars, callbackVars, lifecycleVars,
                   serviceVars, poolVars, teardownVars>>
OnlyPch ==
    /\ Chosen("pch") /\ OnlySmall
    /\ UNCHANGED <<workerVars, controllerVars, rigVars, fetchVars,
                   kernelVars, clientVars, callbackVars, lifecycleVars,
                   serviceVars, poolVars, teardownVars>>
OnlyCallbacks ==
    /\ Chosen("callbacks") /\ OnlySmall
    /\ UNCHANGED <<workerVars, controllerVars, rigVars, fetchVars,
                   kernelVars, clientVars, pchVars, lifecycleVars,
                   serviceVars, poolVars, teardownVars>>
OnlyLifecycle ==
    /\ Chosen("lifecycle") /\ OnlySmall
    /\ UNCHANGED <<workerVars, controllerVars, rigVars, fetchVars,
                   kernelVars, clientVars, pchVars, callbackVars,
                   serviceVars, poolVars, teardownVars>>
OnlyServices ==
    /\ Chosen("services") /\ OnlySmall
    /\ UNCHANGED <<workerVars, controllerVars, rigVars, fetchVars,
                   kernelVars, clientVars, pchVars, callbackVars,
                   lifecycleVars, poolVars, teardownVars>>
OnlyPublish ==
    /\ Chosen("publish") /\ OnlySmall
    /\ UNCHANGED <<workerVars, controllerVars, rigVars, fetchVars,
                   kernelVars, clientVars, pchVars, callbackVars,
                   lifecycleVars, serviceVars, teardownVars>>
OnlyTeardown ==
    /\ Chosen("teardown") /\ OnlySmall
    /\ UNCHANGED <<workerVars, controllerVars, rigVars, fetchVars,
                   kernelVars, clientVars, pchVars, callbackVars,
                   lifecycleVars, serviceVars, poolVars>>

ThreadsNext ==
    \/ OnlySession /\ Next
    \/ OnlyWait /\ WaitNext
    \/ OnlyWorker /\ WorkerNext
    \/ OnlyControllers /\ ControllersNext
    \/ OnlyRig /\ RigNext
    \/ OnlyFetch /\ FetchNext
    \/ OnlyKernel /\ KernelNext
    \/ OnlyClient /\ NativeClientNext
    \/ OnlyPch /\ AutoPchNext
    \/ OnlyCallbacks /\ PythonCallbacksNext
    \/ OnlyLifecycle /\ LifecycleNext
    \/ OnlyServices /\ ServicesNext
    \/ OnlyPublish /\ BorrowedPublishNext
    \/ OnlyTeardown /\ TeardownNext

\* The fairness of NativeSession, and of the summary worker's thread and the
\* return of its stop().
ThreadsFairness ==
    /\ \A x \in Executors :
        /\ WF_vars(Chosen("session") /\ Worker(x))
        /\ SF_vars(Chosen("session") /\ WorkerTakesGil(x))
    /\ \A t \in Threads : WF_vars(Chosen("session") /\ Yield(t))
    /\ SF_vars(Chosen("session") /\ MainTakesGil)
    /\ WF_vars(Chosen("session") /\ JoinReturns)
    /\ SF_vars(Chosen("session") /\ CloseStep)
    /\ WF_workerVars(Chosen("worker") /\ WorkerBlocks)
    /\ WF_workerVars(Chosen("worker") /\ NativeStep)
    /\ WF_workerVars(Chosen("worker") /\ StopReturns)

ThreadsSpec == ThreadsInit /\ [][ThreadsNext]_threadVars /\ ThreadsFairness
=============================================================================
