--------------------------- MODULE SessionPipeline ---------------------------
(***************************************************************************)
(* A fused pipeline as a resource of a native session: the session's       *)
(* executor thread runs its callback, the user or NativeSession.close      *)
(* calls its close(), with the GIL held throughout.                        *)
(*                                                                         *)
(* FusedPipeline leaves open when the executor is joined and when close()  *)
(* is called.  Here both are decided by NativeSession, and the composition *)
(* is shown to be a behaviour of FusedPipeline.                            *)
(***************************************************************************)
EXTENDS NativeSession

CONSTANTS
    PipelineExecutor,  \* the executor that spins the pipeline's node
    Deliveries,        \* delivery policies
    PipelineBatch,     \* batch_size
    PipelineCapacity,  \* queue_capacity
    MaxPipelined       \* bound: messages handed over

ASSUME PipelineExecutorAssumption ==
    PipelineExecutor \in Executors \ PythonExecutors
ASSUME PipelineAssumption ==
    /\ Deliveries \subseteq {"every", "latest", "batch"}
    /\ PipelineBatch \in Nat \ {0} /\ PipelineCapacity \in Nat \ {0}
    /\ MaxPipelined \in Nat

VARIABLES
    \* Of FusedPipeline:
    delivery, arrived, pipe_pc, pipe_work, pipe_queue, pipe_stopping,
    pipe_subscribed, pipe_publishes, pipe_closer, pipe_quiet, pipe_stats,
    pipe_outcome

pipeVars == <<delivery, arrived, pipe_pc, pipe_work, pipe_queue, pipe_stopping,
              pipe_subscribed, pipe_publishes, pipe_closer, pipe_quiet,
              pipe_stats, pipe_outcome>>

\* The executor is joined when close() has joined every thread.
P == INSTANCE FusedPipeline WITH
        Policies <- Deliveries, BatchSize <- PipelineBatch,
        QueueCapacity <- PipelineCapacity, MaxMessages <- MaxPipelined,
        policy <- delivery,
        executor <- IF phase \in Joined THEN "joined" ELSE "running",
        pc <- pipe_pc, work <- pipe_work, queue <- pipe_queue,
        stopping <- pipe_stopping, subscribed <- pipe_subscribed,
        publishes <- pipe_publishes, closer <- pipe_closer,
        quiet <- pipe_quiet, stats <- pipe_stats, outcome <- pipe_outcome

\* The pipeline is the session's first resource.
Pipeline == 1

-----------------------------------------------------------------------------
(* The pipeline's threads.                                                 *)

\* The executor's thread is in a native callback: the pipeline's.
InPipelineNode == thread[PipelineExecutor] = "native"

PipelineCalled == InPipelineNode /\ registered >= Pipeline /\ P!Deliver

PipelineRuns ==
    \/ InPipelineNode /\ (P!Callback \/ P!ProcessOne("callback"))
    \/ P!WorkerLoop \/ P!ProcessOne("worker") \/ P!SpuriousWake

\* NativePipeline.close() by the user.
UserClosesPipeline ==
    /\ phase = "open" /\ InPython(Main)
    /\ registered >= Pipeline
    /\ P!CloseBegin

\* The session's loop over the resources has come to the pipeline.
SessionClosesPipeline ==
    /\ InClose("release") /\ cursor > 0 /\ resources[cursor] = Pipeline
    /\ P!CloseBegin

PipelineStep ==
    /\ UNCHANGED vars
    /\ \/ PipelineCalled \/ PipelineRuns
       \/ UserClosesPipeline \/ SessionClosesPipeline \/ P!CloseStep

-----------------------------------------------------------------------------
(* The session's threads.                                                  *)

\* A thread is in NativePipeline.close(), with the GIL.
InPipelineClose == pipe_closer \notin {"open", "closed"}

SessionStep ==
    /\ Next
    /\ UNCHANGED pipeVars
    /\ InPipelineClose => UNCHANGED <<gil, sessionVars, resourceVars, valid>>
    \* The callback returns when the lambda has.
    /\ InPipelineNode /\ ~InPipelineNode' => pipe_pc["callback"] = "idle"
    \* The loop goes on when close() has returned.
    /\ released' # released /\ resources[cursor] = Pipeline
         => pipe_closer = "closed"

PipelineInit == P!Init

SessionPipelineSpec ==
    /\ Init /\ PipelineInit
    /\ [][SessionStep \/ PipelineStep]_<<vars, pipeVars>>

-----------------------------------------------------------------------------
\* Under the session the pipeline behaves as FusedPipeline says: the joined
\* executor its properties speak of is what the session's joins provide.  When
\* close() goes on from its joins no callback is inside the pipeline, whoever
\* closed which thread before, and none enters it afterwards; so the close()
\* the session calls then is FusedPipeline's quiet one.
PipelineKeptBySession == P!Spec
=============================================================================
